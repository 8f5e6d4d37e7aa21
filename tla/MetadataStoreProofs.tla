------------------------- MODULE MetadataStoreProofs -------------------------
(***************************************************************************)
(* Proofs about MetadataStore, for any finite set of threads and any       *)
(* number of connections.                                                  *)
(*                                                                         *)
(* First the lock alone, for any finite set of threads: its two counters   *)
(* equal the numbers of threads they stand for; mutual exclusion and the   *)
(* absence of lost wake-ups follow.                                        *)
(*                                                                         *)
(* The store uses the transaction lock as ReadWriteLock describes it, so   *)
(* the theorems about the lock hold of it.  With them, an inductive        *)
(* invariant says where a write transaction that is open in SQLite can be: *)
(* with the writer, with a reader that has not begun, or on the connection *)
(* that is next to be used, while nobody has one.                          *)
(*                                                                         *)
(* The accesses are a sum over the connections: the fold is followed by    *)
(* induction on the size of the sets it is taken over.                     *)
(*                                                                         *)
(* Last come the hooks after a commit, a model of their own: one thread at *)
(* a time is in them, and what it unlinks is queued and has no row.        *)
(***************************************************************************)
EXTENDS MetadataStore, AfterCommit, FiniteSetTheorems, SequenceTheorems, TLAPS

(***************************************************************************)
(* ReadWriteLock by itself.                                                *)
(***************************************************************************)
Reading == {t \in Threads : pc[t] = "reading"}
Waiting == {t \in Threads : pc[t] \in {"blocked-write", "woken-write"}}

\* The counters and the flag say what the threads do.
CountersExact ==
  /\ readers = Cardinality(Reading)
  /\ waitingWriters = Cardinality(Waiting)
  /\ writer <=> \E t \in Threads : pc[t] = "writing"

IInv == TypeOK /\ CountersExact /\ MutualExclusion /\ NoLostWakeup

LEMMA SubsetsFinite ==
  /\ IsFiniteSet(Reading) /\ IsFiniteSet(Waiting)
  /\ Cardinality(Reading) \in Nat /\ Cardinality(Waiting) \in Nat
<1>1. Reading \subseteq Threads /\ Waiting \subseteq Threads
  BY DEF Reading, Waiting
<1>2. IsFiniteSet(Reading) /\ IsFiniteSet(Waiting)
  BY <1>1, ThreadsAssumption, FS_Subset
<1> QED
  BY <1>2, FS_CardinalityType

\* A counter that is zero counts nobody.
LEMMA ZeroMeansNobody ==
  ASSUME CountersExact
  PROVE  /\ readers = 0 <=> Reading = {}
         /\ waitingWriters = 0 <=> Waiting = {}
BY SubsetsFinite, FS_EmptySet DEF CountersExact

LEMMA InitIInv == Init => IInv
<1> SUFFICES ASSUME Init PROVE IInv
  OBVIOUS
<1>1. Reading = {} /\ Waiting = {}
  BY DEF Init, Reading, Waiting
<1>2. CountersExact
  BY <1>1, FS_EmptySet DEF Init, CountersExact
<1> QED
  BY <1>2 DEF Init, IInv, TypeOK, PcValues, MutualExclusion, NoLostWakeup

\* What happens to the two counted sets when one thread moves.

\* The step keeps the counted sets except that t joins or leaves one.
LEMMA JoinCount ==
  ASSUME NEW S, IsFiniteSet(S), NEW t, t \notin S
  PROVE  Cardinality(S \cup {t}) = Cardinality(S) + 1
BY FS_AddElement

LEMMA LeaveCount ==
  ASSUME NEW S, IsFiniteSet(S), NEW t \in S
  PROVE  Cardinality(S \ {t}) = Cardinality(S) - 1
BY FS_RemoveElement

LEMMA AcquireReadKeeps ==
  ASSUME IInv, NEW t \in Threads, AcquireRead(t)
  PROVE  IInv'
<1> USE DEF PcValues
<1>1. CASE ReadPermitted
  <2>1. /\ pc' = [pc EXCEPT ![t] = "reading"] /\ readers' = readers + 1
        /\ UNCHANGED <<writer, waitingWriters>>
    BY <1>1 DEF AcquireRead, MoveTo
  <2>2. Reading' = Reading \cup {t} /\ t \notin Reading /\ Waiting' = Waiting
    BY <2>1 DEF AcquireRead, Reading, Waiting, IInv, TypeOK
  <2>3. Cardinality(Reading') = Cardinality(Reading) + 1
    BY <2>2, SubsetsFinite, JoinCount
  <2>4. \A u \in Threads : pc[u] # "writing"
    BY <1>1 DEF IInv, CountersExact, ReadPermitted
  <2>5. \A u \in Threads : pc'[u] # "writing"
    BY <2>1, <2>4 DEF IInv, TypeOK
  <2>6. Waiting = {}
    BY <1>1, ZeroMeansNobody DEF IInv, ReadPermitted
  <2>7. TypeOK' /\ MutualExclusion'
    BY <2>1, <2>5 DEF IInv, TypeOK, MutualExclusion
  <2>8. CountersExact'
    BY <2>1, <2>2, <2>3, <2>4, <2>5 DEF IInv, CountersExact
  <2>9. NoLostWakeup'
    <3>1. \A u \in Threads : pc[u] \notin {"blocked-write", "woken-write", "blocked-read"}
      BY <2>4, <2>6 DEF Waiting, IInv, NoLostWakeup
    <3> QED
      BY <2>1, <3>1 DEF NoLostWakeup, IInv, TypeOK
  <2> QED
    BY <2>7, <2>8, <2>9 DEF IInv
<1>2. CASE ~ReadPermitted
  <2>1. /\ pc' = [pc EXCEPT ![t] = "blocked-read"]
        /\ UNCHANGED <<readers, writer, waitingWriters>>
    BY <1>2 DEF AcquireRead, MoveTo
  <2>2. Reading' = Reading /\ Waiting' = Waiting
    BY <2>1 DEF AcquireRead, Reading, Waiting, IInv, TypeOK
  <2>3. \A u \in Threads : pc'[u] = "writing" <=> pc[u] = "writing"
    BY <2>1 DEF AcquireRead, IInv, TypeOK
  <2>4. TypeOK' /\ MutualExclusion' /\ CountersExact'
    BY <2>1, <2>2, <2>3 DEF AcquireRead, IInv, TypeOK, MutualExclusion, CountersExact
  <2>5. \E u \in Threads : pc[u] \in {"writing", "blocked-write", "woken-write"}
    <3>1. CASE writer
      BY <3>1 DEF IInv, CountersExact
    <3>2. CASE waitingWriters # 0
      <4>1. Waiting # {}
        BY <3>2, ZeroMeansNobody DEF IInv
      <4> QED
        BY <4>1 DEF Waiting
    <3> QED
      BY <1>2, <3>1, <3>2 DEF ReadPermitted
  <2>6. \A u \in Threads : u # t => pc'[u] = pc[u]
    BY <2>1 DEF IInv, TypeOK
  <2>7. pc[t] \in {"idle", "woken-read"} /\ pc'[t] = "blocked-read"
    BY <2>1 DEF AcquireRead, IInv, TypeOK
  <2>8. NoLostWakeup'
    BY <2>5, <2>6, <2>7 DEF NoLostWakeup, IInv
  <2> QED
    BY <2>4, <2>8 DEF IInv
<1> QED
  BY <1>1, <1>2

\* The last reader leaves: everybody is woken.
LEMMA ReleaseReadKeeps ==
  ASSUME IInv, NEW t \in Threads, ReleaseRead(t)
  PROVE  IInv'
<1> USE DEF PcValues
<1>1. /\ pc[t] = "reading" /\ readers' = readers - 1
      /\ UNCHANGED <<writer, waitingWriters>>
  BY DEF ReleaseRead
<1>2. t \in Reading
  BY <1>1 DEF Reading
<1>3. pc' \in [Threads -> PcValues] /\ pc'[t] = "idle"
  BY DEF ReleaseRead, LeaveAndNotify, MoveTo, Woken, IInv, TypeOK
<1>4. \A u \in Threads \ {t} :
        /\ pc'[u] = "reading" <=> pc[u] = "reading"
        /\ pc'[u] = "writing" <=> pc[u] = "writing"
        /\ pc'[u] \in {"blocked-write", "woken-write"}
             <=> pc[u] \in {"blocked-write", "woken-write"}
        /\ pc'[u] = "blocked-read" => pc[u] = "blocked-read"
        /\ pc'[u] = "blocked-write" => pc[u] = "blocked-write"
  BY DEF ReleaseRead, LeaveAndNotify, MoveTo, Woken, IInv, TypeOK
<1>5. Reading' = Reading \ {t} /\ Waiting' = Waiting
  BY <1>1, <1>3, <1>4 DEF Reading, Waiting
<1>6. Cardinality(Reading') = Cardinality(Reading) - 1
  BY <1>2, <1>5, SubsetsFinite, LeaveCount
<1>7. readers' = Cardinality(Reading')
  BY <1>1, <1>6 DEF IInv, CountersExact
<1>8. readers' \in Nat
  <2>1. Cardinality(Reading) \in Nat /\ Cardinality(Reading) # 0
    BY <1>2, SubsetsFinite, FS_EmptySet
  <2> QED
    BY <1>6, <1>7, <2>1
<1>9. TypeOK' /\ CountersExact' /\ MutualExclusion'
  BY <1>1, <1>3, <1>4, <1>5, <1>7, <1>8 DEF IInv, TypeOK, CountersExact, MutualExclusion
<1>10. NoLostWakeup'
  <2>1. CASE readers = 1
    BY <2>1 DEF ReleaseRead, LeaveAndNotify, Woken, NoLostWakeup, IInv, TypeOK
  <2>2. CASE readers # 1
    <3>1. Reading' # {}
      BY <2>2, <1>1, <1>7, <1>8, FS_EmptySet DEF IInv, TypeOK
    <3>2. PICK w \in Threads \ {t} : pc'[w] = "reading"
      BY <3>1, <1>3 DEF Reading
    <3>3. ASSUME NEW u \in Threads, pc'[u] = "blocked-read"
          PROVE  \E v \in Threads : pc'[v] \in {"writing", "blocked-write", "woken-write"}
      <4>1. pc[u] = "blocked-read"
        BY <3>3, <1>3, <1>4
      <4>2. PICK v \in Threads : pc[v] \in {"writing", "blocked-write", "woken-write"}
        BY <4>1 DEF IInv, NoLostWakeup
      <4> QED
        BY <4>2, <1>1, <1>4
    <3> QED
      BY <3>2, <3>3 DEF NoLostWakeup
  <2> QED
    BY <2>1, <2>2
<1> QED
  BY <1>9, <1>10 DEF IInv

\* A writer enters: nobody reads or writes, and so nobody is blocked.
LEMMA EnterWriteKeeps ==
  ASSUME IInv, NEW t \in Threads, pc[t] \in {"idle", "woken-write"}, WritePermitted,
         pc' = [pc EXCEPT ![t] = "writing"], writer' = TRUE, readers' = readers,
         waitingWriters' \in Nat, waitingWriters' = Cardinality(Waiting')
  PROVE  IInv'
<1> USE DEF PcValues
<1>1. Reading = {}
  BY ZeroMeansNobody DEF IInv, WritePermitted
<1>2. \A u \in Threads : pc[u] \notin {"reading", "writing"}
  BY <1>1 DEF Reading, IInv, CountersExact, WritePermitted
<1>3. pc'[t] = "writing" /\ \A u \in Threads \ {t} : pc'[u] = pc[u]
  BY DEF IInv, TypeOK
<1>4. Reading' = Reading
  BY <1>1, <1>2, <1>3 DEF Reading
<1>5. TypeOK' /\ CountersExact' /\ MutualExclusion'
  BY <1>2, <1>3, <1>4 DEF IInv, TypeOK, CountersExact, MutualExclusion
<1>6. NoLostWakeup'
  BY <1>3 DEF NoLostWakeup
<1> QED
  BY <1>5, <1>6 DEF IInv

\* A writer finds the lock taken: its holder will notify it.
LEMMA BlockWriteKeeps ==
  ASSUME IInv, NEW t \in Threads, pc[t] \in {"idle", "woken-write"}, ~WritePermitted,
         pc' = [pc EXCEPT ![t] = "blocked-write"], UNCHANGED <<readers, writer>>,
         waitingWriters' \in Nat, waitingWriters' = Cardinality(Waiting')
  PROVE  IInv'
<1> USE DEF PcValues
<1>1. pc'[t] = "blocked-write" /\ \A u \in Threads \ {t} : pc'[u] = pc[u]
  BY DEF IInv, TypeOK
<1>2. Reading' = Reading
  BY <1>1 DEF Reading
<1>3. \A u \in Threads : pc'[u] = "writing" <=> pc[u] = "writing"
  BY <1>1
<1>4. TypeOK' /\ CountersExact' /\ MutualExclusion'
  BY <1>1, <1>2, <1>3 DEF IInv, TypeOK, CountersExact, MutualExclusion
<1>5. \E u \in Threads : pc[u] \in {"reading", "writing"}
  <2>1. CASE writer
    BY <2>1 DEF IInv, CountersExact
  <2>2. CASE readers # 0
    <3>1. Reading # {}
      BY <2>2, ZeroMeansNobody DEF IInv
    <3> QED
      BY <3>1 DEF Reading
  <2> QED
    BY <2>1, <2>2 DEF WritePermitted
<1>6. \E u \in Threads : pc'[u] \in {"reading", "writing"}
  BY <1>1, <1>5
<1>7. NoLostWakeup'
  BY <1>1, <1>6 DEF NoLostWakeup, IInv
<1> QED
  BY <1>4, <1>7 DEF IInv

LEMMA StartWriteKeeps ==
  ASSUME IInv, NEW t \in Threads, StartWrite(t)
  PROVE  IInv'
<1>1. pc[t] = "idle" /\ readers' = readers /\ t \notin Waiting
  BY DEF StartWrite, Waiting
<1>2. waitingWriters = Cardinality(Waiting) /\ waitingWriters \in Nat
  BY DEF IInv, CountersExact, TypeOK
<1>3. CASE WritePermitted
  <2>1. /\ pc' = [pc EXCEPT ![t] = "writing"] /\ writer' = TRUE
        /\ waitingWriters' = waitingWriters
    BY <1>3 DEF StartWrite, MoveTo
  <2>2. Waiting' = Waiting
    BY <2>1, <1>1 DEF Waiting, IInv, TypeOK
  <2> QED
    BY <1>1, <1>2, <1>3, <2>1, <2>2, EnterWriteKeeps
<1>4. CASE ~WritePermitted
  <2>1. /\ pc' = [pc EXCEPT ![t] = "blocked-write"] /\ writer' = writer
        /\ waitingWriters' = waitingWriters + 1
    BY <1>4 DEF StartWrite, MoveTo
  <2>2. Waiting' = Waiting \cup {t}
    BY <2>1, <1>1 DEF Waiting, IInv, TypeOK
  <2>3. waitingWriters' = Cardinality(Waiting') /\ waitingWriters' \in Nat
    BY <1>1, <1>2, <2>1, <2>2, SubsetsFinite, JoinCount
  <2> QED
    BY <1>1, <1>4, <2>1, <2>3, BlockWriteKeeps
<1> QED
  BY <1>3, <1>4

LEMMA RetryWriteKeeps ==
  ASSUME IInv, NEW t \in Threads, RetryWrite(t)
  PROVE  IInv'
<1>1. pc[t] = "woken-write" /\ readers' = readers /\ t \in Waiting
  BY DEF RetryWrite, Waiting
<1>2. waitingWriters = Cardinality(Waiting) /\ waitingWriters \in Nat
  BY DEF IInv, CountersExact, TypeOK
<1>3. CASE WritePermitted
  <2>1. /\ pc' = [pc EXCEPT ![t] = "writing"] /\ writer' = TRUE
        /\ waitingWriters' = waitingWriters - 1
    BY <1>3 DEF RetryWrite, MoveTo
  <2>2. Waiting' = Waiting \ {t}
    BY <2>1, <1>1 DEF Waiting, IInv, TypeOK
  <2>3. waitingWriters' = Cardinality(Waiting')
    BY <1>1, <1>2, <2>1, <2>2, SubsetsFinite, LeaveCount
  <2>4. waitingWriters # 0
    BY <1>1, ZeroMeansNobody DEF IInv
  <2>5. waitingWriters' \in Nat
    BY <1>2, <2>1, <2>4
  <2> QED
    BY <1>1, <1>3, <2>1, <2>3, <2>5, EnterWriteKeeps
<1>4. CASE ~WritePermitted
  <2>1. /\ pc' = [pc EXCEPT ![t] = "blocked-write"] /\ writer' = writer
        /\ waitingWriters' = waitingWriters
    BY <1>4 DEF RetryWrite, MoveTo
  <2>2. Waiting' = Waiting
    BY <2>1, <1>1 DEF Waiting, IInv, TypeOK
  <2> QED
    BY <1>1, <1>2, <1>4, <2>1, <2>2, BlockWriteKeeps
<1> QED
  BY <1>3, <1>4

\* The writer leaves: everybody is woken, and nobody is blocked.
LEMMA ReleaseWriteKeeps ==
  ASSUME IInv, NEW t \in Threads, ReleaseWrite(t)
  PROVE  IInv'
<1> USE DEF PcValues
<1>1. /\ pc[t] = "writing" /\ writer' = FALSE
      /\ pc' = [u \in Threads |-> IF u = t THEN "idle" ELSE Woken(pc[u])]
      /\ UNCHANGED <<readers, waitingWriters>>
  BY DEF ReleaseWrite, LeaveAndNotify
<1>2. pc' \in [Threads -> PcValues] /\ pc'[t] = "idle"
  BY <1>1 DEF Woken, IInv, TypeOK
<1>3. \A u \in Threads :
        /\ pc'[u] = "reading" <=> pc[u] = "reading"
        /\ pc'[u] # "writing"
        /\ pc'[u] \in {"blocked-write", "woken-write"}
             <=> pc[u] \in {"blocked-write", "woken-write"}
        /\ pc'[u] \notin {"blocked-read", "blocked-write"}
  BY <1>1 DEF Woken, IInv, TypeOK, MutualExclusion
<1>4. Reading' = Reading /\ Waiting' = Waiting
  BY <1>3 DEF Reading, Waiting
<1> QED
  BY <1>1, <1>2, <1>3, <1>4
     DEF IInv, TypeOK, CountersExact, MutualExclusion, NoLostWakeup

LEMMA NextKeepsIInv == IInv /\ [Next]_vars => IInv'
<1> SUFFICES ASSUME IInv, [Next]_vars PROVE IInv'
  OBVIOUS
<1>1. ASSUME NEW t \in Threads, AcquireRead(t) PROVE IInv'
  BY <1>1, AcquireReadKeeps
<1>2. ASSUME NEW t \in Threads, ReleaseRead(t) PROVE IInv'
  BY <1>2, ReleaseReadKeeps
<1>3. ASSUME NEW t \in Threads, StartWrite(t) PROVE IInv'
  BY <1>3, StartWriteKeeps
<1>4. ASSUME NEW t \in Threads, RetryWrite(t) PROVE IInv'
  BY <1>4, RetryWriteKeeps
<1>5. ASSUME NEW t \in Threads, ReleaseWrite(t) PROVE IInv'
  BY <1>5, ReleaseWriteKeeps
<1>6. CASE UNCHANGED vars
  BY <1>6 DEF vars, IInv, TypeOK, CountersExact, Reading, Waiting,
              MutualExclusion, NoLostWakeup
<1> QED
  BY <1>1, <1>2, <1>3, <1>4, <1>5, <1>6 DEF Next

LEMMA SpecIInv == Spec => []IInv
  BY InitIInv, NextKeepsIInv, PTL DEF Spec

\* The fields of the lock keep their types; no counter becomes negative.
THEOREM ReadWriteLockTypeOK == Spec => []TypeOK
<1>1. IInv => TypeOK
  BY DEF IInv
<1> QED
  BY <1>1, SpecIInv, PTL

\* For any number of threads a writer excludes readers and other writers
\* (acquire_read and acquire_write test and enter with the mutex held).
THEOREM ReadWriteLockMutualExclusion == Spec => []MutualExclusion
<1>1. IInv => MutualExclusion
  BY DEF IInv
<1> QED
  BY <1>1, SpecIInv, PTL

\* For any number of threads nobody stays blocked with nobody left to notify
\* (release_read notifies only when the last reader leaves).
THEOREM ReadWriteLockNoLostWakeup == Spec => []NoLostWakeup
<1>1. IInv => NoLostWakeup
  BY DEF IInv
<1> QED
  BY <1>1, SpecIInv, PTL

(***************************************************************************)
(* The store uses the lock.                                                *)
(***************************************************************************)
LEMMA StoreStepIsLockStep == [StoreNext]_storeVars => [Next]_vars
<1> SUFFICES ASSUME [StoreNext]_storeVars PROVE [Next]_vars
  OBVIOUS
<1>1. CASE UNCHANGED storeVars
  BY <1>1 DEF storeVars, lockVars
<1>2. ASSUME NEW t \in Threads, LockStep(t) PROVE [Next]_vars
  BY <1>2 DEF LockStep, Next
<1>3. ASSUME NEW t \in Threads, Leave(t) PROVE [Next]_vars
  BY <1>3 DEF Leave, Next
<1>4. ASSUME NEW t \in Threads, Proceed(t) \/ FlushInBody(t) \/ Record(t), ~Leave(t)
      PROVE  UNCHANGED vars
  <2>1. UNCHANGED lockVars
    BY <1>4 DEF Proceed, TakeIdle, FindNone, Reserve, Wait, Open, OpenFails, Begin, BeginFails,
      BodyFails, EndRead, EndWrite, Commit, FlushFails, CommitFails, Release,
      FlushInBody, Record
  <2> QED
    BY <2>1 DEF lockVars
<1> QED
  BY <1>1, <1>2, <1>3, <1>4 DEF StoreNext, Proceed

\* Seen from the lock, the transactions of the store are readers and writers that
\* come and go as ReadWriteLock lets them (MetadataStore._transaction).
THEOREM StoreUsesLock == StoreSpec => Spec
<1>1. StoreInit => Init
  BY DEF StoreInit
<1> QED
  BY <1>1, StoreStepIsLockStep, PTL DEF StoreSpec, Spec

\* A write transaction of the store excludes every other one of the process.
THEOREM StoreMutualExclusion == StoreSpec => []MutualExclusion
BY StoreUsesLock, ReadWriteLockMutualExclusion, PTL

\* No thread waits for the lock of the store without somebody left to wake it,
\* also when those who have it wait for a connection.
THEOREM StoreNoLostWakeup == StoreSpec => []NoLostWakeup
BY StoreUsesLock, ReadWriteLockNoLostWakeup, PTL

(***************************************************************************)
(* Types.                                                                  *)
(***************************************************************************)
\* What the store adds to the variables of the lock.
StoreVariablesTyped ==
  /\ stage \in [Threads -> Stages]
  /\ conn \in [Threads -> Connections \cup {NoConnection}]
  /\ created \subseteq Connections
  /\ idle \in Seq(Connections)
  /\ begun \in [Connections -> {"none", "read", "write"}]
  /\ deferred \in Nat /\ committed \in Nat /\ recorded \in Nat
  /\ inFlight \in [Connections -> Nat]

\* The stages in which a thread has a connection.
Holding == {"opening", "begin", "body", "flushed", "release"}

\* The stages agree with the lock and with the connections.
StagesMatch ==
  \A t \in Threads :
    /\ stage[t] = "out" <=> pc[t] \notin {"reading", "writing"}
    /\ stage[t] \in Holding <=> conn[t] # NoConnection

\* A connection has one holder or is idle, once.
ConnectionsApart ==
  /\ \A t, u \in Threads : t # u /\ conn[t] = conn[u] => conn[t] = NoConnection
  /\ \A t \in Threads, i \in 1 .. Len(idle) : idle[i] # conn[t]
  /\ \A i, j \in 1 .. Len(idle) : i # j => idle[i] # idle[j]
  /\ \A t \in Threads : conn[t] # NoConnection => conn[t] \in created
  /\ \A i \in 1 .. Len(idle) : idle[i] \in created

\* Where a write transaction that is open in SQLite can be.
WriteTransactionPlaced ==
  \A c \in Connections : begun[c] = "write" =>
    \/ \E t \in Threads : conn[t] = c /\ pc[t] = "writing" /\ stage[t] # "opening"
    \/ \E t \in Threads : conn[t] = c /\ stage[t] = "begin"
    \/ /\ idle # <<>> /\ c = Head(idle)
       /\ \A t \in Threads : conn[t] = NoConnection /\ stage[t] # "empty"

\* One connection at least is open: setup() opened it, and none is closed.
SomeConnectionOpen ==
  \/ idle # <<>>
  \/ \E t \in Threads : stage[t] \in {"begin", "body", "flushed", "release"}

StoreInv ==
  /\ IInv
  /\ StoreVariablesTyped
  /\ StagesMatch
  /\ ConnectionsApart
  /\ WriteTransactionPlaced
  /\ SomeConnectionOpen

LEMMA StoreInitInv == StoreInit => StoreInv
<1> SUFFICES ASSUME StoreInit PROVE StoreInv
  OBVIOUS
<1>1. IInv
  BY InitIInv DEF StoreInit
<1>2. PICK c \in Connections : created = {c} /\ idle = <<c>>
  BY DEF StoreInit
<1>3. StoreVariablesTyped
  BY <1>2 DEF StoreInit, StoreVariablesTyped, Stages
<1>4. StagesMatch
  BY DEF StoreInit, Init, StagesMatch, Holding
<1>5. ConnectionsApart
  BY <1>2, StoreAssumption DEF StoreInit, ConnectionsApart
<1>6. WriteTransactionPlaced /\ SomeConnectionOpen
  BY <1>2 DEF StoreInit, WriteTransactionPlaced, SomeConnectionOpen
<1> QED
  BY <1>1, <1>3, <1>4, <1>5, <1>6 DEF StoreInv

LEMMA StepKeepsTypes ==
  ASSUME StoreInv, [StoreNext]_storeVars
  PROVE  StoreVariablesTyped'
<1> USE DEF StoreInv, StoreVariablesTyped, Stages, Go
<1>1. CASE UNCHANGED storeVars
  BY <1>1 DEF storeVars, poolVars, accessVars
<1>2. ASSUME NEW t \in Threads, LockStep(t) \/ Leave(t)
      PROVE  StoreVariablesTyped'
  BY <1>2 DEF LockStep, Leave, poolVars, accessVars
<1>3. ASSUME NEW t \in Threads, TakeIdle(t) PROVE StoreVariablesTyped'
  <2>1. Head(idle) \in Connections /\ Tail(idle) \in Seq(Connections)
    BY <1>3 DEF TakeIdle
  <2> QED
    BY <1>3, <2>1 DEF TakeIdle, accessVars
<1>4. ASSUME NEW t \in Threads, FindNone(t) \/ Reserve(t) \/ Wait(t) \/ Open(t) \/ OpenFails(t)
      PROVE  StoreVariablesTyped'
  BY <1>4 DEF FindNone, Reserve, Wait, Open, OpenFails, poolVars, accessVars
<1>5. ASSUME NEW t \in Threads, conn[t] \in Connections, Release(t)
      PROVE  StoreVariablesTyped'
  <2>1. <<conn[t]>> \o idle \in Seq(Connections)
    BY <1>5
  <2> QED
    BY <1>5, <2>1 DEF Release, accessVars
<1>6. ASSUME NEW t \in Threads, conn[t] \in Connections,
             Begin(t) \/ BeginFails(t) \/ BodyFails(t) \/ EndRead(t) \/ FlushFails(t)
      PROVE  StoreVariablesTyped'
  <2>1. CASE Begin(t)
    <3>1. Mode(t) \in {"none", "read", "write"}
      BY DEF Mode
    <3> QED
      BY <1>6, <2>1, <3>1 DEF Begin, poolVars, accessVars
  <2>2. CASE BeginFails(t)
    BY <1>6, <2>2 DEF BeginFails, RolledBack, poolVars
  <2>3. CASE BodyFails(t)
    BY <1>6, <2>3 DEF BodyFails, RolledBack, poolVars
  <2>4. CASE EndRead(t)
    BY <1>6, <2>4 DEF EndRead, poolVars, accessVars
  <2>5. CASE FlushFails(t)
    BY <1>6, <2>5 DEF FlushFails, RolledBack, poolVars
  <2> QED
    BY <1>6, <2>1, <2>2, <2>3, <2>4, <2>5
<1>7. ASSUME NEW t \in Threads, conn[t] \in Connections,
             EndWrite(t) \/ FlushInBody(t) \/ Commit(t) \/ CommitFails(t)
      PROVE  StoreVariablesTyped'
  <2>1. inFlight[conn[t]] \in Nat
    BY <1>7
  <2>2. CASE EndWrite(t)
    BY <1>7, <2>1, <2>2 DEF EndWrite, Flush, poolVars
  <2>3. CASE FlushInBody(t)
    BY <1>7, <2>1, <2>3 DEF FlushInBody, Flush, poolVars
  <2>4. CASE Commit(t)
    BY <1>7, <2>1, <2>4 DEF Commit, poolVars
  <2>5. CASE CommitFails(t)
    BY <1>7, <2>5 DEF CommitFails, poolVars, accessVars
  <2> QED
    BY <1>7, <2>2, <2>3, <2>4, <2>5
<1>8. ASSUME NEW t \in Threads, Record(t) PROVE StoreVariablesTyped'
  BY <1>8 DEF Record, poolVars
<1>9. ASSUME NEW t \in Threads, stage[t] \in Holding PROVE conn[t] \in Connections
  BY <1>9 DEF StagesMatch
<1>10. ASSUME NEW t \in Threads,
              Release(t) \/ Begin(t) \/ BeginFails(t) \/ BodyFails(t) \/ EndRead(t)
              \/ FlushFails(t) \/ EndWrite(t) \/ FlushInBody(t) \/ Commit(t) \/ CommitFails(t)
       PROVE  stage[t] \in Holding
  BY <1>10 DEF Holding, Release, Begin, BeginFails, BodyFails, EndRead, FlushFails,
    EndWrite, FlushInBody, Commit, CommitFails
<1> QED
  <2> HIDE DEF StoreInv, StoreVariablesTyped, Stages, Go
  <2> QED
    BY <1>1, <1>2, <1>3, <1>4, <1>5, <1>6, <1>7, <1>8, <1>9, <1>10 DEF StoreNext, Proceed

(***************************************************************************)
(* The stages, and who has which connection.                               *)
(***************************************************************************)
\* Steps of the lock disturb none of the other transactions.
LEMMA LockKeepsOthers ==
  ASSUME StoreInv, NEW t \in Threads, LockStep(t) \/ Leave(t)
  PROVE  /\ \A u \in Threads \ {t} :
              pc'[u] \in {"reading", "writing"} <=> pc[u] \in {"reading", "writing"}
         /\ \A u \in Threads : pc[u] = "writing" /\ u # t => pc'[u] = "writing"
         /\ pc' \in [Threads -> PcValues]
         /\ Leave(t) => pc'[t] = "idle"
         /\ LockStep(t) => pc[t] \notin {"reading", "writing"}
<1>1. pc \in [Threads -> PcValues]
  BY DEF StoreInv, IInv, TypeOK
<1>2. CASE LockStep(t)
  BY <1>1, <1>2 DEF LockStep, Leave, AcquireRead, StartWrite, RetryWrite, MoveTo, PcValues
<1>3. CASE Leave(t)
  BY <1>1, <1>3 DEF LockStep, Leave, ReleaseRead, ReleaseWrite, LeaveAndNotify, Woken, MoveTo,
    PcValues
<1> QED
  BY <1>2, <1>3

LEMMA StepKeepsStages ==
  ASSUME StoreInv, [StoreNext]_storeVars
  PROVE  StagesMatch'
<1>0. StagesMatch /\ StoreVariablesTyped
  BY DEF StoreInv
<1> USE <1>0, StoreAssumption DEF StagesMatch, StoreVariablesTyped, Holding, Go
<1>1. CASE UNCHANGED storeVars
  BY <1>1 DEF storeVars, poolVars, accessVars, lockVars, vars
<1>2. ASSUME NEW t \in Threads, LockStep(t)
      PROVE  StagesMatch'
  <2>1. conn' = conn /\ stage[t] = "out"
    BY <1>2 DEF LockStep, poolVars
  <2>2. ASSUME NEW u \in Threads, u # t PROVE stage'[u] = stage[u]
    BY <1>2, <2>2 DEF LockStep, Stages
  <2>3. stage'[t] = IF pc'[t] \in {"reading", "writing"} THEN "acquire" ELSE "out"
    BY <1>2, <2>1 DEF LockStep, Stages
  <2> QED
    BY <1>2, <2>1, <2>2, <2>3, LockKeepsOthers
<1>3. ASSUME NEW t \in Threads, Leave(t)
      PROVE  StagesMatch'
  <2>1. conn' = conn /\ stage[t] = "leave"
    BY <1>3 DEF Leave, poolVars
  <2>2. stage' = [stage EXCEPT ![t] = "out"]
    BY <1>3 DEF Leave
  <2> QED
    BY <1>3, <2>1, <2>2, LockKeepsOthers
<1>4. ASSUME NEW t \in Threads, TakeIdle(t) PROVE StagesMatch'
  <2>1. Head(idle) \in Connections
    BY <1>4 DEF TakeIdle
  <2> QED
    BY <1>4, <2>1 DEF TakeIdle, lockVars, vars
<1>5. ASSUME NEW t \in Threads,
             FindNone(t) \/ Reserve(t) \/ Wait(t) \/ Open(t) \/ OpenFails(t) \/ Release(t)
      PROVE  StagesMatch'
  BY <1>5 DEF FindNone, Reserve, Wait, Open, OpenFails, Release, lockVars, vars, poolVars
<1>6. ASSUME NEW t \in Threads,
             Begin(t) \/ BeginFails(t) \/ BodyFails(t) \/ EndRead(t) \/ EndWrite(t)
             \/ Commit(t) \/ FlushFails(t) \/ CommitFails(t) \/ FlushInBody(t) \/ Record(t)
      PROVE  StagesMatch'
  BY <1>6 DEF Begin, BeginFails, BodyFails, EndRead, EndWrite, Commit, FlushFails,
    CommitFails, FlushInBody, Record, lockVars, vars, poolVars
<1> QED
  BY <1>1, <1>2, <1>3, <1>4, <1>5, <1>6 DEF StoreNext, Proceed

\* The steps that leave the pool alone.
LEMMA OtherStepsLeavePool ==
  ASSUME NEW t \in Threads,
         LockStep(t) \/ Leave(t) \/ FindNone(t) \/ Wait(t) \/ Open(t) \/ Begin(t) \/ BeginFails(t)
         \/ BodyFails(t) \/ EndRead(t) \/ EndWrite(t) \/ Commit(t) \/ FlushFails(t)
         \/ CommitFails(t) \/ FlushInBody(t) \/ Record(t)
  PROVE  UNCHANGED poolVars
BY DEF LockStep, Leave, FindNone, Wait, Open, Begin, BeginFails, BodyFails, EndRead, EndWrite, Commit,
  FlushFails, CommitFails, FlushInBody, Record

LEMMA StepKeepsConnectionsApart ==
  ASSUME StoreInv, [StoreNext]_storeVars
  PROVE  ConnectionsApart'
<1>0. StagesMatch /\ StoreVariablesTyped /\ ConnectionsApart
  BY DEF StoreInv
<1>1. ASSUME UNCHANGED poolVars PROVE ConnectionsApart'
  BY <1>0, <1>1 DEF ConnectionsApart, poolVars
<1>2. ASSUME NEW t \in Threads, TakeIdle(t) PROVE ConnectionsApart'
  <2>1. /\ idle \in Seq(Connections) /\ idle # <<>>
        /\ conn' = [conn EXCEPT ![t] = idle[1]]
        /\ created' = created
        /\ idle[1] \in created
    BY <1>0, <1>2 DEF TakeIdle, StoreVariablesTyped, ConnectionsApart
  <2>2. Len(idle') = Len(idle) - 1 /\ \A i \in 1 .. Len(idle') : idle'[i] = idle[i + 1]
    BY <1>2, <2>1 DEF TakeIdle
  <2>3. \A u \in Threads : conn'[u] = IF u = t THEN idle[1] ELSE conn[u]
    BY <1>0, <2>1 DEF StoreVariablesTyped
  <2>4. Len(idle) \in Nat /\ 1 \in 1 .. Len(idle)
    BY <2>1
  <2>5. \A i \in 1 .. Len(idle') : i + 1 \in 1 .. Len(idle) /\ i + 1 # 1
    BY <2>2, <2>4
  <2>6. \A u, v \in Threads : u # v /\ conn'[u] = conn'[v] => conn'[u] = NoConnection
    BY <1>0, <2>3, <2>4 DEF ConnectionsApart
  <2>7. \A u \in Threads, i \in 1 .. Len(idle') : idle'[i] # conn'[u]
    BY <1>0, <2>2, <2>3, <2>4, <2>5 DEF ConnectionsApart
  <2>8. \A i, j \in 1 .. Len(idle') : i # j => idle'[i] # idle'[j]
    <3>1. ASSUME NEW i \in 1 .. Len(idle'), NEW j \in 1 .. Len(idle'), i # j
          PROVE  idle'[i] # idle'[j]
      <4>1. i + 1 \in 1 .. Len(idle) /\ j + 1 \in 1 .. Len(idle) /\ i + 1 # j + 1
        BY <2>5, <3>1
      <4>2. idle'[i] = idle[i + 1] /\ idle'[j] = idle[j + 1]
        BY <2>2
      <4> QED
        BY <1>0, <4>1, <4>2 DEF ConnectionsApart
    <3> QED
      BY <3>1
  <2>9. \A u \in Threads : conn'[u] # NoConnection => conn'[u] \in created'
    BY <1>0, <2>1, <2>3 DEF ConnectionsApart
  <2>10. \A i \in 1 .. Len(idle') : idle'[i] \in created'
    BY <1>0, <2>1, <2>2, <2>5 DEF ConnectionsApart
  <2> QED
    BY <2>6, <2>7, <2>8, <2>9, <2>10 DEF ConnectionsApart
<1>3. ASSUME NEW t \in Threads, Reserve(t) PROVE ConnectionsApart'
  <2>1. PICK c \in Connections \ created :
          created' = created \cup {c} /\ conn' = [conn EXCEPT ![t] = c]
    BY <1>3 DEF Reserve
  <2>2. idle' = idle
    BY <1>3 DEF Reserve
  <2>3. \A u \in Threads : conn'[u] = IF u = t THEN c ELSE conn[u]
    BY <1>0, <2>1 DEF StoreVariablesTyped
  <2>4. c # NoConnection
    BY StoreAssumption
  <2> QED
    BY <1>0, <2>1, <2>2, <2>3, <2>4 DEF ConnectionsApart
<1>4. ASSUME NEW t \in Threads, OpenFails(t) PROVE ConnectionsApart'
  <2>1. /\ created' = created \ {conn[t]} /\ idle' = idle
        /\ \A u \in Threads : conn'[u] = IF u = t THEN NoConnection ELSE conn[u]
    BY <1>0, <1>4 DEF OpenFails, StoreVariablesTyped
  <2>2. conn[t] # NoConnection
    BY <1>0, <1>4 DEF OpenFails, StagesMatch, Holding
  <2>3. \A i \in 1 .. Len(idle) : idle[i] # NoConnection
    BY <1>0, StoreAssumption DEF StoreVariablesTyped
  <2> QED
    BY <1>0, <2>1, <2>2, <2>3 DEF ConnectionsApart
<1>5. ASSUME NEW t \in Threads, Release(t) PROVE ConnectionsApart'
  <2>1. conn[t] \in Connections /\ conn[t] # NoConnection
    BY <1>0, <1>5, StoreAssumption DEF Release, StagesMatch, Holding, StoreVariablesTyped
  <2>2. /\ created' = created /\ idle' = <<conn[t]>> \o idle
        /\ \A u \in Threads : conn'[u] = IF u = t THEN NoConnection ELSE conn[u]
    BY <1>0, <1>5 DEF Release, StoreVariablesTyped
  <2>3. /\ Len(idle) \in Nat /\ Len(idle') = Len(idle) + 1
        /\ \A i \in 1 .. Len(idle') : idle'[i] = IF i = 1 THEN conn[t] ELSE idle[i - 1]
    BY <1>0, <2>1, <2>2 DEF StoreVariablesTyped
  <2>4. \A i \in 1 .. Len(idle) : idle[i] # NoConnection
    BY <1>0, StoreAssumption DEF StoreVariablesTyped
  <2>5. \A i \in 1 .. Len(idle') : i # 1 => i - 1 \in 1 .. Len(idle)
    BY <2>3
  <2>6. \A u, v \in Threads : u # v /\ conn'[u] = conn'[v] => conn'[u] = NoConnection
    BY <1>0, <2>2 DEF ConnectionsApart
  <2>7. \A u \in Threads, i \in 1 .. Len(idle') : idle'[i] # conn'[u]
    <3>1. ASSUME NEW u \in Threads, NEW i \in 1 .. Len(idle') PROVE idle'[i] # conn'[u]
      <4>1. CASE i = 1
        BY <1>0, <2>1, <2>2, <2>3, <4>1 DEF ConnectionsApart
      <4>2. CASE i # 1
        BY <1>0, <2>2, <2>3, <2>4, <2>5, <4>2 DEF ConnectionsApart
      <4> QED
        BY <4>1, <4>2
    <3> QED
      BY <3>1
  <2>8. \A i, j \in 1 .. Len(idle') : i # j => idle'[i] # idle'[j]
    <3>1. ASSUME NEW i \in 1 .. Len(idle'), NEW j \in 1 .. Len(idle'), i # j
          PROVE  idle'[i] # idle'[j]
      <4>1. CASE i # 1 /\ j # 1
        <5>1. i - 1 \in 1 .. Len(idle) /\ j - 1 \in 1 .. Len(idle) /\ i - 1 # j - 1
          BY <2>5, <3>1, <4>1
        <5>2. idle'[i] = idle[i - 1] /\ idle'[j] = idle[j - 1]
          BY <2>3, <4>1
        <5> QED
          BY <1>0, <5>1, <5>2 DEF ConnectionsApart
      <4>2. CASE i = 1 \/ j = 1
        BY <1>0, <2>3, <2>5, <3>1, <4>2 DEF ConnectionsApart
      <4> QED
        BY <4>1, <4>2
    <3> QED
      BY <3>1
  <2>9. \A u \in Threads : conn'[u] # NoConnection => conn'[u] \in created'
    BY <1>0, <2>2 DEF ConnectionsApart
  <2>10. \A i \in 1 .. Len(idle') : idle'[i] \in created'
    BY <1>0, <2>1, <2>2, <2>3, <2>5 DEF ConnectionsApart
  <2> QED
    BY <2>6, <2>7, <2>8, <2>9, <2>10 DEF ConnectionsApart
<1> QED
  BY <1>1, <1>2, <1>3, <1>4, <1>5, OtherStepsLeavePool DEF StoreNext, Proceed, storeVars

(***************************************************************************)
(* Where open write transactions are.                                      *)
(***************************************************************************)
\* A thread that writes is alone: no other one has a connection.
LEMMA WriterAlone ==
  ASSUME StoreInv, NEW t \in Threads, pc[t] = "writing", NEW u \in Threads, u # t
  PROVE  stage[u] = "out" /\ conn[u] = NoConnection
<1>1. MutualExclusion
  BY DEF StoreInv, IInv
<1>2. pc[u] \notin {"reading", "writing"}
  BY <1>1 DEF MutualExclusion
<1> QED
  BY <1>2 DEF StoreInv, StagesMatch, Holding

\* A thread without a connection moves, and the others go on writing.
LEMMA MoveKeepsPlaces ==
  ASSUME WriteTransactionPlaced, NEW t \in Threads, conn[t] = NoConnection,
         UNCHANGED <<begun, conn, idle>>, stage'[t] # "empty",
         \A u \in Threads \ {t} : stage'[u] = stage[u] /\ (pc[u] = "writing" => pc'[u] = "writing")
  PROVE  WriteTransactionPlaced'
<1> SUFFICES ASSUME NEW c \in Connections, begun[c] = "write"
             PROVE  \/ \E u \in Threads : conn[u] = c /\ pc'[u] = "writing" /\ stage'[u] # "opening"
                    \/ \E u \in Threads : conn[u] = c /\ stage'[u] = "begin"
                    \/ /\ idle # <<>> /\ c = Head(idle)
                       /\ \A u \in Threads : conn[u] = NoConnection /\ stage'[u] # "empty"
  BY DEF WriteTransactionPlaced
<1>1. c # NoConnection
  BY StoreAssumption
<1>2. CASE \E u \in Threads : conn[u] = c /\ ((pc[u] = "writing" /\ stage[u] # "opening") \/ stage[u] = "begin")
  <2>1. PICK u \in Threads : conn[u] = c /\ ((pc[u] = "writing" /\ stage[u] # "opening") \/ stage[u] = "begin")
    BY <1>2
  <2>2. u # t
    BY <1>1, <2>1
  <2>3. stage'[u] = stage[u] /\ (pc[u] = "writing" => pc'[u] = "writing")
    BY <2>2
  <2> QED
    BY <2>1, <2>3
<1>3. CASE /\ idle # <<>> /\ c = Head(idle)
           /\ \A u \in Threads : conn[u] = NoConnection /\ stage[u] # "empty"
  <2>1. \A u \in Threads : stage'[u] # "empty"
    BY <1>3
  <2> QED
    BY <1>3, <2>1
<1> QED
  BY <1>2, <1>3 DEF WriteTransactionPlaced

LEMMA StepKeepsWriteTransactionPlaced ==
  ASSUME StoreInv, [StoreNext]_storeVars
  PROVE  WriteTransactionPlaced'
<1>0. /\ StagesMatch /\ StoreVariablesTyped /\ ConnectionsApart /\ WriteTransactionPlaced
      /\ \A t \in Threads : stage[t] \in Holding => conn[t] \in Connections
  BY DEF StoreInv, StagesMatch, StoreVariablesTyped
\* Nothing that counts here changes.
<1>1. ASSUME UNCHANGED <<pc, conn, idle, stage>>,
             \A c \in Connections : begun'[c] = "write" => begun[c] = "write"
      PROVE  WriteTransactionPlaced'
  BY <1>0, <1>1 DEF WriteTransactionPlaced
<1>2. ASSUME NEW t \in Threads, LockStep(t) PROVE WriteTransactionPlaced'
  <2>1. begun' = begun /\ conn' = conn /\ idle' = idle /\ stage[t] = "out"
    BY <1>2 DEF LockStep, poolVars
  <2>2. conn[t] = NoConnection
    BY <1>0, <2>1 DEF StagesMatch, Holding
  <2>3. \A u \in Threads \ {t} : stage'[u] = stage[u] /\ (pc[u] = "writing" => pc'[u] = "writing")
    BY <1>0, <1>2, LockKeepsOthers DEF LockStep, Go, StoreVariablesTyped
  <2>4. stage'[t] # "empty"
    BY <1>0, <1>2 DEF LockStep, Go, StoreVariablesTyped
  <2> QED
    BY <1>0, <2>1, <2>2, <2>3, <2>4, MoveKeepsPlaces
<1>3. ASSUME NEW t \in Threads, Leave(t) PROVE WriteTransactionPlaced'
  <2>1. begun' = begun /\ conn' = conn /\ idle' = idle /\ stage[t] = "leave"
    BY <1>3 DEF Leave, poolVars
  <2>2. conn[t] = NoConnection
    BY <1>0, <2>1 DEF StagesMatch, Holding
  <2>3. \A u \in Threads \ {t} : stage'[u] = stage[u] /\ (pc[u] = "writing" => pc'[u] = "writing")
    BY <1>0, <1>3, LockKeepsOthers DEF Leave, Go, StoreVariablesTyped
  <2>4. stage'[t] # "empty"
    BY <1>0, <1>3 DEF Leave, Go, StoreVariablesTyped
  <2> QED
    BY <1>0, <2>1, <2>2, <2>3, <2>4, MoveKeepsPlaces
\* What was left open is on top, and goes to the first thread that comes.
<1>4. ASSUME NEW t \in Threads, TakeIdle(t) PROVE WriteTransactionPlaced'
  <2>1. /\ begun' = begun /\ pc' = pc
        /\ \A u \in Threads : conn'[u] = IF u = t THEN Head(idle) ELSE conn[u]
        /\ \A u \in Threads : stage'[u] = IF u = t THEN "begin" ELSE stage[u]
    BY <1>0, <1>4 DEF TakeIdle, Go, lockVars, vars, StoreVariablesTyped
  <2>2. conn[t] = NoConnection
    BY <1>0, <1>4 DEF TakeIdle, StagesMatch, Holding
  <2> QED
    BY <1>0, <2>1, <2>2, StoreAssumption DEF WriteTransactionPlaced
<1>5. ASSUME NEW t \in Threads, Reserve(t) \/ OpenFails(t) PROVE WriteTransactionPlaced'
  <2>1. begun' = begun /\ pc' = pc /\ idle' = idle
    BY <1>5 DEF Reserve, OpenFails, lockVars, vars
  <2>2. \A u \in Threads \ {t} : conn'[u] = conn[u] /\ stage'[u] = stage[u]
    BY <1>0, <1>5 DEF Reserve, OpenFails, Go, StoreVariablesTyped
  <2>3. CASE Reserve(t)
    <3>1. stage[t] = "empty" /\ conn[t] = NoConnection
      BY <1>0, <2>3 DEF Reserve, StagesMatch, Holding
    <3> QED
      BY <1>0, <2>1, <2>2, <3>1, StoreAssumption DEF WriteTransactionPlaced
  <2>4. CASE OpenFails(t)
    <3>1. /\ stage[t] = "opening" /\ conn[t] # NoConnection /\ conn'[t] = NoConnection
          /\ conn[t] \in Connections
      BY <1>0, <2>4, StoreAssumption DEF OpenFails, StagesMatch, Holding, StoreVariablesTyped
    <3>2. begun[conn[t]] # "write"
      BY <1>0, <3>1 DEF WriteTransactionPlaced, ConnectionsApart
    <3> QED
      BY <1>0, <2>1, <2>2, <3>1, <3>2, StoreAssumption DEF WriteTransactionPlaced
  <2> QED
    BY <1>5, <2>3, <2>4
\* A reader gives back no open write transaction; a writer is alone.
<1>6. ASSUME NEW t \in Threads, Release(t) PROVE WriteTransactionPlaced'
  <2>1. /\ begun' = begun /\ pc' = pc /\ idle' = <<conn[t]>> \o idle
        /\ \A u \in Threads : conn'[u] = IF u = t THEN NoConnection ELSE conn[u]
        /\ \A u \in Threads \ {t} : stage'[u] = stage[u]
        /\ stage[t] = "release" /\ conn[t] \in Connections
    BY <1>0, <1>6 DEF Release, Go, lockVars, vars, StoreVariablesTyped, Holding
  <2>2. idle' # <<>> /\ Head(idle') = conn[t]
    BY <1>0, <2>1 DEF StoreVariablesTyped
  <2>3. CASE pc[t] = "writing"
    <3>1. \A u \in Threads : conn'[u] = NoConnection /\ stage'[u] # "empty"
      <4>1. stage'[t] = "leave"
        BY <1>0, <1>6 DEF Release, Go, StoreVariablesTyped
      <4> QED
        BY <2>1, <2>3, <4>1, WriterAlone
    <3>2. ASSUME NEW c \in Connections, begun[c] = "write" PROVE c = conn[t]
      <4>1. \A u \in Threads : conn[u] = c => u = t
        BY <2>3, WriterAlone, StoreAssumption
      <4>2. conn[t] # NoConnection
        BY <2>1, StoreAssumption
      <4> QED
        BY <1>0, <3>2, <4>1, <4>2 DEF WriteTransactionPlaced
    <3> QED
      BY <2>1, <2>2, <3>1, <3>2 DEF WriteTransactionPlaced
  <2>4. CASE pc[t] # "writing"
    <3>1. begun[conn[t]] # "write"
      BY <1>0, <2>1, <2>4, StoreAssumption DEF WriteTransactionPlaced, ConnectionsApart
    <3>2. conn[t] # NoConnection
      BY <2>1, StoreAssumption
    <3>3. ASSUME NEW c \in Connections, begun[c] = "write"
          PROVE  \E u \in Threads \ {t} :
                   conn[u] = c /\ ((pc[u] = "writing" /\ stage[u] # "opening") \/ stage[u] = "begin")
      <4>1. c # conn[t]
        BY <3>1, <3>3
      <4> QED
        BY <1>0, <3>2, <3>3, <4>1 DEF WriteTransactionPlaced
    <3> QED
      BY <2>1, <3>3 DEF WriteTransactionPlaced
  <2> QED
    BY <2>3, <2>4
\* A transaction begins, or what was open is rolled back.
<1>7. ASSUME NEW t \in Threads, Begin(t) PROVE WriteTransactionPlaced'
  <2>1. /\ pc' = pc /\ conn' = conn /\ idle' = idle
        /\ stage[t] = "begin" /\ conn[t] \in Connections
        /\ begun[conn[t]] = "none"
        /\ \A c \in Connections : begun'[c] = IF c = conn[t] THEN Mode(t) ELSE begun[c]
        /\ \A u \in Threads : stage'[u] = IF u = t THEN "body" ELSE stage[u]
    BY <1>0, <1>7 DEF Begin, Go, lockVars, vars, poolVars, StoreVariablesTyped, Holding
  <2>2. Mode(t) = "write" => pc[t] = "writing"
    BY DEF Mode
  <2> QED
    BY <1>0, <2>1, <2>2, StoreAssumption DEF WriteTransactionPlaced
<1>8. ASSUME NEW t \in Threads, BeginFails(t) \/ BodyFails(t) \/ EndRead(t) \/ FlushFails(t)
                                \/ Commit(t)
      PROVE  WriteTransactionPlaced'
  <2>1. /\ pc' = pc /\ conn' = conn /\ idle' = idle
        /\ stage[t] \in Holding
        /\ begun' = [begun EXCEPT ![conn[t]] = "none"]
        /\ \A u \in Threads : stage'[u] = IF u = t THEN "release" ELSE stage[u]
    BY <1>0, <1>8 DEF BeginFails, BodyFails, EndRead, FlushFails, Commit, RolledBack, Go,
      lockVars, vars, poolVars, StoreVariablesTyped, Holding
  <2>2. \A c \in Connections : begun'[c] = IF c = conn[t] THEN "none" ELSE begun[c]
    BY <1>0, <2>1 DEF StoreVariablesTyped
  <2> QED
    BY <1>0, <2>1, <2>2, StoreAssumption DEF WriteTransactionPlaced
\* The thread goes on with what it has.
<1>9. ASSUME NEW t \in Threads, Wait(t) \/ Open(t) \/ EndWrite(t) \/ CommitFails(t)
      PROVE  WriteTransactionPlaced'
  <2>1. /\ pc' = pc /\ conn' = conn /\ idle' = idle /\ begun' = begun
        /\ stage[t] # "begin" /\ stage'[t] \notin {"opening", "empty"}
        /\ \A u \in Threads \ {t} : stage'[u] = stage[u]
    BY <1>0, <1>9 DEF Wait, Open, EndWrite, CommitFails, Go, lockVars, vars, poolVars,
      StoreVariablesTyped
  <2> QED
    BY <1>0, <2>1 DEF WriteTransactionPlaced
<1>10. ASSUME NEW t \in Threads, FlushInBody(t) \/ Record(t) PROVE WriteTransactionPlaced'
  BY <1>1, <1>10 DEF FlushInBody, Record, lockVars, vars, poolVars
\* Who finds the pool empty finds no connection on top.
<1>11. ASSUME NEW t \in Threads, FindNone(t) PROVE WriteTransactionPlaced'
  <2>1. /\ pc' = pc /\ conn' = conn /\ idle' = idle /\ begun' = begun
        /\ idle = <<>> /\ stage[t] = "acquire" /\ stage'[t] = "empty"
        /\ \A u \in Threads \ {t} : stage'[u] = stage[u]
    BY <1>0, <1>11 DEF FindNone, Go, lockVars, vars, poolVars, StoreVariablesTyped
  <2> QED
    BY <1>0, <2>1 DEF WriteTransactionPlaced
<1>12. CASE UNCHANGED storeVars
  BY <1>1, <1>12 DEF storeVars, lockVars, vars, poolVars
<1> QED
  BY <1>2, <1>3, <1>4, <1>5, <1>6, <1>7, <1>8, <1>9, <1>10, <1>11, <1>12 DEF StoreNext, Proceed

LEMMA StepKeepsSomeConnectionOpen ==
  ASSUME StoreInv, [StoreNext]_storeVars
  PROVE  SomeConnectionOpen'
<1>0. StoreVariablesTyped /\ SomeConnectionOpen
  BY DEF StoreInv
<1>1. ASSUME NEW t \in Threads, Release(t) PROVE SomeConnectionOpen'
  <2>1. conn[t] \in Connections
    BY <1>1, StoreAssumption
      DEF Release, StoreInv, StagesMatch, Holding, StoreVariablesTyped
  <2>2. idle' # <<>>
    BY <1>0, <1>1, <2>1 DEF Release, StoreVariablesTyped
  <2> QED
    BY <2>2 DEF SomeConnectionOpen
<1>2. ASSUME NEW t \in Threads,
             TakeIdle(t) \/ Open(t) \/ Begin(t) \/ BeginFails(t) \/ BodyFails(t) \/ EndRead(t)
             \/ EndWrite(t) \/ Commit(t) \/ FlushFails(t) \/ CommitFails(t)
      PROVE  SomeConnectionOpen'
  <2>1. stage'[t] \in {"begin", "body", "flushed", "release"}
    BY <1>0, <1>2 DEF TakeIdle, Open, Begin, BeginFails, BodyFails, EndRead, EndWrite, Commit,
      FlushFails, CommitFails, Go, StoreVariablesTyped
  <2> QED
    BY <2>1 DEF SomeConnectionOpen
<1>3. ASSUME NEW t \in Threads,
             LockStep(t) \/ Leave(t) \/ FindNone(t) \/ Reserve(t) \/ Wait(t) \/ OpenFails(t)
      PROVE  SomeConnectionOpen'
  <2>1. idle' = idle /\ stage[t] \notin {"begin", "body", "flushed", "release"}
    BY <1>3 DEF LockStep, Leave, FindNone, Reserve, Wait, OpenFails, poolVars
  <2>2. \A u \in Threads \ {t} : stage'[u] = stage[u]
    BY <1>0, <1>3 DEF LockStep, Leave, FindNone, Reserve, Wait, OpenFails, Go, StoreVariablesTyped
  <2> QED
    BY <1>0, <2>1, <2>2 DEF SomeConnectionOpen
<1>4. ASSUME NEW t \in Threads, FlushInBody(t) \/ Record(t) PROVE SomeConnectionOpen'
  BY <1>0, <1>4 DEF FlushInBody, Record, poolVars, SomeConnectionOpen
<1>5. CASE UNCHANGED storeVars
  BY <1>0, <1>5 DEF storeVars, poolVars, SomeConnectionOpen
<1> QED
  BY <1>1, <1>2, <1>3, <1>4, <1>5 DEF StoreNext, Proceed

LEMMA StepKeepsStoreInv == StoreInv /\ [StoreNext]_storeVars => StoreInv'
<1> SUFFICES ASSUME StoreInv, [StoreNext]_storeVars PROVE StoreInv'
  OBVIOUS
<1>1. IInv'
  BY StoreStepIsLockStep, NextKeepsIInv DEF StoreInv
<1> QED
  BY <1>1, StepKeepsTypes, StepKeepsStages, StepKeepsConnectionsApart,
    StepKeepsWriteTransactionPlaced, StepKeepsSomeConnectionOpen DEF StoreInv

LEMMA StoreSpecInv == StoreSpec => []StoreInv
BY StoreInitInv, StepKeepsStoreInv, PTL DEF StoreSpec

(***************************************************************************)
(* The theorems.                                                           *)
(***************************************************************************)
\* The variables of the lock, the pool, the transactions and the buffers of
\* deferred accesses keep their types.
THEOREM StoreTypesKept == StoreSpec => []StoreTypeOK
<1>1. StoreInv => StoreTypeOK
  BY DEF StoreInv, IInv, StoreVariablesTyped, StoreTypeOK
<1> QED
  BY <1>1, StoreSpecInv, PTL

\* BEGIN IMMEDIATE never meets a write transaction that this process has left
\* open on another connection (MetadataStore._transaction, ConnectionPool).
THEOREM StoreOneWriterInSQLite == StoreSpec => []OneWriterInSQLite
<1>1. ASSUME StoreInv PROVE OneWriterInSQLite
  <2> SUFFICES ASSUME NEW t \in Threads, stage[t] = "begin", Mode(t) = "write",
                      NEW d \in Connections \ {conn[t]}, begun[d] = "write"
               PROVE  FALSE
    BY DEF OneWriterInSQLite, WriterBeside
  <2>1. pc[t] = "writing"
    BY DEF Mode
  <2>2. conn[t] # NoConnection /\ d # NoConnection
    BY <1>1, StoreAssumption DEF StoreInv, StagesMatch, Holding
  <2>3. \A u \in Threads : conn[u] # d
    BY <1>1, <2>1, <2>2, WriterAlone
  <2> QED
    BY <1>1, <2>2, <2>3 DEF StoreInv, WriteTransactionPlaced
<1> QED
  BY <1>1, StoreSpecInv, PTL

\* A thread that waits for a connection waits for one that will be given back:
\* that of setup() is never lost (ConnectionPool.acquire).
THEOREM StoreWaitersAreServed == StoreSpec => []WaitersAreServed
<1>1. StoreInv => WaitersAreServed
  BY DEF StoreInv, SomeConnectionOpen, WaitersAreServed
<1> QED
  BY <1>1, StoreSpecInv, PTL

(***************************************************************************)
(* The accesses.  The sum over the connections is a fold over a finite set, *)
(* whose recursion is followed by induction on the size of the subsets.     *)
(***************************************************************************)
\* A set that has 0 and every successor of a member has every number.  (The
\* intervals 0 .. n of numbers outside the set would have no smallest one.)
LEMMA SetOfNumbers ==
  ASSUME NEW A, 0 \in A, \A n \in Nat : n \in A => n + 1 \in A
  PROVE  \A n \in Nat : n \in A
<1> SUFFICES ASSUME NEW m \in Nat, m \notin A PROVE FALSE
  OBVIOUS
<1> DEFINE T == {0 .. n : n \in Nat \ A}
           R == StrictSubsetOrdering(Nat)
<1>1. \A n \in Nat : 0 .. n \in FiniteSubsetsOf(Nat)
  <2> SUFFICES ASSUME NEW n \in Nat PROVE 0 .. n \in FiniteSubsetsOf(Nat)
    OBVIOUS
  <2>1. IsFiniteSet(0 .. n)
    BY FS_Interval
  <2> QED
    BY <2>1 DEF FiniteSubsetsOf
<1>2. T \subseteq FiniteSubsetsOf(Nat) /\ T # {}
  BY <1>1
<1>3. IsWellFoundedOn(R, FiniteSubsetsOf(Nat))
  BY FS_StrictSubsetOrderingWellFounded
<1>4. PICK x \in T : \A y \in T : ~ (<<y, x>> \in R)
  <2> HIDE DEF T, R
  <2> QED
    BY <1>2, <1>3, WFMin
<1>5. PICK n \in Nat \ A : x = 0 .. n
  BY <1>4
<1>6. n # 0 /\ n - 1 \in Nat
  BY <1>5
<1>7. n - 1 \notin A
  BY <1>5, <1>6
<1>8. 0 .. n - 1 \in T
  BY <1>6, <1>7
<1>9. /\ 0 .. n - 1 \in SUBSET Nat /\ 0 .. n \in SUBSET Nat
      /\ 0 .. n - 1 \subseteq 0 .. n /\ 0 .. n - 1 # 0 .. n
  BY <1>6
<1>10. <<0 .. n - 1, x>> \in R
  BY <1>5, <1>9 DEF StrictSubsetOrdering
<1> QED
  BY <1>4, <1>8, <1>10

\* The element that the fold takes first.
Chosen(S) == CHOOSE c \in S : TRUE

SumOf(f) == FoldSet(LAMBDA c, sum : f[c] + sum, 0, Connections)

\* What the recursion of the fold adds up for the subsets of Connections.
Sums(f, sums) ==
  [S \in SUBSET Connections |->
     IF S = {} THEN 0 ELSE f[Chosen(S)] + sums[S \ {Chosen(S)}]]

LEMMA ChosenFromSubset ==
  ASSUME NEW S \in SUBSET Connections, S # {}
  PROVE  /\ Chosen(S) \in S /\ S \ {Chosen(S)} \in SUBSET Connections
         /\ IsFiniteSet(S) /\ Cardinality(S) \in Nat
         /\ Cardinality(S \ {Chosen(S)}) = Cardinality(S) - 1
<1>1. Chosen(S) \in S
  BY DEF Chosen
<1>2. IsFiniteSet(S)
  BY StoreAssumption, FS_Subset
<1> QED
  BY <1>1, <1>2, FS_RemoveElement, FS_CardinalityType

LEMMA SumUnfolds ==
  ASSUME NEW f
  PROVE  \E sums : sums = Sums(f, sums) /\ SumOf(f) = sums[Connections]
<1> DEFINE Adds(g, n) ==
             \A S \in SUBSET Connections : Cardinality(S) <= n =>
               g[S] = IF S = {} THEN 0 ELSE f[Chosen(S)] + g[S \ {Chosen(S)}]
           A == {n \in Nat : \E g : Adds(g, n)}
<1>0. IsFiniteSet(Connections) /\ Cardinality(Connections) \in Nat
  BY StoreAssumption, FS_CardinalityType
<1>1. 0 \in A
  <2> DEFINE g == [S \in SUBSET Connections |-> 0]
  <2>1. ASSUME NEW S \in SUBSET Connections, Cardinality(S) <= 0
        PROVE  g[S] = IF S = {} THEN 0 ELSE f[Chosen(S)] + g[S \ {Chosen(S)}]
    <3>1. S = {}
      BY <2>1, ChosenFromSubset, FS_CardinalityType, FS_EmptySet, <1>0, FS_Subset
    <3> QED
      BY <3>1
  <2>2. Adds(g, 0)
    <3> HIDE DEF g
    <3> QED
      BY <2>1
  <2> HIDE DEF g, Adds
  <2> QED
    BY <2>2
<1>2. ASSUME NEW n \in Nat, n \in A PROVE n + 1 \in A
  <2>1. PICK g : Adds(g, n)
    BY <1>2
  <2> DEFINE h == [S \in SUBSET Connections |->
                     IF Cardinality(S) <= n THEN g[S]
                     ELSE f[Chosen(S)] + g[S \ {Chosen(S)}]]
  <2>2. ASSUME NEW S \in SUBSET Connections, Cardinality(S) <= n + 1
        PROVE  h[S] = IF S = {} THEN 0 ELSE f[Chosen(S)] + h[S \ {Chosen(S)}]
    <3>1. CASE S = {}
      <4>1. Cardinality(S) <= n
        BY <3>1, FS_EmptySet
      <4>2. h[S] = g[S]
        BY <4>1
      <4> HIDE DEF h
      <4> QED
        BY <2>1, <3>1, <4>1, <4>2
    <3>2. CASE S # {}
      <4> DEFINE R == S \ {Chosen(S)}
      <4>1. R \in SUBSET Connections /\ Cardinality(R) <= n
        <5>1. R \in SUBSET Connections /\ Cardinality(R) = Cardinality(S) - 1
              /\ Cardinality(S) \in Nat
          BY <3>2, ChosenFromSubset
        <5> HIDE DEF R
        <5> QED
          BY <2>2, <5>1
      <4>2. h[R] = g[R]
        <5> HIDE DEF R
        <5> QED
          BY <4>1
      <4>3. CASE Cardinality(S) <= n
        <5>1. h[S] = g[S]
          BY <4>3
        <5>2. g[S] = f[Chosen(S)] + g[R]
          BY <2>1, <3>2, <4>3
        <5> HIDE DEF h
        <5> QED
          BY <3>2, <4>2, <5>1, <5>2
      <4>4. CASE ~ (Cardinality(S) <= n)
        <5>1. h[S] = f[Chosen(S)] + g[R]
          BY <4>4
        <5> HIDE DEF h
        <5> QED
          BY <3>2, <4>2, <5>1
      <4> QED
        BY <4>3, <4>4
    <3> QED
      BY <3>1, <3>2
  <2>3. Adds(h, n + 1)
    <3> HIDE DEF h
    <3> QED
      BY <2>2
  <2> HIDE DEF h, Adds
  <2> QED
    BY <2>3
<1>3. PICK g : Adds(g, Cardinality(Connections))
  <2>1. \A n \in Nat : n \in A
    <3> HIDE DEF A
    <3> QED
      BY <1>1, <1>2, SetOfNumbers
  <2> HIDE DEF Adds
  <2> QED
    BY <1>0, <2>1
<1> DEFINE s == [S \in SUBSET Connections |-> g[S]]
<1>4. s = Sums(f, s)
  <2>1. ASSUME NEW S \in SUBSET Connections
        PROVE  s[S] = IF S = {} THEN 0 ELSE f[Chosen(S)] + s[S \ {Chosen(S)}]
    <3>1. Cardinality(S) <= Cardinality(Connections)
      BY <1>0, FS_Subset
    <3>2. g[S] = IF S = {} THEN 0 ELSE f[Chosen(S)] + g[S \ {Chosen(S)}]
      BY <1>3, <3>1
    <3>3. s[S] = g[S] /\ s[S \ {Chosen(S)}] = g[S \ {Chosen(S)}]
      OBVIOUS
    <3> HIDE DEF s
    <3> QED
      BY <3>2, <3>3
  <2>2. s = [S \in SUBSET Connections |-> s[S]]
    OBVIOUS
  <2> HIDE DEF s
  <2> QED
    BY <2>1, <2>2 DEF Sums
<1> HIDE DEF s
<1> DEFINE Solves(sums) == sums = Sums(f, sums)
           r == CHOOSE sums : Solves(sums)
<1>5. Solves(r)
  <2>1. Solves(s)
    BY <1>4
  <2> HIDE DEF Solves
  <2> QED
    BY <2>1
<1>6. SumOf(f) = r[Connections]
  BY DEF SumOf, FoldSet, MapThenFoldSet, Sums, Chosen
<1> HIDE DEF r
<1> QED
  BY <1>5, <1>6


\* What a change of one of the numbers adds to a sum.
Difference(f, c, v, S) == IF c \in S THEN v - f[c] ELSE 0

LEMMA SumChanges ==
  ASSUME NEW f \in [Connections -> Nat], NEW c \in Connections, NEW v \in Nat
  PROVE  /\ SumOf(f) \in Nat
         /\ SumOf([f EXCEPT ![c] = v]) = SumOf(f) + (v - f[c])
<1> DEFINE h == [f EXCEPT ![c] = v]
<1>1. PICK sf : sf = Sums(f, sf) /\ SumOf(f) = sf[Connections]
  BY SumUnfolds
<1>2. PICK sh : sh = Sums(h, sh) /\ SumOf(h) = sh[Connections]
  BY SumUnfolds
<1>3. ASSUME NEW S \in SUBSET Connections
      PROVE  /\ sf[S] = IF S = {} THEN 0 ELSE f[Chosen(S)] + sf[S \ {Chosen(S)}]
             /\ sh[S] = IF S = {} THEN 0 ELSE h[Chosen(S)] + sh[S \ {Chosen(S)}]
  <2>1. Sums(f, sf)[S] = IF S = {} THEN 0 ELSE f[Chosen(S)] + sf[S \ {Chosen(S)}]
    BY DEF Sums
  <2>2. Sums(h, sh)[S] = IF S = {} THEN 0 ELSE h[Chosen(S)] + sh[S \ {Chosen(S)}]
    BY DEF Sums
  <2> HIDE DEF h
  <2> QED
    BY <1>1, <1>2, <2>1, <2>2
<1> DEFINE Right(S) == sf[S] \in Nat /\ sh[S] = sf[S] + Difference(f, c, v, S)
           A == {n \in Nat : \A S \in SUBSET Connections :
                   Cardinality(S) <= n => Right(S)}
<1>4. \A S \in SUBSET Connections : IsFiniteSet(S) /\ Cardinality(S) \in Nat
  BY StoreAssumption, FS_Subset, FS_CardinalityType
<1>5. ASSUME NEW S \in SUBSET Connections, S = {} PROVE Right(S)
  BY <1>3, <1>5 DEF Difference
<1>6. 0 \in A
  <2>1. ASSUME NEW S \in SUBSET Connections, Cardinality(S) <= 0 PROVE S = {}
    BY <1>4, <2>1, FS_EmptySet
  <2> HIDE DEF Right
  <2> QED
    BY <1>5, <2>1
<1>7. ASSUME NEW n \in Nat, n \in A PROVE n + 1 \in A
  <2>1. ASSUME NEW S \in SUBSET Connections, Cardinality(S) <= n + 1, S # {}
        PROVE  Right(S)
    <3> DEFINE e == Chosen(S)
               R == S \ {e}
    <3>1. e \in S /\ R \in SUBSET Connections /\ Cardinality(R) = Cardinality(S) - 1
          /\ Cardinality(S) \in Nat
      BY <2>1, ChosenFromSubset
    <3>2. Right(R)
      <4> HIDE DEF R, Right, e
      <4> QED
        BY <1>7, <2>1, <3>1
    <3>3. sf[S] = f[e] + sf[R] /\ sh[S] = h[e] + sh[R]
      BY <1>3, <2>1
    <3>4. h[e] = (IF e = c THEN v ELSE f[e]) /\ f[e] \in Nat /\ f[c] \in Nat
      BY <3>1
    <3>5. (c \in S <=> c = e \/ c \in R) /\ ~ (c = e /\ c \in R)
      BY <3>1
    <3> HIDE DEF e, R, h
    <3>6. sh[S] = sf[S] + Difference(f, c, v, S) /\ sf[S] \in Nat
      <4>1. CASE e = c
        BY <4>1, <3>2, <3>3, <3>4, <3>5 DEF Difference
      <4>2. CASE e # c
        <5>1. Difference(f, c, v, S) = Difference(f, c, v, R)
              /\ Difference(f, c, v, S) \in Int
          BY <4>2, <3>4, <3>5 DEF Difference
        <5> QED
          BY <4>2, <3>2, <3>3, <3>4, <5>1
      <4> QED
        BY <4>1, <4>2
    <3> QED
      BY <3>6
  <2> HIDE DEF Right
  <2> QED
    BY <1>5, <2>1
<1>8. Right(Connections)
  <2>1. \A n \in Nat : n \in A
    <3> HIDE DEF A
    <3> QED
      BY <1>6, <1>7, SetOfNumbers
  <2> HIDE DEF Right
  <2> QED
    BY <1>4, <2>1
<1> QED
  BY <1>1, <1>2, <1>8 DEF Difference

\* What an open transaction has written, it has written as a writer; and the
\* transaction of a thread in its body is the one its hold on the lock allows.
AccessesInWrites ==
  /\ \A c \in Connections : inFlight[c] > 0 => begun[c] = "write"
  /\ \A t \in Threads : stage[t] \in {"body", "flushed"} => begun[conn[t]] = Mode(t)

\* A step of a transaction is a step on one connection, its own.
Own(t, c) ==
  /\ c = conn[t] /\ c \in Connections
  /\ \A u \in Threads : stage[u] \in Holding /\ conn[u] = c => u = t

LEMMA ConnectionOwn ==
  ASSUME StoreInv, NEW t \in Threads, stage[t] \in Holding
  PROVE  Own(t, conn[t])
BY DEF StoreInv, StagesMatch, ConnectionsApart, StoreVariablesTyped, Own

LEMMA LockKeepsAccesses ==
  ASSUME StoreInv, AccessesInWrites, NEW t \in Threads, LockStep(t) \/ Leave(t)
  PROVE  AccessesInWrites'
<1>1. /\ stage \in [Threads -> Stages] /\ StagesMatch
      /\ UNCHANGED <<begun, inFlight, conn>>
  BY DEF StoreInv, StoreVariablesTyped, LockStep, Leave, poolVars, accessVars
<1>2. stage'[t] \notin {"body", "flushed"}
  BY <1>1 DEF LockStep, Leave, Go, Stages
<1>3. ASSUME NEW u \in Threads, u # t
      PROVE  /\ stage'[u] = stage[u]
             /\ stage[u] \in {"body", "flushed"} => Mode(u)' = Mode(u)
  <2>1. stage'[u] = stage[u]
    BY <1>1, <1>3 DEF LockStep, Leave, Go
  <2>2. stage[u] \in {"body", "flushed"} => pc[u] \in {"reading", "writing"}
    BY <1>1 DEF StagesMatch
  <2>3. pc'[u] \in {"reading", "writing"} <=> pc[u] \in {"reading", "writing"}
    BY <1>3, LockKeepsOthers
  <2>4. pc[u] = "writing" => pc'[u] = "writing"
    BY <1>3, LockKeepsOthers
  <2>5. CASE stage[u] \in {"body", "flushed"} /\ pc[u] = "reading"
    <3>1. pc'[u] # "writing"
      <4>1. pc \in [Threads -> PcValues]
        BY DEF StoreInv, IInv, TypeOK
      <4> QED
        BY <1>3, <2>5, <4>1
        DEF LockStep, Leave, AcquireRead, StartWrite, RetryWrite, ReleaseRead, ReleaseWrite,
          LeaveAndNotify, Woken, MoveTo, PcValues
    <3> QED
      BY <2>1, <2>5, <3>1 DEF Mode
  <2> QED
    BY <2>1, <2>2, <2>4, <2>5 DEF Mode
<1> QED
  BY <1>1, <1>2, <1>3 DEF AccessesInWrites

LEMMA StepKeepsAccesses ==
  ASSUME StoreInv, AccessesInWrites, [StoreNext]_storeVars
  PROVE  AccessesInWrites'
<1>0. /\ stage \in [Threads -> Stages] /\ conn \in [Threads -> Connections \cup {NoConnection}]
      /\ begun \in [Connections -> {"none", "read", "write"}]
      /\ inFlight \in [Connections -> Nat] /\ deferred \in Nat
  BY DEF StoreInv, StoreVariablesTyped
<1>1. CASE UNCHANGED storeVars
  BY <1>1 DEF storeVars, poolVars, accessVars, lockVars, vars, AccessesInWrites, Mode
<1>2. ASSUME NEW t \in Threads, LockStep(t) \/ Leave(t) PROVE AccessesInWrites'
  BY <1>2, LockKeepsAccesses
<1>3. ASSUME NEW t \in Threads,
             TakeIdle(t) \/ FindNone(t) \/ Reserve(t) \/ Wait(t) \/ Open(t) \/ OpenFails(t)
             \/ Release(t) \/ Record(t) \/ CommitFails(t)
      PROVE  AccessesInWrites'
  <2>1. UNCHANGED <<begun, inFlight, pc>>
    BY <1>3 DEF TakeIdle, FindNone, Reserve, Wait, Open, OpenFails, Release, Record, CommitFails,
      accessVars, lockVars, vars
  <2>2. ASSUME NEW u \in Threads, stage'[u] \in {"body", "flushed"}
        PROVE  stage[u] = stage'[u] /\ conn'[u] = conn[u]
    BY <1>0, <1>3, <2>2 DEF TakeIdle, FindNone, Reserve, Wait, Open, OpenFails, Release, Record,
      CommitFails, Go, poolVars
  <2> QED
    BY <2>1, <2>2 DEF AccessesInWrites, Mode
<1>4. ASSUME NEW t \in Threads, UNCHANGED <<pc, conn>>, stage[t] \in Holding,
             \A c \in Connections : c # conn[t] =>
               begun'[c] = begun[c] /\ inFlight'[c] = inFlight[c],
             \A u \in Threads : u # t => stage'[u] = stage[u],
             inFlight'[conn[t]] > 0 => begun'[conn[t]] = "write",
             stage'[t] \in {"body", "flushed"} => begun'[conn[t]] = Mode(t)
      PROVE  AccessesInWrites'
  <2>1. Own(t, conn[t])
    BY <1>4, ConnectionOwn
  <2>2. ASSUME NEW u \in Threads, stage'[u] \in {"body", "flushed"}
        PROVE  begun'[conn'[u]] = Mode(u)'
    <3>1. CASE u = t
      BY <1>4, <2>2, <3>1 DEF Mode
    <3>2. CASE u # t
      <4>1. stage[u] \in {"body", "flushed"}
        BY <1>4, <2>2, <3>2
      <4>2. Own(u, conn[u])
        BY <4>1, ConnectionOwn DEF Holding
      <4>3. conn[u] # conn[t]
        BY <1>4, <3>2, <4>2 DEF Own
      <4> QED
        BY <1>4, <4>1, <4>2, <4>3 DEF Own, Mode, AccessesInWrites
    <3> QED
      BY <3>1, <3>2
  <2> QED
    BY <1>4, <2>2 DEF AccessesInWrites
<1>5. ASSUME NEW t \in Threads, stage[t] \in Holding PROVE conn[t] \in Connections
  BY <1>5, ConnectionOwn DEF Own
<1>6. ASSUME NEW t \in Threads,
             BeginFails(t) \/ BodyFails(t) \/ FlushFails(t)
      PROVE  AccessesInWrites'
  <2>1. RolledBack(conn[t]) /\ stage[t] \in Holding /\ UNCHANGED <<pc, conn>>
        /\ stage' = [stage EXCEPT ![t] = "release"]
    BY <1>6 DEF BeginFails, BodyFails, FlushFails, Go, Holding, lockVars, vars, poolVars
  <2> QED
    BY <1>0, <1>4, <1>5, <2>1 DEF RolledBack, Stages
<1>7. ASSUME NEW t \in Threads, Begin(t) PROVE AccessesInWrites'
  <2>1. /\ stage[t] \in Holding /\ UNCHANGED <<pc, conn, inFlight>>
        /\ stage' = [stage EXCEPT ![t] = "body"]
        /\ begun' = [begun EXCEPT ![conn[t]] = Mode(t)]
        /\ begun[conn[t]] = "none"
    BY <1>7 DEF Begin, Go, Holding, lockVars, vars, poolVars, accessVars
  <2>2. inFlight[conn[t]] = 0
    BY <1>0, <1>5, <2>1 DEF AccessesInWrites
  <2> QED
    BY <1>0, <1>4, <1>5, <2>1, <2>2
<1>8. ASSUME NEW t \in Threads, EndRead(t) PROVE AccessesInWrites'
  <2>1. /\ stage[t] \in Holding /\ UNCHANGED <<pc, conn, inFlight>>
        /\ stage' = [stage EXCEPT ![t] = "release"]
        /\ begun' = [begun EXCEPT ![conn[t]] = "none"]
        /\ begun[conn[t]] = "read"
    BY <1>8 DEF EndRead, Go, Holding, lockVars, vars, poolVars, accessVars, AccessesInWrites
  <2>2. inFlight[conn[t]] = 0
    BY <1>0, <1>5, <2>1 DEF AccessesInWrites
  <2> QED
    BY <1>0, <1>4, <1>5, <2>1, <2>2
<1>9. ASSUME NEW t \in Threads, EndWrite(t) \/ FlushInBody(t) PROVE AccessesInWrites'
  <2>1. /\ stage[t] \in Holding /\ UNCHANGED <<pc, conn, begun>>
        /\ \A u \in Threads : u # t => stage'[u] = stage[u]
        /\ inFlight' = [inFlight EXCEPT ![conn[t]] = @ + deferred]
        /\ begun[conn[t]] = "write" /\ Mode(t) = "write"
    BY <1>0, <1>9
    DEF EndWrite, FlushInBody, Flush, Go, Holding, lockVars, vars, poolVars, AccessesInWrites
  <2> QED
    BY <1>0, <1>4, <1>5, <2>1
<1>10. ASSUME NEW t \in Threads, Commit(t) PROVE AccessesInWrites'
  <2>1. /\ stage[t] \in Holding /\ UNCHANGED <<pc, conn>>
        /\ stage' = [stage EXCEPT ![t] = "release"]
        /\ begun' = [begun EXCEPT ![conn[t]] = "none"]
        /\ inFlight' = [inFlight EXCEPT ![conn[t]] = 0]
    BY <1>10 DEF Commit, Go, Holding, lockVars, vars, poolVars
  <2> QED
    BY <1>0, <1>4, <1>5, <2>1
<1> QED
  BY <1>1, <1>2, <1>3, <1>6, <1>7, <1>8, <1>9, <1>10 DEF StoreNext, Proceed

LEMMA StoreSpecAccesses == StoreSpec => [](StoreInv /\ AccessesInWrites)
<1>1. StoreInit => AccessesInWrites
  BY DEF StoreInit, AccessesInWrites
<1>2. StoreInv /\ AccessesInWrites /\ [StoreNext]_storeVars => AccessesInWrites'
  BY StepKeepsAccesses
<1> QED
  BY <1>1, <1>2, StoreSpecInv, PTL DEF StoreSpec

LEMMA CountedIs ==
  ASSUME StoreInv
  PROVE  Counted = deferred + committed + SumOf(inFlight) /\ SumOf(inFlight) \in Nat
<1>1. inFlight \in [Connections -> Nat]
  BY DEF StoreInv, StoreVariablesTyped
<1>2. PICK c \in Connections : TRUE
  BY StoreAssumption
<1>3. SumOf(inFlight) \in Nat
  BY <1>1, <1>2, SumChanges
<1> QED
  BY <1>3 DEF Counted, SumOf

\* Counted, by the sum whose recursion is followed above.
SumCorrect == Counted = deferred + committed + SumOf(inFlight)

LEMMA CountedSum == SumCorrect
BY DEF SumCorrect, Counted, SumOf

\* What one step does to the accesses.
Balanced == Counted' - Counted = recorded' - recorded

LostWith(c) ==
  /\ UNCHANGED <<recorded, committed>>
  /\ begun[c] = "write" /\ begun'[c] = "none"
  /\ inFlight[c] > 0
  /\ Counted' = Counted - inFlight[c]

LEMMA StepCountsAccesses ==
  ASSUME StoreInv, AccessesInWrites, SumCorrect', [StoreNext]_storeVars
  PROVE  Balanced \/ \E c \in Connections : LostWith(c)
<1>0. /\ begun \in [Connections -> {"none", "read", "write"}]
      /\ inFlight \in [Connections -> Nat] /\ deferred \in Nat /\ committed \in Nat
      /\ recorded \in Nat
  BY DEF StoreInv, StoreVariablesTyped
<1>1. /\ Counted = deferred + committed + SumOf(inFlight)
      /\ SumOf(inFlight) \in Nat
  BY CountedIs
<1>2. Counted' = deferred' + committed' + SumOf(inFlight')
  BY DEF SumCorrect
<1>3. CASE UNCHANGED accessVars
  BY <1>0, <1>1, <1>2, <1>3 DEF accessVars, Balanced
<1>4. ASSUME NEW t \in Threads, stage[t] \in Holding PROVE conn[t] \in Connections
  BY <1>4, ConnectionOwn DEF Own
<1>5. ASSUME NEW t \in Threads, BeginFails(t) \/ BodyFails(t) \/ FlushFails(t)
      PROVE  Balanced \/ \E c \in Connections : LostWith(c)
  <2>1. RolledBack(conn[t]) /\ stage[t] \in Holding
    BY <1>5 DEF BeginFails, BodyFails, FlushFails, Holding
  <2>2. conn[t] \in Connections
    BY <1>4, <2>1
  <2>3. SumOf(inFlight') = SumOf(inFlight) + (0 - inFlight[conn[t]])
    BY <1>0, <2>1, <2>2, SumChanges DEF RolledBack
  <2>4. inFlight[conn[t]] \in Nat
    BY <1>0, <2>2
  <2>5. Counted' = Counted - inFlight[conn[t]] /\ UNCHANGED <<recorded, committed>>
    BY <1>0, <1>1, <1>2, <2>1, <2>3, <2>4 DEF RolledBack
  <2>6. CASE inFlight[conn[t]] = 0
    BY <1>0, <1>1, <2>5, <2>6 DEF Balanced
  <2>7. CASE inFlight[conn[t]] > 0
    <3>1. begun[conn[t]] = "write" /\ begun'[conn[t]] = "none"
      BY <1>0, <2>1, <2>2, <2>7 DEF AccessesInWrites, RolledBack
    <3> QED
      BY <2>2, <2>5, <2>7, <3>1 DEF LostWith
  <2> QED
    BY <2>4, <2>6, <2>7
<1>6. ASSUME NEW t \in Threads, EndWrite(t) \/ FlushInBody(t) PROVE Balanced
  <2>1. Flush(t) /\ conn[t] \in Connections
    BY <1>4, <1>6 DEF EndWrite, FlushInBody, Holding
  <2>2. inFlight[conn[t]] \in Nat /\ inFlight[conn[t]] + deferred \in Nat
    BY <1>0, <2>1
  <2>3. inFlight' = [inFlight EXCEPT ![conn[t]] = inFlight[conn[t]] + deferred]
    BY <2>1 DEF Flush
  <2>4. SumOf(inFlight')
        = SumOf(inFlight) + ((inFlight[conn[t]] + deferred) - inFlight[conn[t]])
    BY <1>0, <2>1, <2>2, <2>3, SumChanges
  <2> QED
    BY <1>0, <1>1, <1>2, <2>1, <2>2, <2>4 DEF Flush, Balanced
<1>7. ASSUME NEW t \in Threads, Commit(t) PROVE Balanced
  <2>1. conn[t] \in Connections
    BY <1>4, <1>7 DEF Commit, Holding
  <2>2. inFlight[conn[t]] \in Nat
    BY <1>0, <2>1
  <2>3. SumOf(inFlight') = SumOf(inFlight) + (0 - inFlight[conn[t]])
    BY <1>0, <1>7, <2>1, SumChanges DEF Commit
  <2> QED
    BY <1>0, <1>1, <1>2, <1>7, <2>2, <2>3 DEF Commit, Balanced
<1>8. ASSUME NEW t \in Threads, Record(t) PROVE Balanced
  BY <1>0, <1>1, <1>2, <1>8 DEF Record, Balanced
<1>9. ASSUME NEW t \in Threads,
             LockStep(t) \/ Leave(t) \/ TakeIdle(t) \/ FindNone(t) \/ Reserve(t) \/ Wait(t)
             \/ Open(t) \/ OpenFails(t) \/ Release(t) \/ CommitFails(t) \/ Begin(t) \/ EndRead(t)
      PROVE  UNCHANGED accessVars
  BY <1>9 DEF LockStep, Leave, TakeIdle, FindNone, Reserve, Wait, Open, OpenFails, Release,
    CommitFails, Begin, EndRead
<1> QED
  BY <1>3, <1>5, <1>6, <1>7, <1>8, <1>9 DEF StoreNext, Proceed, storeVars

\* metadata/access_stats.py: every access recorded is counted once, in the
\* buffers, in an open transaction or committed; it is lost only with the write
\* transaction that has taken it out of the buffers and is rolled back.
THEOREM StoreAccessesCounted == StoreSpec => AccessesCounted
<1>1. StoreInv /\ AccessesInWrites /\ SumCorrect' /\ [StoreNext]_storeVars
      => [\/ Counted' - Counted = recorded' - recorded
          \/ /\ UNCHANGED <<recorded, committed>>
             /\ \E c \in Connections :
                  /\ begun[c] = "write" /\ begun'[c] = "none"
                  /\ inFlight[c] > 0
                  /\ Counted' = Counted - inFlight[c]]_storeVars
  BY StepCountsAccesses DEF Balanced, LostWith
<1> QED
  BY <1>1, CountedSum, StoreSpecAccesses, PTL DEF StoreSpec, AccessesCounted

(***************************************************************************)
(* The hooks after a commit (AfterCommit), run by the threads whose        *)
(* transactions have committed, for any threads, digests, budget and       *)
(* watermarks.                                                             *)
(***************************************************************************)
\* What FlattenSeq joins up to each of its parts.
LEMMA FlattenSeqJoins ==
  ASSUME NEW m \in Nat \ {0}, NEW parts, Len(parts) = m
  PROVE  \E joined :
           /\ joined = [i \in 1 .. m |-> IF i = 1 THEN parts[i]
                                         ELSE joined[i - 1] \o parts[i]]
           /\ FlattenSeq(parts) = joined[m]
<1> DEFINE Joined(f, n) == [i \in 1 .. n |-> IF i = 1 THEN parts[i]
                                             ELSE f[i - 1] \o parts[i]]
           Joins(f, n) == f = Joined(f, n)
           A == {n \in Nat : \E f : Joins(f, n)}
<1>1. 0 \in A
  <2>1. Joins(<<>>, 0)
    OBVIOUS
  <2> QED
    BY <2>1
<1>2. ASSUME NEW n \in Nat, n \in A PROVE n + 1 \in A
  <2>1. PICK f : Joins(f, n)
    BY <1>2
  <2> DEFINE g == [i \in 1 .. n + 1 |->
                     IF i <= n THEN f[i]
                     ELSE IF i = 1 THEN parts[i] ELSE f[i - 1] \o parts[i]]
  <2>2. ASSUME NEW i \in 1 .. n + 1
        PROVE  g[i] = IF i = 1 THEN parts[i] ELSE g[i - 1] \o parts[i]
    <3>1. i # 1 => i - 1 \in 1 .. n + 1 /\ i - 1 <= n
      OBVIOUS
    <3>2. i # 1 => g[i - 1] = f[i - 1]
      BY <3>1
    <3>3. i <= n => f[i] = IF i = 1 THEN parts[i] ELSE f[i - 1] \o parts[i]
      <4>1. i <= n =>
              Joined(f, n)[i] = IF i = 1 THEN parts[i] ELSE f[i - 1] \o parts[i]
        OBVIOUS
      <4> HIDE DEF Joined
      <4> QED
        BY <2>1, <4>1
    <3>4. CASE i <= n
      <4>1. g[i] = f[i]
        BY <3>4
      <4> HIDE DEF g
      <4> QED
        BY <3>2, <3>3, <3>4, <4>1
    <3>5. CASE ~ (i <= n)
      <4>1. g[i] = IF i = 1 THEN parts[i] ELSE f[i - 1] \o parts[i]
        BY <3>5
      <4> HIDE DEF g
      <4> QED
        BY <3>2, <4>1
    <3> QED
      BY <3>4, <3>5
  <2>3. g = [i \in 1 .. n + 1 |-> g[i]]
    OBVIOUS
  <2>4. Joins(g, n + 1)
    <3> HIDE DEF g
    <3> QED
      BY <2>2, <2>3
  <2> HIDE DEF g, Joins
  <2> QED
    BY <2>4
<1>3. \E f : Joins(f, m)
  <2>1. \A n \in Nat : n \in A
    <3> HIDE DEF A
    <3> QED
      BY <1>1, <1>2, SetOfNumbers
  <2> QED
    BY <2>1
<1> DEFINE f == CHOOSE g : Joins(g, m)
<1>4. Joins(f, m)
  <2> HIDE DEF Joins
  <2> QED
    BY <1>3
<1>5. FlattenSeq(parts) = f[m]
  BY DEF FlattenSeq
<1> HIDE DEF f
<1> QED
  BY <1>4, <1>5


(***************************************************************************)
(* Sequences of digests.                                                   *)
(***************************************************************************)
LEMMA MembersOfJoined ==
  ASSUME NEW S, NEW s \in Seq(S), NEW r \in Seq(S)
  PROVE  /\ s \o r \in Seq(S)
         /\ ToSet(s \o r) = ToSet(s) \cup ToSet(r)
<1>1. /\ s \o r \in Seq(S)
      /\ DOMAIN (s \o r) = 1 .. Len(s) + Len(r)
      /\ \A i \in 1 .. Len(s) : (s \o r)[i] = s[i]
      /\ \A i \in 1 .. Len(r) : (s \o r)[Len(s) + i] = r[i]
  OBVIOUS
<1>2. Len(s) \in Nat /\ Len(r) \in Nat /\ DOMAIN s = 1 .. Len(s) /\ DOMAIN r = 1 .. Len(r)
  OBVIOUS
<1>3. ASSUME NEW x \in ToSet(s \o r)
      PROVE  x \in ToSet(s) \cup ToSet(r)
  <2>1. PICK i \in 1 .. Len(s) + Len(r) : x = (s \o r)[i]
    BY <1>1, <1>3 DEF ToSet
  <2>2. CASE i <= Len(s)
    BY <1>1, <1>2, <2>1, <2>2 DEF ToSet
  <2>3. CASE ~ (i <= Len(s))
    <3>1. i - Len(s) \in 1 .. Len(r) /\ Len(s) + (i - Len(s)) = i
      BY <1>2, <2>3
    <3>2. x = r[i - Len(s)]
      BY <1>1, <2>1, <3>1
    <3> QED
      BY <1>2, <3>1, <3>2 DEF ToSet
  <2> QED
    BY <2>2, <2>3
<1>4. ASSUME NEW x \in ToSet(s) PROVE x \in ToSet(s \o r)
  <2>1. PICK i \in 1 .. Len(s) : x = s[i]
    BY <1>2, <1>4 DEF ToSet
  <2>2. i \in 1 .. Len(s) + Len(r) /\ x = (s \o r)[i]
    BY <1>1, <1>2, <2>1
  <2> QED
    BY <1>1, <2>2 DEF ToSet
<1>5. ASSUME NEW x \in ToSet(r) PROVE x \in ToSet(s \o r)
  <2>1. PICK i \in 1 .. Len(r) : x = r[i]
    BY <1>2, <1>5 DEF ToSet
  <2>2. Len(s) + i \in 1 .. Len(s) + Len(r) /\ x = (s \o r)[Len(s) + i]
    BY <1>1, <1>2, <2>1
  <2> QED
    BY <1>1, <2>2 DEF ToSet
<1> QED
  BY <1>1, <1>3, <1>4, <1>5

\* A sequence has at most as many members as entries.
LEMMA MembersCounted ==
  ASSUME NEW S, NEW s \in Seq(S)
  PROVE  /\ IsFiniteSet(ToSet(s)) /\ ToSet(s) \subseteq S
         /\ Cardinality(ToSet(s)) <= Len(s)
<1>1. Len(s) \in Nat /\ s \in [1 .. Len(s) -> S] /\ DOMAIN s = 1 .. Len(s)
  OBVIOUS
<1>2. s \in Surjection(1 .. Len(s), ToSet(s))
  BY <1>1 DEF Surjection, ToSet
<1>3. IsFiniteSet(1 .. Len(s)) /\ Cardinality(1 .. Len(s)) = Len(s)
  <2>1. /\ IsFiniteSet(1 .. Len(s))
        /\ Cardinality(1 .. Len(s)) = IF 1 > Len(s) THEN 0 ELSE Len(s) - 1 + 1
    <3>1. 1 \in Int /\ Len(s) \in Int
      BY <1>1
    <3> QED
      BY <3>1, FS_Interval
  <2> QED
    BY <1>1, <2>1
<1>4. ToSet(s) \subseteq S
  BY <1>1 DEF ToSet
<1>5. IsFiniteSet(ToSet(s)) /\ Cardinality(ToSet(s)) <= Cardinality(1 .. Len(s))
  BY <1>2, <1>3, FS_Surjection
<1> QED
  BY <1>3, <1>4, <1>5

\* Removing entries leaves those of the other digests (DELETE FROM
\* pending_deletions in gc.py).
LEMMA WithoutEntries ==
  ASSUME NEW s \in Seq(Digests), NEW S
  PROVE  /\ Without(s, S) \in Seq(Digests)
         /\ ToSet(Without(s, S)) = ToSet(s) \ S
<1> DEFINE m == Len(s)
           parts == [i \in DOMAIN s |-> IF s[i] \in S THEN <<>> ELSE <<s[i]>>]
<1>1. m \in Nat /\ DOMAIN s = 1 .. m /\ Len(parts) = m
  OBVIOUS
<1>2. Without(s, S) = FlattenSeq(parts)
  BY DEF Without
<1>3. \A i \in 1 .. m : /\ parts[i] = IF s[i] \in S THEN <<>> ELSE <<s[i]>>
                        /\ s[i] \in Digests
  BY <1>1
<1>4. ASSUME NEW i \in 1 .. m
      PROVE  /\ parts[i] \in Seq(Digests)
             /\ ToSet(parts[i]) = {s[i]} \ S
  <2>1. CASE s[i] \in S
    <3>1. parts[i] = <<>>
      BY <1>3, <2>1
    <3> HIDE DEF parts
    <3> QED
      BY <2>1, <3>1 DEF ToSet
  <2>2. CASE s[i] \notin S
    <3>1. parts[i] = <<s[i]>> /\ s[i] \in Digests
      BY <1>3, <2>2
    <3> HIDE DEF parts
    <3>2. DOMAIN <<s[i]>> = {1} /\ <<s[i]>>[1] = s[i]
      OBVIOUS
    <3> QED
      BY <2>2, <3>1, <3>2 DEF ToSet
  <2> QED
    BY <2>1, <2>2
<1> HIDE DEF parts
<1>5. CASE m = 0
  <2>1. s = <<>> /\ parts = <<>>
    BY <1>1, <1>5 DEF parts
  <2>2. FlattenSeq(<<>>) = <<>>
    BY DEF FlattenSeq
  <2>3. Without(s, S) = <<>> /\ <<>> \in Seq(Digests)
    BY <1>2, <2>1, <2>2
  <2>4. ToSet(<<>>) = {}
    BY DEF ToSet
  <2> QED
    BY <2>1, <2>3, <2>4
<1>6. CASE m # 0
  <2>1. PICK joined : /\ joined = [i \in 1 .. m |-> IF i = 1 THEN parts[i]
                                                 ELSE joined[i - 1] \o parts[i]]
                      /\ FlattenSeq(parts) = joined[m]
    <3> HIDE DEF m
    <3> QED
      BY <1>1, <1>6, FlattenSeqJoins
  <2>2. ASSUME NEW i \in 1 .. m
        PROVE  joined[i] = IF i = 1 THEN parts[i] ELSE joined[i - 1] \o parts[i]
    <3> DEFINE J == [k \in 1 .. m |-> IF k = 1 THEN parts[k] ELSE joined[k - 1] \o parts[k]]
    <3>1. J[i] = IF i = 1 THEN parts[i] ELSE joined[i - 1] \o parts[i]
      OBVIOUS
    <3>2. joined = J
      BY <2>1
    <3> HIDE DEF J
    <3> QED
      BY <3>1, <3>2
  <2> DEFINE upTo(n) == {s[k] : k \in 1 .. n}
             A == {i \in Nat : i + 1 \in 1 .. m =>
                                 /\ joined[i + 1] \in Seq(Digests)
                                 /\ ToSet(joined[i + 1]) = upTo(i + 1) \ S}
  <2>3. 0 \in A
    <3>1. joined[1] = parts[1] /\ 1 \in 1 .. m
      BY <1>1, <1>6, <2>2
    <3>2. upTo(1) = {s[1]}
      OBVIOUS
    <3> QED
      BY <1>4, <3>1, <3>2
  <2>4. ASSUME NEW i \in Nat, i \in A PROVE i + 1 \in A
    <3> SUFFICES ASSUME i + 2 \in 1 .. m
                 PROVE  /\ joined[i + 2] \in Seq(Digests)
                        /\ ToSet(joined[i + 2]) = upTo(i + 2) \ S
      OBVIOUS
    <3>1. i + 1 \in 1 .. m /\ i + 2 # 1 /\ (i + 2) - 1 = i + 1
      BY <1>1
    <3>2. joined[i + 2] = joined[i + 1] \o parts[i + 2]
      BY <2>2, <3>1
    <3>3. /\ joined[i + 1] \in Seq(Digests)
          /\ ToSet(joined[i + 1]) = upTo(i + 1) \ S
      BY <2>4, <3>1
    <3>4. parts[i + 2] \in Seq(Digests) /\ ToSet(parts[i + 2]) = {s[i + 2]} \ S
      BY <1>4
    <3>5. upTo(i + 2) = upTo(i + 1) \cup {s[i + 2]}
      <4>1. 1 .. i + 2 = (1 .. i + 1) \cup {i + 2}
        OBVIOUS
      <4> QED
        BY <4>1
    <3>6. /\ joined[i + 2] \in Seq(Digests)
          /\ ToSet(joined[i + 2]) = (upTo(i + 1) \ S) \cup ({s[i + 2]} \ S)
      <4> HIDE DEF upTo
      <4> QED
        BY <3>2, <3>3, <3>4, MembersOfJoined
    <3> QED
      BY <3>5, <3>6
  <2>5. \A i \in Nat : i \in A
    <3> HIDE DEF A
    <3> QED
      BY <2>3, <2>4, SetOfNumbers
  <2>6. m - 1 \in Nat /\ (m - 1) + 1 = m /\ m \in 1 .. m
    <3> HIDE DEF m
    <3> QED
      BY <1>1, <1>6
  <2>7. joined[m] \in Seq(Digests) /\ ToSet(joined[m]) = upTo(m) \ S
    <3>1. m - 1 \in A
      <4> HIDE DEF A
      <4> QED
        BY <2>5, <2>6
    <3> HIDE DEF m, upTo
    <3> QED
      BY <2>6, <3>1
  <2>8. upTo(m) = ToSet(s)
    BY <1>1 DEF ToSet
  <2> QED
    BY <1>2, <2>1, <2>7, <2>8
<1> QED
  BY <1>5, <1>6


\* The instance has operators of its own for finite sets, which mean the same.
LEMMA SameFiniteSets ==
  \A S : /\ IsFiniteSet(S) <=> IsFiniteSet(S)
         /\ Cardinality(S) = Cardinality(S)
<1>1. ASSUME NEW S PROVE IsFiniteSet(S) <=> IsFiniteSet(S)
  BY DEF IsFiniteSet, IsFiniteSet
<1>2. ASSUME NEW S PROVE Cardinality(S) = Cardinality(S)
  BY DEF Cardinality, Cardinality
<1> QED
  BY <1>1, <1>2

LEMMA ParametersTyped ==
  ASSUME HooksParameters
  PROVE  /\ IsFiniteSet(Digests) /\ Stuck \subseteq Digests
         /\ Budget \in Nat \ {0}
         /\ HotMax \in Nat \ {0} /\ HotMin \in 0 .. HotMax
BY SameFiniteSets DEF HooksParameters

\* A sequence of a set's members, each once (SetToSeqs), has just these members.
LEMMA OrderedMembers ==
  ASSUME HooksParameters, NEW S \in SUBSET Digests,
         NEW order \in SetToSeqs(S)
  PROVE  order \in Seq(Digests) /\ ToSet(order) = S
<1> DEFINE n == Cardinality(S)
<1>1. IsFiniteSet(Digests)
  BY ParametersTyped
<1>2. IsFiniteSet(S) /\ n \in Nat
  BY <1>1, FS_Subset, FS_CardinalityType
<1>3. order \in [1 .. n -> S] /\ \A i, j \in 1 .. n : i # j => order[i] # order[j]
  BY SameFiniteSets DEF SetToSeqs
<1> HIDE DEF n
<1>4. order \in Injection(1 .. n, S)
  BY <1>3 DEF Injection, IsInjective
<1>5. IsFiniteSet(1 .. n) /\ Cardinality(1 .. n) = n
  BY <1>2, FS_Interval
<1>6. order \in Surjection(1 .. n, S)
  BY <1>2, <1>4, <1>5, FS_Injection DEF n
<1>7. order \in Seq(Digests)
  BY <1>2, <1>3
<1>8. DOMAIN order = 1 .. n
  BY <1>3
<1> QED
  BY <1>6, <1>7, <1>8 DEF Surjection, ToSet


(***************************************************************************)
(* One thread at a time is in the hooks; what it has read is queued until  *)
(* it is removed; and no queued block has a row.                           *)
(***************************************************************************)
InHooks == {"read", "unlink", "remove", "request", "demote"}

QueuedDropped == \A d \in Queued : blocks[d] = "absent"

OneInHooks ==
  \A t \in Workers : step[t] \in InHooks =>
    running /\ \A u \in Workers : step[u] \in InHooks => u = t

DrainOf(t) ==
  /\ step[t] = "unlink" =>
       /\ Len(drain[t].rows) + drain[t].removed <= Budget
       /\ ToSet(drain[t].rows) \subseteq Queued
  /\ step[t] = "remove" =>
       /\ Cardinality(drain[t].done) + drain[t].removed <= Budget
       /\ drain[t].done \subseteq Queued
       /\ drain[t].done \cap files = {}

DrainFits == \A t \in Workers : DrainOf(t)

HooksInv ==
  /\ HooksTypeOK
  /\ HotFilesAccounted
  /\ QueuedDropped
  /\ OneInHooks
  /\ DrainFits

Drains == [rows : Seq(Digests), done : SUBSET Digests, removed : 0 .. Budget]

LEMMA DigestSubsets ==
  ASSUME HooksParameters, NEW S \in SUBSET Digests
  PROVE  /\ IsFiniteSet(S) /\ Cardinality(S) \in Nat
         /\ Cardinality(S) \in 0 .. Cardinality(Digests)
<1>1. IsFiniteSet(Digests)
  BY ParametersTyped
<1>2. IsFiniteSet(S) /\ Cardinality(S) <= Cardinality(Digests)
  BY <1>1, FS_Subset
<1> QED
  BY <1>1, <1>2, FS_CardinalityType

LEMMA NoDrainTyped ==
  ASSUME HooksParameters
  PROVE  NoDrain \in Drains
<1>1. 0 \in 0 .. Budget /\ <<>> \in Seq(Digests)
  BY ParametersTyped
<1> QED
  BY <1>1 DEF NoDrain, Drains

LEMMA InitHooksInv ==
  ASSUME HooksParameters, HooksInit
  PROVE  HooksInv
<1>1. HooksTypeOK
  <2>1. 0 \in 0 .. (HotMax - 1)
    BY ParametersTyped
  <2>2. 0 \in 0 .. Cardinality(Digests)
    BY DigestSubsets
  <2>3. blocks \in [Digests -> {"absent", "hot", "cold"}] /\ queue \in Seq(Digests)
    BY DEF HooksInit
  <2>4. drain \in [Workers -> Drains] /\ step \in [Workers -> Steps]
    BY NoDrainTyped DEF HooksInit, Steps
  <2> QED
    BY <2>1, <2>2, <2>3, <2>4, SameFiniteSets DEF HooksInit, HooksTypeOK, Drains
<1>2. Queued = {} /\ Hot = {}
  BY DEF HooksInit, Queued, ToSet, Hot
<1>3. \A t \in Workers : step[t] = "idle"
  BY DEF HooksInit
<1> QED
  BY <1>1, <1>2, <1>3
  DEF HooksInv, HotFilesAccounted, HooksInit, QueuedDropped, OneInHooks, DrainFits,
      DrainOf, InHooks

LEMMA CommitHooksInv ==
  ASSUME HooksParameters, HooksInv, NEW t \in Workers, Commits(t)
  PROVE  HooksInv'
<1>1. HooksTypeOK /\ step \in [Workers -> Steps] /\ queue \in Seq(Digests)
      /\ blocks \in [Digests -> {"absent", "hot", "cold"}] /\ files \subseteq Digests
      /\ requested \in BOOLEAN /\ added \in 0 .. (HotMax - 1)
  BY DEF HooksInv, HooksTypeOK
<1>2. /\ step[t] = "idle" /\ step' = [step EXCEPT ![t] = "committed"]
      /\ UNCHANGED <<hotUp, running, drain, excess>>
  BY DEF Commits, StepTo
<1>3. \A u \in Workers : step'[u] \in InHooks => step'[u] = step[u]
  BY <1>1, <1>2 DEF InHooks
<1>4. \A u \in Workers : step'[u] = "unlink" \/ step'[u] = "remove" => step'[u] = step[u]
  BY <1>1, <1>2
<1>5. step' \in [Workers -> Steps]
  BY <1>1, <1>2 DEF Steps
<1>6. OneInHooks'
  BY <1>2, <1>3 DEF HooksInv, OneInHooks
<1>7. ASSUME /\ blocks' \in [Digests -> {"absent", "hot", "cold"}]
             /\ files' \subseteq Digests /\ queue' \in Seq(Digests)
             /\ requested' \in BOOLEAN /\ added' \in 0 .. (HotMax - 1)
             /\ Queued \subseteq Queued'
             /\ QueuedDropped' /\ HotFilesAccounted'
             /\ files' \cap Queued \subseteq files
      PROVE  HooksInv'
  <2>1. HooksTypeOK'
    BY <1>1, <1>2, <1>5, <1>7 DEF HooksTypeOK
  <2>2. DrainFits'
    <3> SUFFICES ASSUME NEW u \in Workers
                 PROVE  /\ step'[u] = "unlink" =>
                             /\ Len(drain[u].rows) + drain[u].removed <= Budget
                             /\ ToSet(drain[u].rows) \subseteq Queued'
                        /\ step'[u] = "remove" =>
                             /\ Cardinality(drain[u].done) + drain[u].removed <= Budget
                             /\ drain[u].done \subseteq Queued'
                             /\ drain[u].done \cap files' = {}
      BY <1>2 DEF DrainFits, DrainOf, ToSet
    <3> QED
      BY <1>4, <1>7 DEF HooksInv, DrainFits, DrainOf
  <2> QED
    BY <1>6, <1>7, <2>1, <2>2 DEF HooksInv
<1>8. CASE UNCHANGED <<tables, demotionVars>>
  <2>1. UNCHANGED <<blocks, files, queue, requested, added>>
    BY <1>8 DEF tables, demotionVars
  <2>2. UNCHANGED Queued /\ UNCHANGED Hot
    BY <2>1 DEF Queued, ToSet, Hot
  <2> QED
    BY <1>1, <1>7, <2>1, <2>2 DEF HooksInv, QueuedDropped, HotFilesAccounted
<1>9. ASSUME NEW d \in Digests, Store(d) \/ CopyUp(d) PROVE HooksInv'
  <2>1. d \notin Queued
    BY <1>9 DEF Store, CopyUp, HooksInv, QueuedDropped
  <2>2. /\ blocks' = [blocks EXCEPT ![d] = "hot"]
        /\ files' = files \cup {d} /\ queue' = queue
    BY <1>9 DEF Store, CopyUp
  <2>3. requested' \in BOOLEAN /\ added' \in 0 .. (HotMax - 1)
    <3>1. HotMax \in Nat \ {0}
      BY ParametersTyped
    <3>2. CASE Store(d)
      <4>1. CASE added + 1 >= HotMax
        <5>1. requested' = TRUE /\ added' = 0
          BY <3>2, <4>1 DEF Store, NoteHotWrite
        <5> QED
          BY <3>1, <5>1
      <4>2. CASE ~ (added + 1 >= HotMax)
        <5>1. added' = added + 1 /\ requested' = requested
          BY <3>2, <4>2 DEF Store, NoteHotWrite
        <5> QED
          BY <1>1, <3>1, <4>2, <5>1
      <4> QED
        BY <4>1, <4>2
    <3>3. CASE CopyUp(d)
      <4>1. requested' = TRUE /\ added' = added
        BY <3>3 DEF CopyUp
      <4> QED
        BY <1>1, <4>1
    <3> QED
      BY <1>9, <3>2, <3>3
  <2>4. Queued' = Queued
    BY <2>2 DEF Queued, ToSet
  <2>5. Hot' = Hot \cup {d}
    BY <1>1, <2>2 DEF Hot
  <2>6. QueuedDropped'
    <3> SUFFICES ASSUME NEW e \in Queued PROVE blocks'[e] = "absent"
      BY <2>4 DEF QueuedDropped
    <3>1. blocks[e] = "absent" /\ e # d
      BY <2>1 DEF HooksInv, QueuedDropped
    <3>2. e \in Digests
      BY <1>1, MembersCounted DEF Queued
    <3> QED
      BY <1>1, <2>2, <3>1, <3>2
  <2>7. HotFilesAccounted'
    BY <2>2, <2>4, <2>5 DEF HooksInv, HotFilesAccounted
  <2> QED
    BY <1>1, <1>7, <2>1, <2>2, <2>3, <2>4, <2>6, <2>7
<1>10. ASSUME NEW S \in SUBSET Digests, Drop(S) PROVE HooksInv'
  <2>1. PICK order \in SetToSeqs(S \cap Hot) : queue' = queue \o order
    BY <1>10 DEF Drop
  <2>2. /\ blocks' = [d \in Digests |-> IF d \in S THEN "absent" ELSE blocks[d]]
        /\ UNCHANGED <<files, requested, added>>
    BY <1>10 DEF Drop, demotionVars
  <2>3. order \in Seq(Digests) /\ ToSet(order) = S \cap Hot
    BY <2>1, OrderedMembers
  <2>4. queue' \in Seq(Digests) /\ Queued' = Queued \cup (S \cap Hot)
    <3>1. /\ queue \o order \in Seq(Digests)
          /\ ToSet(queue \o order) = ToSet(queue) \cup ToSet(order)
      BY <1>1, <2>3, MembersOfJoined
    <3>2. Queued' = ToSet(queue \o order)
      BY <2>1 DEF Queued, ToSet
    <3> QED
      BY <2>1, <2>3, <3>1, <3>2 DEF Queued
  <2>5. Hot' = Hot \ S
    BY <1>1, <2>2 DEF Hot
  <2>6. QueuedDropped'
    <3> SUFFICES ASSUME NEW e \in Queued' PROVE blocks'[e] = "absent"
      BY DEF QueuedDropped
    <3>1. e \in Digests /\ (e \in S \/ blocks[e] = "absent")
      <4>1. Queued \subseteq Digests
        BY <1>1, MembersCounted DEF Queued
      <4> QED
        BY <2>4, <4>1 DEF HooksInv, QueuedDropped
    <3> QED
      BY <1>1, <2>2, <3>1
  <2>7. HotFilesAccounted'
    BY <2>2, <2>4, <2>5 DEF HooksInv, HotFilesAccounted
  <2>8. blocks' \in [Digests -> {"absent", "hot", "cold"}]
    BY <1>1, <2>2
  <2> QED
    BY <1>1, <1>7, <2>2, <2>4, <2>6, <2>7, <2>8
<1> QED
  BY <1>8, <1>9, <1>10 DEF Commits


\* A thread enters the hooks only when nobody is in them (the flag
\* _running_after_commit_hooks).
LEMMA EnterHooksInv ==
  ASSUME HooksInv, NEW t \in Workers, EnterHooks(t)
  PROVE  HooksInv'
<1> DEFINE next == IF running THEN "idle" ELSE "read"
<1>1. /\ step[t] = "committed" /\ step' = [step EXCEPT ![t] = next] /\ running' = TRUE
      /\ UNCHANGED <<blocks, files, queue, hotUp, requested, added, drain, excess>>
  BY DEF EnterHooks, StepTo, tables, demotionVars
<1>2. step \in [Workers -> Steps]
  BY DEF HooksInv, HooksTypeOK
<1>3. step' \in [Workers -> Steps]
  BY <1>1, <1>2 DEF Steps
<1>4. HooksTypeOK'
  BY <1>1, <1>3 DEF HooksInv, HooksTypeOK
<1>5. UNCHANGED <<Queued, Hot>>
  BY <1>1 DEF Queued, ToSet, Hot
<1>6. HotFilesAccounted' /\ QueuedDropped'
  BY <1>1, <1>5 DEF HooksInv, HotFilesAccounted, QueuedDropped
<1>7. OneInHooks'
  <2> SUFFICES ASSUME NEW u \in Workers, step'[u] \in InHooks,
                      NEW v \in Workers, step'[v] \in InHooks
               PROVE  u = v
    BY <1>1 DEF OneInHooks
  <2>1. CASE running
    BY <1>1, <1>2, <2>1 DEF HooksInv, OneInHooks, InHooks
  <2>2. CASE ~running
    <3>1. \A w \in Workers : step[w] \notin InHooks
      BY <2>2 DEF HooksInv, OneInHooks
    <3> QED
      BY <1>1, <1>2, <3>1
  <2> QED
    BY <2>1, <2>2
<1>8. ASSUME NEW u \in Workers PROVE DrainOf(u)'
  <2>1. step'[u] = "unlink" \/ step'[u] = "remove" => step'[u] = step[u]
    BY <1>1, <1>2
  <2>2. DrainOf(u)
    BY DEF HooksInv, DrainFits
  <2> QED
    BY <1>1, <1>5, <2>1, <2>2 DEF DrainOf, ToSet
<1> QED
  BY <1>4, <1>6, <1>7, <1>8 DEF HooksInv, DrainFits

\* What a step of the thread in the hooks has to keep.
LEMMA HookStepKeeps ==
  ASSUME HooksInv, NEW t \in Workers, step[t] \in InHooks,
         NEW next \in Steps, step' = [step EXCEPT ![t] = next],
         next \in InHooks => running' = running,
         HooksTypeOK', HotFilesAccounted', QueuedDropped', DrainOf(t)'
  PROVE  HooksInv'
<1>1. running /\ \A u \in Workers : step[u] \in InHooks => u = t
  BY DEF HooksInv, OneInHooks
<1>2. step \in [Workers -> Steps]
  BY DEF HooksInv, HooksTypeOK
<1>3. \A u \in Workers : step'[u] \in InHooks => u = t /\ next \in InHooks
  BY <1>1, <1>2
<1>4. OneInHooks'
  BY <1>1, <1>3 DEF OneInHooks
<1>5. ASSUME NEW u \in Workers PROVE DrainOf(u)'
  <2>1. CASE u = t
    BY <2>1
  <2>2. CASE u # t
    <3>1. step'[u] \notin InHooks
      BY <1>3, <2>2
    <3> QED
      BY <3>1 DEF DrainOf, InHooks
  <2> QED
    BY <2>1, <2>2
<1> QED
  BY <1>4, <1>5 DEF HooksInv, DrainFits

\* The same for a step that leaves the tables and the hot tier alone.
LEMMA HookStepBeside ==
  ASSUME HooksParameters, HooksInv, NEW t \in Workers, step[t] \in InHooks,
         NEW next \in Steps, step' = [step EXCEPT ![t] = next],
         next \in InHooks => running' = running, running' \in BOOLEAN,
         UNCHANGED <<blocks, files, queue, hotUp, added>>,
         requested' \in BOOLEAN, excess' \in 0 .. Cardinality(Digests),
         NEW own \in Drains, drain' = [drain EXCEPT ![t] = own],
         next \notin {"unlink", "remove"}
           \/ /\ next = "unlink" /\ Len(own.rows) + own.removed <= Budget
              /\ ToSet(own.rows) \subseteq Queued
  PROVE  HooksInv'
<1>1. /\ step \in [Workers -> Steps] /\ drain \in [Workers -> Drains]
      /\ HooksTypeOK
  BY DEF HooksInv, HooksTypeOK, Drains
<1>2. step' \in [Workers -> Steps] /\ drain' \in [Workers -> Drains]
  BY <1>1
<1>3. HooksTypeOK'
  BY <1>1, <1>2, SameFiniteSets DEF HooksTypeOK, Drains
<1>4. UNCHANGED <<Queued, Hot>>
  BY DEF Queued, ToSet, Hot
<1>5. HotFilesAccounted' /\ QueuedDropped'
  BY <1>4 DEF HooksInv, HotFilesAccounted, QueuedDropped
<1>6. DrainOf(t)'
  <2>1. step'[t] = next /\ drain'[t] = own
    BY <1>1
  <2> QED
    BY <1>4, <2>1 DEF DrainOf, ToSet
<1> QED
  BY <1>3, <1>5, <1>6, HookStepKeeps


\* The first rows of the queue are at most as many as asked for.
LEMMA FirstRowsFit ==
  ASSUME queue \in Seq(Digests), NEW n \in Nat
  PROVE  /\ FirstRows(n) \in Seq(Digests) /\ Len(FirstRows(n)) <= n
         /\ ToSet(FirstRows(n)) \subseteq Queued
<1> DEFINE m == IF n < Len(queue) THEN n ELSE Len(queue)
<1>1. Len(queue) \in Nat /\ DOMAIN queue = 1 .. Len(queue)
  OBVIOUS
<1>2. m \in Nat /\ m <= n /\ m <= Len(queue)
  BY <1>1
<1>3. FirstRows(n) = SubSeq(queue, 1, m)
  BY DEF FirstRows
<1> HIDE DEF m
<1>4. /\ SubSeq(queue, 1, m) \in Seq(Digests) /\ Len(SubSeq(queue, 1, m)) = m
      /\ \A i \in 1 .. m : SubSeq(queue, 1, m)[i] = queue[i]
  BY <1>1, <1>2
<1>5. DOMAIN SubSeq(queue, 1, m) = 1 .. m
  BY <1>2, <1>4
<1>6. ASSUME NEW x \in ToSet(SubSeq(queue, 1, m)) PROVE x \in Queued
  <2>1. PICK i \in 1 .. m : x = SubSeq(queue, 1, m)[i]
    BY <1>5, <1>6 DEF ToSet
  <2>2. i \in DOMAIN queue /\ x = queue[i]
    BY <1>1, <1>2, <1>4, <2>1
  <2> QED
    BY <2>2 DEF Queued, ToSet
<1> QED
  BY <1>2, <1>3, <1>4, <1>6

LEMMA ReadPendingHooksInv ==
  ASSUME HooksParameters, HooksInv, NEW t \in Workers, ReadPending(t)
  PROVE  HooksInv'
<1> DEFINE n == Budget - drain[t].removed
           rows == FirstRows(n)
<1>1. /\ step[t] = "read" /\ step[t] \in InHooks
      /\ UNCHANGED <<blocks, files, queue, hotUp, requested, added, running, excess>>
  BY DEF ReadPending, tables, demotionVars, InHooks
<1>2. /\ drain \in [Workers -> Drains] /\ queue \in Seq(Digests)
      /\ requested \in BOOLEAN /\ excess \in 0 .. Cardinality(Digests)
      /\ running \in BOOLEAN
  BY SameFiniteSets DEF HooksInv, HooksTypeOK, Drains
<1>3. n \in Nat /\ drain[t].removed \in Nat /\ Budget \in Nat /\ drain[t] \in Drains
  <2>1. drain[t].removed \in 0 .. Budget
    BY <1>2 DEF Drains
  <2> QED
    BY <1>2, <2>1, ParametersTyped
<1>4. CASE rows = <<>>
  <2>1. step' = [step EXCEPT ![t] = "request"] /\ drain' = [drain EXCEPT ![t] = NoDrain]
    BY <1>4 DEF ReadPending, StepTo
  <2> QED
    BY <1>1, <1>2, <2>1, NoDrainTyped, HookStepBeside DEF Steps
<1>5. CASE rows # <<>>
  <2> DEFINE own == [drain[t] EXCEPT !.rows = rows]
  <2>1. step' = [step EXCEPT ![t] = "unlink"] /\ drain' = [drain EXCEPT ![t] = own]
    BY <1>5 DEF ReadPending, StepTo
  <2>2. /\ rows \in Seq(Digests) /\ Len(rows) <= n
        /\ ToSet(rows) \subseteq Queued
    <3> HIDE DEF n
    <3> QED
      BY <1>2, <1>3, FirstRowsFit
  <2> HIDE DEF rows
  <2>3. own \in Drains /\ own.rows = rows /\ own.removed = drain[t].removed
    BY <1>3, <2>2 DEF Drains
  <2>4. Len(own.rows) + own.removed <= Budget
    <3>1. Len(rows) \in Nat
      BY <2>2
    <3> QED
      BY <1>3, <2>2, <2>3, <3>1
  <2> HIDE DEF own
  <2> QED
    BY <1>1, <1>2, <2>1, <2>2, <2>3, <2>4, HookStepBeside DEF Steps
<1> QED
  BY <1>4, <1>5

\* Only queued files are unlinked, and no hot block is queued.
LEMMA UnlinkRowsHooksInv ==
  ASSUME HooksParameters, HooksInv, NEW t \in Workers, UnlinkRows(t)
  PROVE  HooksInv'
<1> DEFINE done == Deletable(ToSet(drain[t].rows))
           own == [drain[t] EXCEPT !.done = done]
<1>1. /\ step[t] = "unlink" /\ step[t] \in InHooks
      /\ step' = [step EXCEPT ![t] = "remove"]
      /\ files' = files \ done /\ drain' = [drain EXCEPT ![t] = own]
      /\ UNCHANGED <<blocks, queue, hotUp, requested, added, running, excess>>
  BY DEF UnlinkRows, StepTo, demotionVars, InHooks
<1>2. HooksTypeOK /\ drain \in [Workers -> Drains] /\ step \in [Workers -> Steps]
  BY DEF HooksInv, HooksTypeOK, Drains
<1>3. /\ drain[t] \in Drains /\ drain[t].rows \in Seq(Digests)
      /\ drain[t].removed \in 0 .. Budget
  BY <1>2 DEF Drains
<1>4. done \subseteq ToSet(drain[t].rows) /\ IsFiniteSet(ToSet(drain[t].rows))
      /\ ToSet(drain[t].rows) \subseteq Digests
      /\ Cardinality(ToSet(drain[t].rows)) <= Len(drain[t].rows)
      /\ Len(drain[t].rows) \in Nat
  BY <1>3, MembersCounted DEF Deletable
<1>5. /\ Len(drain[t].rows) + drain[t].removed <= Budget
      /\ ToSet(drain[t].rows) \subseteq Queued
  BY <1>1 DEF HooksInv, DrainFits, DrainOf
<1> HIDE DEF done
<1>6. Cardinality(done) \in Nat /\ Cardinality(done) <= Len(drain[t].rows)
  <2>1. IsFiniteSet(done) /\ Cardinality(done) <= Cardinality(ToSet(drain[t].rows))
    BY <1>4, FS_Subset
  <2> QED
    BY <1>4, <2>1, FS_CardinalityType
<1>7. own \in Drains /\ own.done = done /\ own.removed = drain[t].removed
  BY <1>3, <1>4 DEF Drains
<1> HIDE DEF own
<1>8. drain' \in [Workers -> Drains] /\ step' \in [Workers -> Steps]
      /\ drain'[t] = own /\ step'[t] = "remove"
  BY <1>1, <1>2, <1>7 DEF Steps
<1>9. HooksTypeOK'
  BY <1>1, <1>2, <1>8 DEF HooksTypeOK, Drains
<1>10. UNCHANGED <<Queued, Hot>>
  BY <1>1 DEF Queued, ToSet, Hot
<1>11. QueuedDropped'
  BY <1>1, <1>10 DEF HooksInv, QueuedDropped
<1>12. HotFilesAccounted'
  <2>1. done \cap Hot = {}
    BY <1>4, <1>5 DEF HooksInv, QueuedDropped, Hot
  <2> QED
    BY <1>1, <1>10, <2>1 DEF HooksInv, HotFilesAccounted
<1>13. DrainOf(t)'
  <2>1. Cardinality(done) + drain[t].removed <= Budget
    <3>1. drain[t].removed \in Nat /\ Budget \in Nat
      BY <1>3, ParametersTyped
    <3> QED
      BY <1>4, <1>5, <1>6, <3>1
  <2>2. done \subseteq Queued' /\ done \cap files' = {}
    BY <1>1, <1>4, <1>5, <1>10
  <2> QED
    BY <1>7, <1>8, <2>1, <2>2 DEF DrainOf
<1> QED
  BY <1>1, <1>9, <1>11, <1>12, <1>13, HookStepKeeps DEF Steps

\* Entries go once their files are gone.
LEMMA RemoveRowsHooksInv ==
  ASSUME HooksParameters, HooksInv, NEW t \in Workers, RemoveRows(t)
  PROVE  HooksInv'
<1> DEFINE done == drain[t].done
           n == drain[t].removed + Cardinality(done)
           next == IF done = {} THEN "request" ELSE "read"
           own == IF done = {} THEN NoDrain ELSE [NoDrain EXCEPT !.removed = n]
<1>1. /\ step[t] = "remove" /\ step[t] \in InHooks
      /\ step' = [step EXCEPT ![t] = next]
      /\ queue' = Without(queue, done) /\ drain' = [drain EXCEPT ![t] = own]
      /\ UNCHANGED <<blocks, files, hotUp, requested, added, running, excess>>
  BY SameFiniteSets DEF RemoveRows, StepTo, demotionVars, InHooks
<1>2. HooksTypeOK /\ drain \in [Workers -> Drains] /\ step \in [Workers -> Steps]
      /\ queue \in Seq(Digests)
  BY DEF HooksInv, HooksTypeOK, Drains
<1>3. drain[t] \in Drains /\ done \subseteq Digests /\ drain[t].removed \in 0 .. Budget
  BY <1>2 DEF Drains
<1>4. /\ Cardinality(done) + drain[t].removed <= Budget
      /\ done \subseteq Queued /\ done \cap files = {}
  BY <1>1 DEF HooksInv, DrainFits, DrainOf
<1>5. n \in 0 .. Budget
  <2>1. Cardinality(done) \in Nat
    BY <1>3, DigestSubsets
  <2>2. drain[t].removed \in Nat /\ Budget \in Nat
    BY <1>3, ParametersTyped
  <2> HIDE DEF done
  <2> QED
    BY <1>4, <2>1, <2>2
<1> HIDE DEF done, n
<1>6. own \in Drains
  <2>1. NoDrain \in Drains
    BY NoDrainTyped
  <2> QED
    BY <1>5, <2>1 DEF Drains
<1>7. next \in Steps /\ next \in InHooks /\ next # "unlink" /\ next # "remove"
  BY DEF Steps, InHooks
<1> HIDE DEF own, next
<1>8. drain' \in [Workers -> Drains] /\ step' \in [Workers -> Steps]
      /\ step'[t] = next
  BY <1>1, <1>2, <1>6, <1>7
<1>9. queue' \in Seq(Digests) /\ Queued' = Queued \ done
  <2>1. /\ Without(queue, done) \in Seq(Digests)
        /\ ToSet(Without(queue, done)) = ToSet(queue) \ done
    BY <1>2, WithoutEntries
  <2>2. Queued' = ToSet(Without(queue, done))
    BY <1>1 DEF Queued, ToSet
  <2> QED
    BY <1>1, <2>1, <2>2 DEF Queued
<1>10. HooksTypeOK'
  BY <1>1, <1>2, <1>8, <1>9 DEF HooksTypeOK, Drains
<1>11. Hot' = Hot
  BY <1>1 DEF Hot
<1>12. HotFilesAccounted' /\ QueuedDropped'
  BY <1>1, <1>4, <1>9, <1>11 DEF HooksInv, HotFilesAccounted, QueuedDropped
<1>13. DrainOf(t)'
  BY <1>7, <1>8 DEF DrainOf
<1> QED
  BY <1>1, <1>7, <1>10, <1>12, <1>13, HookStepKeeps


\* Steps that change only the request, the history or the thread's own drain.
LEMMA PlainHookSteps ==
  ASSUME HooksParameters, HooksInv, NEW t \in Workers,
         \/ RemovalFails(t) \/ TakeRequest(t) \/ DemoteNothing(t)
         \/ DemotionUnavailable(t) \/ DemotionStops(t)
  PROVE  HooksInv'
<1>1. /\ drain \in [Workers -> Drains] /\ requested \in BOOLEAN
      /\ excess \in 0 .. Cardinality(Digests) /\ running \in BOOLEAN
  BY SameFiniteSets DEF HooksInv, HooksTypeOK, Drains
<1>2. Cardinality(Hot) \in 0 .. Cardinality(Digests) /\ 0 \in 0 .. Cardinality(Digests)
  <2>1. Hot \in SUBSET Digests /\ {} \in SUBSET Digests
    BY DEF Hot
  <2>2. Cardinality(Digests) \in Nat
    BY DigestSubsets
  <2> QED
    BY <2>1, <2>2, DigestSubsets
<1>3. drain[t] \in Drains /\ drain = [drain EXCEPT ![t] = drain[t]]
  BY <1>1
<1>4. CASE RemovalFails(t)
  <2>1. /\ step[t] = "remove" /\ step' = [step EXCEPT ![t] = "request"]
        /\ drain' = [drain EXCEPT ![t] = NoDrain]
        /\ UNCHANGED <<blocks, files, queue, hotUp, requested, added, running, excess>>
    BY <1>4 DEF RemovalFails, StepTo, tables, demotionVars
  <2> QED
    BY <1>1, <2>1, NoDrainTyped, HookStepBeside DEF Steps, InHooks
<1>5. CASE TakeRequest(t)
  <2>1. /\ step[t] = "request" /\ requested' = FALSE
        /\ UNCHANGED <<blocks, files, queue, hotUp, added, drain, excess>>
        /\ \/ step' = [step EXCEPT ![t] = "demote"] /\ running' = running
           \/ step' = [step EXCEPT ![t] = "idle"] /\ running' = FALSE
    BY <1>5 DEF TakeRequest, StepTo, EndHooks, tables
  <2>2. CASE step' = [step EXCEPT ![t] = "demote"] /\ running' = running
    BY <1>1, <1>3, <2>1, <2>2, HookStepBeside DEF Steps, InHooks
  <2>3. CASE step' = [step EXCEPT ![t] = "idle"] /\ running' = FALSE
    BY <1>1, <1>3, <2>1, <2>3, HookStepBeside DEF Steps, InHooks
  <2> QED
    BY <2>1, <2>2, <2>3
<1>6. CASE \/ DemoteNothing(t) \/ DemotionUnavailable(t) \/ DemotionStops(t)
  <2>1. /\ step[t] = "demote" /\ requested' \in {requested, TRUE}
        /\ step' = [step EXCEPT ![t] = "idle"] /\ running' = FALSE
        /\ excess' \in {0, Cardinality(Hot)}
        /\ UNCHANGED <<blocks, files, queue, hotUp, added, drain>>
    BY <1>6, SameFiniteSets
    DEF DemoteNothing, DemotionUnavailable, DemotionStops, StepTo,
        EndHooks, tables, demotionVars
  <2>2. excess' \in 0 .. Cardinality(Digests) /\ requested' \in BOOLEAN
    BY <1>1, <1>2, <2>1
  <2> QED
    BY <1>1, <1>3, <2>1, <2>2, HookStepBeside DEF Steps, InHooks
<1> QED
  BY <1>4, <1>5, <1>6

\* A demoted block loses its row's claim and its file together.
LEMMA DemoteHooksInv ==
  ASSUME HooksParameters, HooksInv, NEW t \in Workers, Demote(t)
  PROVE  HooksInv'
<1>1. PICK d \in Hot : Moved({d})
  BY DEF Demote
<1>2. /\ step[t] = "demote" /\ step[t] \in InHooks
      /\ step' = [step EXCEPT ![t] = "idle"] /\ running' = FALSE
      /\ requested' = (requested \/ Cardinality(Hot) - 1 > HotMin)
      /\ excess' = 0
      /\ UNCHANGED <<queue, hotUp, added, drain>>
  BY DEF Demote, StepTo, EndHooks, InHooks
<1>3. /\ blocks' = [e \in Digests |-> IF e \in {d} THEN "cold" ELSE blocks[e]]
      /\ files' = files \ {d}
  BY <1>1 DEF Moved
<1>4. HooksTypeOK /\ step \in [Workers -> Steps]
      /\ blocks \in [Digests -> {"absent", "hot", "cold"}] /\ files \subseteq Digests
  BY DEF HooksInv, HooksTypeOK
<1>5. /\ blocks' \in [Digests -> {"absent", "hot", "cold"}] /\ files' \subseteq Digests
      /\ step' \in [Workers -> Steps] /\ step'[t] = "idle"
      /\ requested' \in BOOLEAN
  <2>1. blocks' \in [Digests -> {"absent", "hot", "cold"}] /\ files' \subseteq Digests
    BY <1>3, <1>4
  <2>2. step' \in [Workers -> Steps] /\ step'[t] = "idle"
    BY <1>2, <1>4 DEF Steps
  <2>3. requested' \in BOOLEAN
    BY <1>2
  <2> QED
    BY <2>1, <2>2, <2>3
<1>6. excess' \in 0 .. Cardinality(Digests)
  <2>1. Cardinality(Digests) \in Nat
    BY DigestSubsets
  <2> QED
    BY <1>2, <2>1, SameFiniteSets
<1>7. HooksTypeOK'
  BY <1>2, <1>4, <1>5, <1>6 DEF HooksTypeOK
<1>8. Queued' = Queued
  BY <1>2 DEF Queued, ToSet
<1>9. Hot' = Hot \ {d}
  BY <1>3, <1>4 DEF Hot
<1>10. HotFilesAccounted'
  BY <1>3, <1>8, <1>9 DEF HooksInv, HotFilesAccounted
<1>11. QueuedDropped'
  <2> SUFFICES ASSUME NEW e \in Queued PROVE blocks'[e] = "absent"
    BY <1>8 DEF QueuedDropped
  <2>1. blocks[e] = "absent" /\ e # d
    BY <1>1 DEF HooksInv, QueuedDropped, Hot
  <2>2. e \in Digests
    BY <1>4, MembersCounted DEF Queued, HooksTypeOK
  <2> QED
    BY <1>3, <2>1, <2>2
<1>12. DrainOf(t)'
  BY <1>5 DEF DrainOf
<1> QED
  BY <1>2, <1>7, <1>10, <1>11, <1>12, HookStepKeeps DEF Steps, InHooks

\* A tier goes or comes back.
LEMMA OutageHooksInv ==
  ASSUME HooksInv, Outage
  PROVE  HooksInv'
<1>1. /\ hotUp' \in BOOLEAN
      /\ UNCHANGED <<blocks, files, queue, requested, added, running, step, drain, excess>>
  BY DEF Outage, tables, demotionVars
<1>2. UNCHANGED <<Queued, Hot>>
  BY <1>1 DEF Queued, ToSet, Hot
<1>3. HooksTypeOK'
  BY <1>1 DEF HooksInv, HooksTypeOK
<1>4. OneInHooks' /\ QueuedDropped' /\ HotFilesAccounted'
  BY <1>1, <1>2 DEF HooksInv, OneInHooks, QueuedDropped, HotFilesAccounted
<1>5. DrainFits'
  BY <1>1, <1>2 DEF HooksInv, DrainFits, DrainOf, ToSet
<1> QED
  BY <1>3, <1>4, <1>5 DEF HooksInv

\* A new process begins with nobody in the hooks.
LEMMA FreshHooksInv ==
  ASSUME HooksParameters, HooksInv, Fresh,
         blocks' \in [Digests -> {"absent", "hot", "cold"}], files' \subseteq Digests,
         queue' \in Seq(Digests), hotUp' \in BOOLEAN,
         excess' \in 0 .. Cardinality(Digests),
         HotFilesAccounted', QueuedDropped'
  PROVE  HooksInv'
<1>1. /\ requested' = FALSE /\ added' = 0 /\ running' = FALSE
      /\ step' = [t \in Workers |-> "idle"]
      /\ drain' = [t \in Workers |-> NoDrain]
  BY DEF Fresh
<1>2. added' \in 0 .. (HotMax - 1)
  BY <1>1, ParametersTyped
<1>3. step' \in [Workers -> Steps] /\ drain' \in [Workers -> Drains]
  BY <1>1, NoDrainTyped DEF Steps
<1>4. requested' \in BOOLEAN /\ running' \in BOOLEAN
  BY <1>1
<1>5. HooksTypeOK'
  BY <1>2, <1>3, <1>4, SameFiniteSets DEF HooksTypeOK, Drains
<1>6. \A t \in Workers : step'[t] = "idle"
  BY <1>1
<1>7. OneInHooks' /\ DrainFits'
  BY <1>6 DEF OneInHooks, DrainFits, DrainOf, InHooks
<1> QED
  BY <1>5, <1>7 DEF HooksInv

LEMMA CrashHooksInv ==
  ASSUME HooksParameters, HooksInv, Crash
  PROVE  HooksInv'
<1>1. /\ Fresh /\ excess' = Cardinality(Hot)
      /\ UNCHANGED <<blocks, files, queue, hotUp>>
  BY SameFiniteSets DEF Crash, tables
<1>2. UNCHANGED <<Queued, Hot>>
  BY <1>1 DEF Queued, ToSet, Hot
<1>3. QueuedDropped' /\ HotFilesAccounted'
  BY <1>1, <1>2 DEF HooksInv, QueuedDropped, HotFilesAccounted
<1>4. Cardinality(Hot) \in 0 .. Cardinality(Digests)
  BY DigestSubsets DEF Hot
<1>5. /\ blocks' \in [Digests -> {"absent", "hot", "cold"}] /\ files' \subseteq Digests
      /\ queue' \in Seq(Digests) /\ hotUp' \in BOOLEAN
  BY <1>1 DEF HooksInv, HooksTypeOK
<1> QED
  BY <1>1, <1>3, <1>4, <1>5, FreshHooksInv

LEMMA CloseHooksInv ==
  ASSUME HooksParameters, HooksInv, CloseAndMount
  PROVE  HooksInv'
<1> DEFINE gone == Deletable(Queued)
<1>1. PICK S \in SUBSET (Hot \ Stuck) :
        /\ blocks' = [d \in Digests |-> IF d \in S THEN "cold" ELSE blocks[d]]
        /\ files' = (files \ S) \ gone
        /\ excess' = Cardinality(Hot \ S)
  BY DEF CloseAndMount
<1>2. Fresh /\ queue' = Without(queue, gone) /\ hotUp' = hotUp
  BY DEF CloseAndMount
<1>3. gone \subseteq Queued
  BY DEF Deletable
<1> HIDE DEF gone
<1>4. /\ blocks \in [Digests -> {"absent", "hot", "cold"}] /\ files \subseteq Digests
      /\ queue \in Seq(Digests) /\ hotUp \in BOOLEAN
  BY DEF HooksInv, HooksTypeOK
<1>5. queue' \in Seq(Digests) /\ Queued' = Queued \ gone
  <2>1. /\ Without(queue, gone) \in Seq(Digests)
        /\ ToSet(Without(queue, gone)) = ToSet(queue) \ gone
    BY <1>4, WithoutEntries
  <2>2. Queued' = ToSet(Without(queue, gone))
    BY <1>2 DEF Queued, ToSet
  <2> QED
    BY <1>2, <2>1, <2>2 DEF Queued
<1>6. Hot' = Hot \ S
  BY <1>1, <1>4 DEF Hot
<1>7. gone \cap Hot = {}
  BY <1>3 DEF HooksInv, QueuedDropped, Hot
<1>8. HotFilesAccounted'
  BY <1>1, <1>5, <1>6, <1>7 DEF HooksInv, HotFilesAccounted
<1>9. QueuedDropped'
  <2> SUFFICES ASSUME NEW e \in Queued PROVE blocks'[e] = "absent"
    BY <1>5 DEF QueuedDropped
  <2>1. blocks[e] = "absent" /\ e \notin S
    BY <1>1 DEF HooksInv, QueuedDropped, Hot
  <2>2. e \in Digests
    BY <1>4, MembersCounted DEF Queued
  <2> QED
    BY <1>1, <2>1, <2>2
<1>10. excess' \in 0 .. Cardinality(Digests)
  <2>1. Hot \ S \in SUBSET Digests
    BY DEF Hot
  <2> QED
    BY <1>1, <2>1, DigestSubsets, SameFiniteSets
<1>11. blocks' \in [Digests -> {"absent", "hot", "cold"}] /\ files' \subseteq Digests
  BY <1>1, <1>4
<1> QED
  BY <1>2, <1>4, <1>5, <1>8, <1>9, <1>10, <1>11, FreshHooksInv

LEMMA NextHooksInv ==
  ASSUME HooksParameters, HooksInv, [HooksNext]_(hooksVars)
  PROVE  HooksInv'
<1>1. CASE UNCHANGED hooksVars
  <2>1. UNCHANGED <<blocks, files, queue, hotUp, requested, added, running, step, drain, excess>>
    BY <1>1 DEF hooksVars, tables, demotionVars
  <2>2. UNCHANGED <<Queued, Hot>>
    BY <2>1 DEF Queued, ToSet, Hot
  <2>3. HooksTypeOK'
    BY <2>1 DEF HooksInv, HooksTypeOK
  <2>4. OneInHooks' /\ QueuedDropped' /\ HotFilesAccounted'
    BY <2>1, <2>2 DEF HooksInv, OneInHooks, QueuedDropped, HotFilesAccounted
  <2>5. DrainFits'
    BY <2>1, <2>2 DEF HooksInv, DrainFits, DrainOf, ToSet
  <2> QED
    BY <2>3, <2>4, <2>5 DEF HooksInv
<1>2. ASSUME NEW t \in Workers, HookStep(t) PROVE HooksInv'
  BY <1>2, EnterHooksInv, ReadPendingHooksInv, UnlinkRowsHooksInv, RemoveRowsHooksInv,
     PlainHookSteps, DemoteHooksInv DEF HookStep
<1> QED
  BY <1>1, <1>2, CommitHooksInv, OutageHooksInv, CrashHooksInv, CloseHooksInv
  DEF HooksNext

LEMMA HooksAlwaysSound ==
  ASSUME HooksParameters PROVE HooksSpec => []HooksInv
<1>1. HooksInit => HooksInv
  BY InitHooksInv
<1>2. HooksInv /\ [HooksNext]_(hooksVars) => HooksInv'
  BY NextHooksInv
<1> QED
  BY <1>1, <1>2, PTL DEF HooksSpec

\* Types of the tables, the flags and the drains, for any threads and digests.
THEOREM HooksTypesKept == HooksSpec => []HooksTypeOK
<1>0. HooksParameters
  BY AfterCommitAssumption
<1> USE <1>0
<1>1. HooksInv => HooksTypeOK
  BY DEF HooksInv
<1> QED
  BY <1>1, HooksAlwaysSound, PTL

\* A hot file is a hot block's or queued, and no hot block has lost its file, as long as no
\* block is stored again while its file is queued (Store of AfterCommit leaves that out, see
\* truncate_reuse of BlockTiering), over drains, refused unlinks, crashes and remounts.
THEOREM HooksHotFilesAccounted == HooksSpec => []HotFilesAccounted
<1>0. HooksParameters
  BY AfterCommitAssumption
<1> USE <1>0
<1>1. HooksInv => HotFilesAccounted
  BY DEF HooksInv
<1> QED
  BY <1>1, HooksAlwaysSound, PTL


(***************************************************************************)
(* The high watermark.                                                     *)
(***************************************************************************)
LEMMA HotCounted ==
  ASSUME HooksParameters, HooksInv
  PROVE  /\ Cardinality(Hot) \in Nat /\ IsFiniteSet(Hot)
         /\ added \in Nat /\ excess \in Nat /\ HotMax \in Nat \ {0} /\ HotMin \in 0 .. HotMax
         /\ Cardinality(Hot) = Cardinality(Hot)
<1>1. Hot \in SUBSET Digests
  BY DEF Hot
<1>2. added \in 0 .. (HotMax - 1) /\ excess \in 0 .. Cardinality(Digests)
  BY DEF HooksInv, HooksTypeOK
<1>3. HotMax \in Nat \ {0} /\ HotMin \in 0 .. HotMax
  BY ParametersTyped
<1>4. Cardinality(Hot) \in Nat /\ IsFiniteSet(Hot)
  BY <1>1, DigestSubsets
<1>5. excess \in Nat
  BY <1>2
<1> QED
  BY <1>2, <1>3, <1>4, <1>5, SameFiniteSets

\* The property in numbers.
Capped(n, add, exc) == n <= HotMax + add \/ n <= exc + add
Asked == requested \/ \E t \in Workers : step[t] = "demote"

LEMMA HotTierBoundedIs ==
  ASSUME HooksParameters, HooksInv
  PROVE  HotTierBounded <=> Asked \/ Capped(Cardinality(Hot), added, excess)
BY HotCounted DEF HotTierBounded, Asked, Capped

LEMMA CommitBounded ==
  ASSUME HooksParameters, HooksInv, HooksInv', NEW t \in Workers, Commits(t),
         Asked \/ Capped(Cardinality(Hot), added, excess)
  PROVE  Asked' \/ Capped(Cardinality(Hot'), added', excess')
<1> DEFINE n == Cardinality(Hot)
<1>1. /\ n \in Nat /\ added \in Nat /\ excess \in Nat /\ HotMax \in Nat \ {0}
      /\ IsFiniteSet(Hot)
  BY HotCounted
<1>2. /\ step \in [Workers -> Steps]
      /\ blocks \in [Digests -> {"absent", "hot", "cold"}]
      /\ step[t] = "idle" /\ step' = [step EXCEPT ![t] = "committed"] /\ excess' = excess
  BY DEF HooksInv, HooksTypeOK, Commits, StepTo
<1>3. \A u \in Workers : step[u] = "demote" => step'[u] = "demote"
  BY <1>2
<1>4. ASSUME Cardinality(Hot') \in Nat, Cardinality(Hot') <= n,
             UNCHANGED <<requested, added>>
      PROVE  Asked' \/ Capped(Cardinality(Hot'), added', excess')
  <2>1. CASE Asked
    BY <1>3, <1>4, <2>1 DEF Asked
  <2>2. CASE Capped(n, added, excess)
    <3> HIDE DEF n
    <3> QED
      BY <1>1, <1>2, <1>4, <2>2 DEF Capped
  <2> QED
    BY <2>1, <2>2
<1>5. CASE UNCHANGED <<tables, demotionVars>>
  <2>1. Hot' = Hot /\ UNCHANGED <<requested, added>>
    BY <1>5 DEF tables, demotionVars, Hot
  <2> QED
    BY <1>1, <1>4, <2>1
<1>6. ASSUME NEW d \in Digests, Store(d)
      PROVE  Asked' \/ Capped(Cardinality(Hot'), added', excess')
  <2>1. CASE added + 1 >= HotMax
    <3>1. requested' = TRUE
      BY <1>6, <2>1 DEF Store, NoteHotWrite
    <3> QED
      BY <3>1 DEF Asked
  <2>2. CASE ~ (added + 1 >= HotMax)
    <3>1. added' = added + 1 /\ requested' = requested
      BY <1>6, <2>2 DEF Store, NoteHotWrite
    <3>2. blocks' = [blocks EXCEPT ![d] = "hot"]
      BY <1>6 DEF Store
    <3>3. Hot' = Hot \cup {d}
      BY <1>2, <3>2 DEF Hot
    <3>4. Cardinality(Hot') <= n + 1 /\ Cardinality(Hot') \in Nat
      <4>1. Cardinality(Hot') = IF d \in Hot THEN n ELSE n + 1
        BY <1>1, <3>3, FS_AddElement
      <4> HIDE DEF n
      <4> QED
        BY <1>1, <4>1
    <3>5. CASE Asked
      BY <1>3, <3>1, <3>5 DEF Asked
    <3>6. CASE Capped(n, added, excess)
      <4> DEFINE hot == Cardinality(Hot')
      <4>1. /\ hot \in Nat /\ hot <= n + 1 /\ added' = added + 1 /\ excess' = excess
            /\ n <= HotMax + added \/ n <= excess + added
            /\ HotMax \in Nat
        BY <1>1, <1>2, <3>1, <3>4, <3>6 DEF Capped
      <4> HIDE DEF n, hot
      <4>2. hot <= HotMax + added' \/ hot <= excess' + added'
        BY <1>1, <4>1
      <4> QED
        BY <4>2 DEF Capped, hot
    <3> QED
      BY <3>5, <3>6
  <2> QED
    BY <2>1, <2>2
<1>7. ASSUME NEW d \in Digests, CopyUp(d) PROVE Asked'
  BY <1>7 DEF CopyUp, Asked
<1>8. ASSUME NEW S \in SUBSET Digests, Drop(S)
      PROVE  Asked' \/ Capped(Cardinality(Hot'), added', excess')
  <2>1. Hot' \in SUBSET Hot /\ UNCHANGED <<requested, added>>
    BY <1>2, <1>8 DEF Drop, Hot, demotionVars
  <2>2. Cardinality(Hot') <= n /\ Cardinality(Hot') \in Nat
    BY <1>1, <2>1, FS_Subset, FS_CardinalityType
  <2> QED
    BY <1>4, <2>1, <2>2
<1> QED
  BY <1>5, <1>6, <1>7, <1>8 DEF Commits

\* The request is taken by the thread that then demotes, and a pass that ends above
\* the high watermark asks for another or records what it leaves.
LEMMA HookStepBounded ==
  ASSUME HooksParameters, HooksInv, NEW t \in Workers, HookStep(t),
         Asked \/ Capped(Cardinality(Hot), added, excess)
  PROVE  Asked' \/ Capped(Cardinality(Hot'), added', excess')
<1> DEFINE n == Cardinality(Hot)
<1>1. /\ n \in Nat /\ added \in Nat /\ excess \in Nat /\ HotMax \in Nat \ {0}
      /\ HotMin \in 0 .. HotMax /\ IsFiniteSet(Hot) /\ Cardinality(Hot) = n
  BY HotCounted
<1>2. /\ step \in [Workers -> Steps]
      /\ blocks \in [Digests -> {"absent", "hot", "cold"}]
  BY DEF HooksInv, HooksTypeOK
<1>3. CASE \/ EnterHooks(t) \/ ReadPending(t) \/ UnlinkRows(t)
           \/ RemoveRows(t) \/ RemovalFails(t)
  <2>1. /\ UNCHANGED <<blocks, requested, added, excess>> /\ step[t] # "demote"
        /\ \E next \in Steps : step' = [step EXCEPT ![t] = next]
    BY <1>3
    DEF EnterHooks, ReadPending, UnlinkRows, RemoveRows,
        RemovalFails, StepTo, tables, demotionVars, Steps
  <2>2. Hot' = Hot
    BY <2>1 DEF Hot
  <2>3. \A u \in Workers : step[u] = "demote" => step'[u] = "demote"
    BY <1>2, <2>1
  <2>4. CASE Asked
    BY <2>1, <2>3, <2>4 DEF Asked
  <2> QED
    BY <2>1, <2>2, <2>4 DEF Capped
<1>4. CASE TakeRequest(t)
  <2>1. /\ step[t] = "request" /\ UNCHANGED <<blocks, added, excess>>
        /\ IF requested THEN step' = [step EXCEPT ![t] = "demote"]
           ELSE step' = [step EXCEPT ![t] = "idle"]
    BY <1>4 DEF TakeRequest, StepTo, EndHooks, tables
  <2>2. Hot' = Hot
    BY <2>1 DEF Hot
  <2>3. CASE requested
    <3>1. step'[t] = "demote"
      BY <1>2, <2>1, <2>3
    <3> QED
      BY <3>1 DEF Asked
  <2>4. CASE ~requested
    <3>1. \A u \in Workers : step[u] = "demote" => step'[u] = "demote"
      BY <1>2, <2>1, <2>4
    <3>2. CASE Asked
      BY <2>4, <3>1, <3>2 DEF Asked
    <3> QED
      BY <2>1, <2>2, <3>2 DEF Capped
  <2> QED
    BY <2>3, <2>4
<1>5. CASE Demote(t)
  <2>1. PICK d \in Hot : Moved({d})
    BY <1>5 DEF Demote
  <2>2. requested' = (requested \/ n - 1 > HotMin) /\ added' = added /\ excess' = 0
    BY <1>1, <1>5 DEF Demote
  <2>3. Hot' = Hot \ {d}
    BY <1>2, <2>1 DEF Moved, Hot
  <2>4. Cardinality(Hot') = n - 1
    BY <1>1, <2>3, FS_RemoveElement
  <2>5. CASE n - 1 > HotMin
    BY <2>2, <2>5 DEF Asked
  <2>6. CASE ~ (n - 1 > HotMin)
    <3> HIDE DEF n
    <3> QED
      BY <1>1, <2>2, <2>4, <2>6 DEF Capped
  <2> QED
    BY <2>5, <2>6
<1>6. CASE DemoteNothing(t) \/ DemotionStops(t)
  <2>1. /\ blocks' = blocks /\ added' = added
        /\ \/ n <= HotMax
           \/ excess' = n
    BY <1>1, <1>6 DEF DemoteNothing, DemotionStops, tables,
                      demotionVars
  <2>2. Hot' = Hot
    BY <2>1 DEF Hot
  <2>3. Capped(n, added', excess')
    <3> HIDE DEF n
    <3> QED
      BY <1>1, <2>1 DEF Capped
  <2> QED
    BY <2>2, <2>3
<1>7. CASE DemotionUnavailable(t)
  BY <1>7 DEF DemotionUnavailable, Asked
<1> QED
  BY <1>3, <1>4, <1>5, <1>6, <1>7 DEF HookStep

LEMMA NextBounded ==
  ASSUME HooksParameters, HooksInv, [HooksNext]_(hooksVars),
         Asked \/ Capped(Cardinality(Hot), added, excess)
  PROVE  Asked' \/ Capped(Cardinality(Hot'), added', excess')
<1>1. HooksInv'
  BY NextHooksInv
<1>2. CASE UNCHANGED hooksVars \/ Outage
  <2>1. UNCHANGED <<blocks, requested, added, step, excess>>
    BY <1>2 DEF hooksVars, tables, demotionVars, Outage
  <2>2. Hot' = Hot
    BY <2>1 DEF Hot
  <2> QED
    BY <2>1, <2>2 DEF Asked, Capped
<1>3. CASE Crash \/ CloseAndMount
  <2>1. added' = 0 /\ excess' = Cardinality(Hot')
    <3>1. CASE Crash
      <4>1. added' = 0 /\ excess' = Cardinality(Hot) /\ blocks' = blocks
        BY <3>1, SameFiniteSets DEF Crash, Fresh, tables
      <4>2. Hot' = Hot
        BY <4>1 DEF Hot
      <4> QED
        BY <4>1, <4>2
    <3>2. CASE CloseAndMount
      <4>1. PICK S \in SUBSET (Hot \ Stuck) :
              /\ blocks' = [d \in Digests |-> IF d \in S THEN "cold" ELSE blocks[d]]
              /\ excess' = Cardinality(Hot \ S)
        BY <3>2, SameFiniteSets DEF CloseAndMount
      <4>2. added' = 0
        BY <3>2 DEF CloseAndMount, Fresh
      <4>3. Hot' = Hot \ S
        BY <4>1 DEF Hot
      <4> QED
        BY <4>1, <4>2, <4>3
    <3> QED
      BY <1>3, <3>1, <3>2
  <2>2. Hot' \in SUBSET Digests
    BY DEF Hot
  <2>3. Cardinality(Hot') \in Nat
    BY <2>2, DigestSubsets
  <2> QED
    BY <2>1, <2>3 DEF Capped
<1> QED
  BY <1>1, <1>2, <1>3, CommitBounded, HookStepBounded DEF HooksNext

\* No demotion request gets lost.  What is proved is exactly this: a demotion is requested or
\* under way, or the number of hot blocks is at most HotMax + added or at most excess + added.
\* `added` < hot_max_bytes counts what note_hot_write has seen since it last requested one,
\* and `excess` is what the last pass that stopped short (no candidate, a transaction that
\* raised) or the last mount left.  So up to hot_max_bytes more may stand above the watermark,
\* or above that excess, without a request (note_hot_write, demote_cold_blocks).
THEOREM HooksHotTierBounded == HooksSpec => []HotTierBounded
<1>0. HooksParameters
  BY AfterCommitAssumption
<1> USE <1>0
<1> DEFINE Inv == HooksInv /\ (Asked \/ Capped(Cardinality(Hot), added, excess))
<1>1. HooksInit => Inv
  <2> SUFFICES ASSUME HooksInit PROVE Inv
    OBVIOUS
  <2>1. HooksInv
    BY InitHooksInv
  <2>2. Hot = {} /\ added = 0 /\ excess = 0
    BY DEF HooksInit, Hot
  <2>3. Capped(Cardinality(Hot), added, excess)
    BY <2>2, FS_EmptySet, ParametersTyped DEF Capped
  <2> QED
    BY <2>1, <2>3
<1>2. Inv /\ [HooksNext]_(hooksVars) => Inv'
  <2> SUFFICES ASSUME Inv, [HooksNext]_(hooksVars) PROVE Inv'
    OBVIOUS
  <2>1. HooksInv'
    BY NextHooksInv
  <2>2. Asked' \/ Capped(Cardinality(Hot'), added', excess')
    BY NextBounded
  <2> QED
    BY <2>1, <2>2 DEF Capped
<1>3. Inv => HotTierBounded
  BY HotTierBoundedIs
<1> QED
  BY <1>1, <1>2, <1>3, PTL DEF HooksSpec
=============================================================================
