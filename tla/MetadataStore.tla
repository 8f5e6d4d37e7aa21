--------------------------- MODULE MetadataStore ----------------------------
(***************************************************************************)
(* metadata/store.py, connection.py and access_stats.py in the mounted     *)
(* process: the outermost transactions of threads, from the transaction    *)
(* lock (ReadWriteLock) over the pool of connections to COMMIT or          *)
(* ROLLBACK, and the deferred access counts that ride on them.             *)
(*                                                                         *)
(* A nested transaction uses the connection of the outer one and changes   *)
(* nothing here.  The accesses of all blocks are counted together.  Time-  *)
(* outs are left out: the code acquires connections without one.  The pool *)
(* is closed only after the last transaction, at the end of a mount.       *)
(***************************************************************************)
EXTENDS ReadWriteLock, Sequences, FiniteSetsExt

CONSTANTS
  Connections,     \* the connections the pool may hold: max_size of them
  NoConnection,
  MaxAccesses      \* bound on the accesses recorded

ASSUME StoreAssumption ==
  /\ Connections # {} /\ IsFiniteSet(Connections)
  /\ NoConnection \notin Connections
  /\ MaxAccesses \in Nat

VARIABLES
  stage,        \* how far the transaction of each thread is
  conn,         \* the connection of each thread
  created,      \* connections that are open or being opened: _created counts them
  idle,         \* _available, a LIFO queue: the connection on top first
  begun,        \* the SQLite transaction that is open on each connection
  deferred,     \* accesses in the buffers of access_stats.py
  inFlight,     \* accesses written by the open transaction of each connection
  committed,    \* accesses in the committed tables
  recorded      \* accesses recorded so far

lockVars == vars
poolVars == <<conn, created, idle>>
accessVars == <<deferred, inFlight, committed, recorded>>
storeVars == <<lockVars, stage, poolVars, begun, accessVars>>

Stages == {"out", "acquire", "empty", "opening", "waiting", "begin", "body",
           "flushed", "release", "leave"}

StoreTypeOK ==
  /\ TypeOK
  /\ stage \in [Threads -> Stages]
  /\ conn \in [Threads -> Connections \cup {NoConnection}]
  /\ created \subseteq Connections
  /\ idle \in Seq(Connections)
  /\ begun \in [Connections -> {"none", "read", "write"}]
  /\ deferred \in Nat /\ committed \in Nat /\ recorded \in Nat
  /\ inFlight \in [Connections -> Nat]

\* A mutated form: the connection that created the schema is not kept.
EmptyPoolInit ==
  /\ Init
  /\ stage = [t \in Threads |-> "out"]
  /\ conn = [t \in Threads |-> NoConnection]
  /\ created = {} /\ idle = <<>>
  /\ begun = [c \in Connections |-> "none"]
  /\ deferred = 0 /\ committed = 0 /\ recorded = 0
  /\ inFlight = [c \in Connections |-> 0]

\* setup() has opened a connection and given it back.
StoreInit ==
  /\ Init
  /\ stage = [t \in Threads |-> "out"]
  /\ conn = [t \in Threads |-> NoConnection]
  /\ \E c \in Connections : created = {c} /\ idle = <<c>>
  /\ begun = [c \in Connections |-> "none"]
  /\ deferred = 0 /\ committed = 0 /\ recorded = 0
  /\ inFlight = [c \in Connections |-> 0]

Go(t, next) == stage' = [stage EXCEPT ![t] = next]

(***************************************************************************)
(* The lock, first in and last out.                                        *)
(***************************************************************************)
LockStep(t) ==
  /\ stage[t] = "out"
  /\ AcquireRead(t) \/ StartWrite(t) \/ RetryWrite(t)
  /\ IF pc'[t] \in {"reading", "writing"} THEN Go(t, "acquire") ELSE UNCHANGED stage
  /\ UNCHANGED <<poolVars, begun, accessVars>>

Leave(t) ==
  /\ stage[t] = "leave"
  /\ ReleaseRead(t) \/ ReleaseWrite(t)
  /\ Go(t, "out")
  /\ UNCHANGED <<poolVars, begun, accessVars>>

(***************************************************************************)
(* The pool.                                                               *)
(***************************************************************************)
\* An idle connection, at once or after waiting on the queue.
TakeIdle(t) ==
  /\ stage[t] \in {"acquire", "waiting"} /\ idle # <<>>
  /\ conn' = [conn EXCEPT ![t] = Head(idle)]
  /\ idle' = Tail(idle)
  /\ Go(t, "begin")
  /\ UNCHANGED <<lockVars, created, begun, accessVars>>

FindNone(t) ==
  /\ stage[t] = "acquire" /\ idle = <<>>
  /\ Go(t, "empty")
  /\ UNCHANGED <<lockVars, poolVars, begun, accessVars>>

\* A connection may have been given back since: release needs no condition.
Reserve(t) ==
  /\ stage[t] = "empty"
  /\ \E c \in Connections \ created :
       /\ created' = created \cup {c}
       /\ conn' = [conn EXCEPT ![t] = c]
  /\ Go(t, "opening")
  /\ UNCHANGED <<lockVars, idle, begun, accessVars>>

Wait(t) ==
  /\ stage[t] = "empty" /\ created = Connections
  /\ Go(t, "waiting")
  /\ UNCHANGED <<lockVars, poolVars, begun, accessVars>>

Open(t) ==
  /\ stage[t] = "opening"
  /\ Go(t, "begin")
  /\ UNCHANGED <<lockVars, poolVars, begun, accessVars>>

\* The slot is free again.  The condition that is notified has no waiters:
\* who waits, waits on the queue.
OpenFails(t) ==
  /\ stage[t] = "opening"
  /\ created' = created \ {conn[t]}
  /\ conn' = [conn EXCEPT ![t] = NoConnection]
  /\ Go(t, "leave")
  /\ UNCHANGED <<lockVars, idle, begun, accessVars>>

\* A mutated form: the connection that rested longest is used next.
ReleaseFifo(t) ==
  /\ stage[t] = "release"
  /\ idle' = Append(idle, conn[t])
  /\ conn' = [conn EXCEPT ![t] = NoConnection]
  /\ Go(t, "leave")
  /\ UNCHANGED <<lockVars, created, begun, accessVars>>

Release(t) ==
  /\ stage[t] = "release"
  /\ idle' = <<conn[t]>> \o idle
  /\ conn' = [conn EXCEPT ![t] = NoConnection]
  /\ Go(t, "leave")
  /\ UNCHANGED <<lockVars, created, begun, accessVars>>

(***************************************************************************)
(* The transaction of a thread that has a connection.                      *)
(***************************************************************************)
Mode(t) == IF pc[t] = "writing" THEN "write" ELSE "read"

\* A connection of this process other than c has a write transaction open.
WriterBeside(c) == \E d \in Connections \ {c} : begun[d] = "write"

\* ROLLBACK: what the transaction wrote is gone.
RolledBack(c) ==
  /\ begun' = [begun EXCEPT ![c] = "none"]
  /\ inFlight' = [inFlight EXCEPT ![c] = 0]
  /\ UNCHANGED <<deferred, committed, recorded>>

Begin(t) ==
  /\ stage[t] = "begin"
  /\ begun[conn[t]] = "none"
  /\ Mode(t) = "write" => ~WriterBeside(conn[t])
  /\ begun' = [begun EXCEPT ![conn[t]] = Mode(t)]
  /\ Go(t, "body")
  /\ UNCHANGED <<lockVars, poolVars, accessVars>>

\* BEGIN raises: a transaction is open on the connection already, or another
\* writer, of this process or of another one, outlasts the busy timeout.
BeginFails(t) ==
  /\ stage[t] = "begin"
  /\ begun[conn[t]] # "none" \/ Mode(t) = "write"
  /\ RolledBack(conn[t])
  /\ Go(t, "release")
  /\ UNCHANGED <<lockVars, poolVars>>

BodyFails(t) ==
  /\ stage[t] = "body"
  /\ RolledBack(conn[t])
  /\ Go(t, "release")
  /\ UNCHANGED <<lockVars, poolVars>>

EndRead(t) ==
  /\ stage[t] = "body" /\ Mode(t) = "read"
  /\ begun' = [begun EXCEPT ![conn[t]] = "none"]
  /\ Go(t, "release")
  /\ UNCHANGED <<lockVars, poolVars, accessVars>>

\* flush_deferred_accesses: the buffers are emptied, their contents written.
Flush(t) ==
  /\ inFlight' = [inFlight EXCEPT ![conn[t]] = @ + deferred]
  /\ deferred' = 0
  /\ UNCHANGED <<committed, recorded>>

\* demote_cold_blocks flushes in the middle of its transaction.
FlushInBody(t) ==
  /\ stage[t] = "body" /\ Mode(t) = "write" /\ deferred > 0
  /\ Flush(t)
  /\ UNCHANGED <<lockVars, stage, poolVars, begun>>

EndWrite(t) ==
  /\ stage[t] = "body" /\ Mode(t) = "write"
  /\ Flush(t)
  /\ Go(t, "flushed")
  /\ UNCHANGED <<lockVars, poolVars, begun>>

\* A mutated form: the buffers are cleared when their contents are safe, and
\* with them what was recorded meanwhile.
CommitClearing(t) ==
  /\ stage[t] = "flushed"
  /\ begun' = [begun EXCEPT ![conn[t]] = "none"]
  /\ committed' = committed + inFlight[conn[t]]
  /\ inFlight' = [inFlight EXCEPT ![conn[t]] = 0]
  /\ deferred' = 0
  /\ Go(t, "release")
  /\ UNCHANGED <<lockVars, poolVars, recorded>>

Commit(t) ==
  /\ stage[t] = "flushed"
  /\ begun' = [begun EXCEPT ![conn[t]] = "none"]
  /\ committed' = committed + inFlight[conn[t]]
  /\ inFlight' = [inFlight EXCEPT ![conn[t]] = 0]
  /\ Go(t, "release")
  /\ UNCHANGED <<lockVars, poolVars, deferred, recorded>>

\* The statements of the flush fail: ROLLBACK.
FlushFails(t) ==
  /\ stage[t] = "flushed"
  /\ RolledBack(conn[t])
  /\ Go(t, "release")
  /\ UNCHANGED <<lockVars, poolVars>>

\* COMMIT fails.  It stands outside the "try", so nothing is rolled back: the
\* connection goes back to the pool with its transaction open, unless SQLite
\* itself has rolled it back, which FlushFails covers.
CommitFails(t) ==
  /\ stage[t] = "flushed"
  /\ Go(t, "release")
  /\ UNCHANGED <<lockVars, poolVars, begun, accessVars>>

\* defer_block_accesses, after a read or within a write transaction.
Record(t) ==
  /\ (stage[t] = "out" /\ pc[t] = "idle") \/ stage[t] = "body"
  /\ recorded < MaxAccesses
  /\ recorded' = recorded + 1
  /\ deferred' = deferred + 1
  /\ UNCHANGED <<lockVars, stage, poolVars, begun, inFlight, committed>>

\* The steps of a transaction under way.
Proceed(t) ==
  \/ TakeIdle(t) \/ FindNone(t) \/ Reserve(t) \/ Wait(t)
  \/ Open(t) \/ OpenFails(t)
  \/ Begin(t) \/ BeginFails(t) \/ BodyFails(t) \/ EndRead(t) \/ EndWrite(t)
  \/ Commit(t) \/ FlushFails(t) \/ CommitFails(t) \/ Release(t) \/ Leave(t)

StoreNext ==
  \E t \in Threads : LockStep(t) \/ Proceed(t) \/ FlushInBody(t) \/ Record(t)

StoreSpec == StoreInit /\ [][StoreNext]_storeVars

\* A transaction that has the lock goes on and ends, and a woken thread gets the
\* mutex of the lock.  No thread has to begin a transaction.
StoreFairness ==
  \A t \in Threads :
    /\ WF_storeVars(Proceed(t))
    /\ WF_storeVars(pc[t] \in {"woken-read", "woken-write"} /\ LockStep(t))

StoreFairSpec == StoreSpec /\ StoreFairness

(***************************************************************************)
(* Properties.  Those of ReadWriteLock are checked of this specification,  *)
(* where a thread that holds the lock may have to wait for a connection.   *)
(***************************************************************************)
\* BEGIN IMMEDIATE never meets a write transaction of this process: what a
\* failed COMMIT left open is rolled back before the next writer begins, because
\* its connection is given back before the lock and is the next one to be used.
OneWriterInSQLite ==
  \A t \in Threads :
    stage[t] = "begin" /\ Mode(t) = "write" => ~WriterBeside(conn[t])

\* A thread that waits on the queue of the pool waits for a connection that
\* another thread has open and will give back; connections that cannot be opened
\* do not leave it waiting, with the lock held, for nothing.
WaitersAreServed ==
  \A t \in Threads :
    stage[t] = "waiting" /\ idle = <<>> =>
      \E u \in Threads : stage[u] \in {"begin", "body", "flushed", "release"}

\* The accesses that are buffered, written or committed.
Counted ==
  deferred + committed + FoldSet(LAMBDA c, sum : inFlight[c] + sum, 0, Connections)

\* Every access recorded is counted once, and is lost only with the transaction
\* that had taken it out of the buffers and is rolled back.
AccessesCounted ==
  [][\/ Counted' - Counted = recorded' - recorded
     \/ /\ UNCHANGED <<recorded, committed>>
        /\ \E c \in Connections :
             /\ begun[c] = "write" /\ begun'[c] = "none"
             /\ inFlight[c] > 0
             /\ Counted' = Counted - inFlight[c]]_storeVars

\* access_stats.py:18: a transaction whose body raises does not touch the
\* buffers, so what they held is written by a later one.
BodyFailureKeepsAccesses ==
  [][(\E t \in Threads : BodyFails(t)) => Counted' = Counted]_storeVars
=============================================================================
