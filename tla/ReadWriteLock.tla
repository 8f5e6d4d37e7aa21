--------------------------- MODULE ReadWriteLock ----------------------------
(***************************************************************************)
(* metadata/connection.py: the lock of MetadataStore transactions in the   *)
(* mounted process, a monitor of one condition variable.                   *)
(*                                                                         *)
(* A thread evaluates its waiting condition with the mutex held, so a test *)
(* and what follows it are one step.  Condition.wait puts the thread into  *)
(* the wait set ("blocked"); notify_all takes every thread out of it, and  *)
(* each tests again when it has the mutex ("woken").  A thread that holds  *)
(* the lock does not ask for it again: MetadataStore._transaction reuses   *)
(* the open transaction, or raises for a write inside a read.              *)
(***************************************************************************)
EXTENDS Naturals, FiniteSets

CONSTANT Threads

ASSUME ThreadsAssumption == IsFiniteSet(Threads)

VARIABLES
  pc,               \* what each thread does
  readers,          \* _readers
  writer,           \* _writer
  waitingWriters    \* _waiting_writers

vars == <<pc, readers, writer, waitingWriters>>

PcValues == {"idle", "blocked-read", "woken-read", "reading",
             "blocked-write", "woken-write", "writing"}

TypeOK ==
  /\ pc \in [Threads -> PcValues]
  /\ readers \in Nat /\ waitingWriters \in Nat
  /\ writer \in BOOLEAN

Init ==
  /\ pc = [t \in Threads |-> "idle"]
  /\ readers = 0 /\ waitingWriters = 0
  /\ writer = FALSE

MoveTo(t, state) == pc' = [pc EXCEPT ![t] = state]

Woken(state) ==
  CASE state = "blocked-read"  -> "woken-read"
    [] state = "blocked-write" -> "woken-write"
    [] OTHER -> state

\* A mutated form: only waiting readers are woken.
NotifyReaders(t) ==
  pc' = [u \in Threads |-> IF u = t THEN "idle"
                           ELSE IF pc[u] = "blocked-read" THEN "woken-read" ELSE pc[u]]

\* A mutated form: only waiting writers are woken.
NotifyWriters(t) ==
  pc' = [u \in Threads |-> IF u = t THEN "idle"
                           ELSE IF pc[u] = "blocked-write" THEN "woken-write" ELSE pc[u]]

\* Thread t leaves and notifies all.
LeaveAndNotify(t) ==
  pc' = [u \in Threads |-> IF u = t THEN "idle" ELSE Woken(pc[u])]

(***************************************************************************)
(* acquire_read and release_read.                                          *)
(***************************************************************************)
\* A mutated form: readers do not give way to writers that wait.
ReadPermittedBesideWaiting == ~writer

ReadPermitted == ~writer /\ waitingWriters = 0

AcquireRead(t) ==
  /\ pc[t] \in {"idle", "woken-read"}
  /\ IF ReadPermitted
     THEN MoveTo(t, "reading") /\ readers' = readers + 1
     ELSE MoveTo(t, "blocked-read") /\ UNCHANGED readers
  /\ UNCHANGED <<writer, waitingWriters>>

\* The last reader notifies.
ReleaseRead(t) ==
  /\ pc[t] = "reading"
  /\ readers' = readers - 1
  /\ IF readers = 1 THEN LeaveAndNotify(t) ELSE MoveTo(t, "idle")
  /\ UNCHANGED <<writer, waitingWriters>>

(***************************************************************************)
(* acquire_write and release_write.                                        *)
(***************************************************************************)
WritePermitted == ~writer /\ readers = 0

\* A thread counts as a waiting writer from its first test to its success.
StartWrite(t) ==
  /\ pc[t] = "idle"
  /\ IF WritePermitted
     THEN MoveTo(t, "writing") /\ writer' = TRUE /\ UNCHANGED waitingWriters
     ELSE /\ MoveTo(t, "blocked-write")
          /\ waitingWriters' = waitingWriters + 1
          /\ UNCHANGED writer
  /\ UNCHANGED readers

\* A mutated form: the count is lowered by a test that fails, too.
RetryWriteMiscounting(t) ==
  /\ pc[t] = "woken-write"
  /\ IF WritePermitted THEN MoveTo(t, "writing") /\ writer' = TRUE
     ELSE MoveTo(t, "blocked-write") /\ UNCHANGED writer
  /\ waitingWriters' = waitingWriters - 1
  /\ UNCHANGED readers

RetryWrite(t) ==
  /\ pc[t] = "woken-write"
  /\ IF WritePermitted
     THEN /\ MoveTo(t, "writing") /\ writer' = TRUE
          /\ waitingWriters' = waitingWriters - 1
     ELSE MoveTo(t, "blocked-write") /\ UNCHANGED <<writer, waitingWriters>>
  /\ UNCHANGED readers

ReleaseWrite(t) ==
  /\ pc[t] = "writing"
  /\ writer' = FALSE
  /\ LeaveAndNotify(t)
  /\ UNCHANGED <<readers, waitingWriters>>

Next ==
  \E t \in Threads :
    \/ AcquireRead(t) \/ ReleaseRead(t)
    \/ StartWrite(t) \/ RetryWrite(t) \/ ReleaseWrite(t)

Spec == Init /\ [][Next]_vars

(***************************************************************************)
(* Properties.                                                             *)
(***************************************************************************)
\* A write transaction excludes every other transaction of the process.
MutualExclusion ==
  \A t, u \in Threads :
    t # u /\ pc[t] = "writing" => pc[u] \notin {"reading", "writing"}

\* A thread stays blocked only while somebody is left whose release, or whose
\* turn, notifies it: no wake-up is lost, so no transaction hangs.
NoLostWakeup ==
  \A t \in Threads :
    /\ pc[t] = "blocked-read" =>
         \E u \in Threads : pc[u] \in {"writing", "blocked-write", "woken-write"}
    /\ pc[t] = "blocked-write" =>
         \E u \in Threads : pc[u] \in {"reading", "writing"}

\* The docstring's promise: while new readers keep coming, a thread that waits
\* to write does not wait for ever (some waiting writer gets the lock).
WritersProgress ==
  (\E t \in Threads : pc[t] \in {"blocked-write", "woken-write"})
    ~> (\E t \in Threads : pc[t] = "writing")

\* Writers go first, so a stream of them keeps readers waiting.  When no new one
\* comes, every waiting reader gets its turn and none waits again: the last
\* writer to leave has told the readers, and no count of waiting writers is left
\* over (acquire_read).
ReadersProgress ==
  <>[][\A t \in Threads : ~StartWrite(t)]_vars =>
    <>[](\A t \in Threads : pc[t] \notin {"blocked-read", "woken-read"})

\* Whoever waits for the lock gets on, as far as writer preference allows
\* (ReadWriteLock).
LockProgress == WritersProgress /\ ReadersProgress
=============================================================================
