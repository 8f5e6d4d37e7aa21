---------------------------- MODULE AfterCommit ----------------------------
(***************************************************************************)
(* The hooks a thread of the mounted process runs after the commit of a    *)
(* write transaction (metadata/store.py, filesystem.py): a drain of the    *)
(* queue of hot files to delete, with a budget, and one demotion if one    *)
(* has been requested (block_store.py, metadata/gc.py).                    *)
(*                                                                         *)
(* A transaction is one step; BlockTiering looks inside.  Blocks have one  *)
(* size, and the bytes of the code are counted in blocks.  The queue holds *)
(* hot files only, in the order of their ids, which grow.  A block is not  *)
(* stored again while its file is queued (see BlockTiering, "reuse"), and  *)
(* what the interpreter does not interrupt is one step: testing and setting *)
(* the flag of the hooks, reading and clearing the request.                *)
(***************************************************************************)
EXTENDS Naturals, FiniteSets, Sequences, SequencesExt

CONSTANTS
  Workers,
  Digests,
  Stuck,        \* digests whose hot file cannot be unlinked: the system call fails
  Budget,       \* max_deletions of the hook
  HotMax,       \* hot_max_bytes: the high watermark
  HotMin,       \* hot_min_bytes: the low watermark
  Environment   \* what may happen: "outage", "no-candidate", "remount"

HooksParameters ==
  /\ IsFiniteSet(Digests) /\ Stuck \subseteq Digests
  /\ Budget \in Nat \ {0}
  /\ HotMax \in Nat \ {0} /\ HotMin \in 0 .. HotMax
  /\ Environment \subseteq {"outage", "no-candidate", "remount"}

ASSUME AfterCommitAssumption == HooksParameters

VARIABLES
  blocks,       \* where each block is
  files,        \* the hot files
  queue,        \* pending_deletions: digests by id
  hotUp,        \* the hot tier can be accessed
  requested,    \* _demotion_requested
  added,        \* _hot_bytes_added_since_check
  running,      \* _running_after_commit_hooks
  step,         \* what each thread does
  drain,        \* rows read, those done, and how many removed, in drain_pending_deletions
  excess        \* history: hot blocks when a demotion last stopped short, or the
                \* counters were last lost; 0 after any other demotion

tables == <<blocks, files, queue>>
demotionVars == <<requested, added>>
hooksVars == <<tables, hotUp, demotionVars, running, step, drain, excess>>

NoDrain == [rows |-> <<>>, done |-> {}, removed |-> 0]

Steps == {"idle", "committed", "read", "unlink", "remove", "request", "demote"}

HooksTypeOK ==
  /\ blocks \in [Digests -> {"absent", "hot", "cold"}]
  /\ files \subseteq Digests
  /\ queue \in Seq(Digests)
  /\ hotUp \in BOOLEAN /\ requested \in BOOLEAN /\ running \in BOOLEAN
  /\ added \in 0 .. (HotMax - 1)
  /\ step \in [Workers -> Steps]
  /\ drain \in [Workers -> [rows : Seq(Digests), done : SUBSET Digests, removed : 0 .. Budget]]
  /\ excess \in 0 .. Cardinality(Digests)

HooksInit ==
  /\ blocks = [d \in Digests |-> "absent"]
  /\ files = {} /\ queue = <<>>
  /\ hotUp = TRUE
  /\ requested = FALSE /\ added = 0
  /\ running = FALSE
  /\ step = [t \in Workers |-> "idle"]
  /\ drain = [t \in Workers |-> NoDrain]
  /\ excess = 0

Hot == {d \in Digests : blocks[d] = "hot"}
Queued == ToSet(queue)

\* The entries that are left, in their order, when those of a set are removed.
Without(s, S) == FlattenSeq([i \in DOMAIN s |-> IF s[i] \in S THEN <<>> ELSE <<s[i]>>])

StepTo(t, next) == step' = [step EXCEPT ![t] = next]

(***************************************************************************)
(* Write transactions of the file system.                                  *)
(***************************************************************************)
\* A mutated form: the check comes one block late.
NoteHotWriteLate ==
  IF added + 1 > HotMax
  THEN requested' = TRUE /\ added' = 0
  ELSE added' = added + 1 /\ UNCHANGED requested

NoteHotWrite ==
  IF added + 1 >= HotMax
  THEN requested' = TRUE /\ added' = 0
  ELSE added' = added + 1 /\ UNCHANGED requested

\* A write makes a new block, or one that was only on the cold tier, hot.
Store(d) ==
  /\ hotUp /\ blocks[d] # "hot" /\ d \notin Queued
  /\ blocks' = [blocks EXCEPT ![d] = "hot"]
  /\ files' = files \cup {d}
  /\ NoteHotWrite
  /\ UNCHANGED queue

\* Blocks lose their last reference; the files of the hot ones are queued.
Drop(S) ==
  /\ S # {} /\ \A d \in S : blocks[d] # "absent"
  /\ blocks' = [d \in Digests |-> IF d \in S THEN "absent" ELSE blocks[d]]
  /\ \E order \in SetToSeqs(S \cap Hot) : queue' = queue \o order
  /\ UNCHANGED <<files, demotionVars>>

\* A read from the cold tier has copied the block up.
CopyUp(d) ==
  /\ hotUp /\ blocks[d] = "cold"
  /\ blocks' = [blocks EXCEPT ![d] = "hot"]
  /\ files' = files \cup {d}
  /\ requested' = TRUE
  /\ UNCHANGED <<queue, added>>

Commits(t) ==
  /\ step[t] = "idle"
  /\ \/ \E d \in Digests : Store(d) \/ CopyUp(d)
     \/ \E S \in SUBSET Digests : Drop(S)
     \/ UNCHANGED <<tables, demotionVars>>
  /\ StepTo(t, "committed")
  /\ UNCHANGED <<hotUp, running, drain, excess>>

(***************************************************************************)
(* _run_after_commit_hooks.  Commits of other threads, and those of the    *)
(* hooks themselves, find the flag set and run nothing.                    *)
(***************************************************************************)
\* A mutated form: the flag is not looked at.
EnterHooksBeside(t) ==
  /\ step[t] = "committed"
  /\ StepTo(t, "read")
  /\ running' = TRUE
  /\ UNCHANGED <<tables, hotUp, demotionVars, drain, excess>>

EnterHooks(t) ==
  /\ step[t] = "committed"
  /\ IF running THEN StepTo(t, "idle") ELSE StepTo(t, "read")
  /\ running' = TRUE
  /\ UNCHANGED <<tables, hotUp, demotionVars, drain, excess>>

\* A mutated form: the flag stays set.
EndHooksSilently(t) == StepTo(t, "idle") /\ UNCHANGED running

EndHooks(t) == StepTo(t, "idle") /\ running' = FALSE

(***************************************************************************)
(* drain_pending_deletions(max_deletions=Budget, tier=1).                  *)
(***************************************************************************)
FirstRows(n) == SubSeq(queue, 1, IF n < Len(queue) THEN n ELSE Len(queue))

ReadPending(t) ==
  /\ step[t] = "read"
  /\ LET rows == FirstRows(Budget - drain[t].removed)
     IN  IF rows = <<>>
         THEN StepTo(t, "request") /\ drain' = [drain EXCEPT ![t] = NoDrain]
         ELSE StepTo(t, "unlink") /\ drain' = [drain EXCEPT ![t].rows = rows]
  /\ UNCHANGED <<tables, hotUp, demotionVars, running, excess>>

\* A missing file counts as deleted.
Deletable(S) == IF hotUp THEN S \ Stuck ELSE {}

UnlinkRows(t) ==
  /\ step[t] = "unlink"
  /\ LET done == Deletable(ToSet(drain[t].rows))
     IN  /\ files' = files \ done
         /\ drain' = [drain EXCEPT ![t].done = done]
  /\ StepTo(t, "remove")
  /\ UNCHANGED <<blocks, queue, hotUp, demotionVars, running, excess>>

\* Entries that could not be deleted keep their place.  The drain goes on as
\* long as it gets something done.
RemoveRows(t) ==
  /\ step[t] = "remove"
  /\ queue' = Without(queue, drain[t].done)
  /\ LET n == drain[t].removed + Cardinality(drain[t].done)
     IN  IF drain[t].done = {}
         THEN StepTo(t, "request") /\ drain' = [drain EXCEPT ![t] = NoDrain]
         ELSE StepTo(t, "read") /\ drain' = [drain EXCEPT ![t] = [NoDrain EXCEPT !.removed = n]]
  /\ UNCHANGED <<blocks, files, hotUp, demotionVars, running, excess>>

\* The transaction fails, because another process writes: the hook is given up.
RemovalFails(t) ==
  /\ step[t] = "remove" /\ drain[t].done # {}
  /\ StepTo(t, "request")
  /\ drain' = [drain EXCEPT ![t] = NoDrain]
  /\ UNCHANGED <<tables, hotUp, demotionVars, running, excess>>

(***************************************************************************)
(* drain_requested_demotions(max_blocks=1).                                *)
(***************************************************************************)
TakeRequest(t) ==
  /\ step[t] = "request"
  /\ IF requested THEN StepTo(t, "demote") /\ UNCHANGED running ELSE EndHooks(t)
  /\ requested' = FALSE
  /\ UNCHANGED <<tables, hotUp, added, drain, excess>>

Moved(S) ==
  /\ blocks' = [d \in Digests |-> IF d \in S THEN "cold" ELSE blocks[d]]
  /\ files' = files \ S

\* One block moves; another pass is requested if the low watermark is not reached.
Demote(t) ==
  /\ step[t] = "demote" /\ Cardinality(Hot) > HotMax /\ hotUp
  /\ \E d \in Hot \ Stuck : Moved({d})
  /\ requested' = (requested \/ Cardinality(Hot) - 1 > HotMin)
  /\ EndHooks(t)
  /\ excess' = 0
  /\ UNCHANGED <<queue, hotUp, added, drain>>

\* The pass begins again with the high watermark, also when it was requested
\* because the one before was cut short.
DemoteNothing(t) ==
  /\ step[t] = "demote" /\ Cardinality(Hot) <= HotMax
  /\ EndHooks(t)
  /\ excess' = 0
  /\ UNCHANGED <<tables, hotUp, demotionVars, drain>>

\* A mutated form: the pass is not requested again.
DemotionForgotten(t) ==
  /\ "outage" \in Environment
  /\ step[t] = "demote" /\ Cardinality(Hot) > HotMax
  /\ EndHooks(t)
  /\ excess' = 0
  /\ UNCHANGED <<tables, hotUp, demotionVars, drain>>

\* The cold tier is away when it is probed, or the hot one when the file is to
\* be unlinked: a later pass is requested.
DemotionUnavailable(t) ==
  /\ "outage" \in Environment
  /\ step[t] = "demote" /\ Cardinality(Hot) > HotMax
  /\ requested' = TRUE
  /\ EndHooks(t)
  /\ excess' = 0
  /\ UNCHANGED <<tables, hotUp, added, drain>>

\* No block may be demoted now (min_hot_age_ns, protected_prefix_chunks), or the
\* transaction raises and the hook is given up: the request is gone.
DemotionStops(t) ==
  /\ "no-candidate" \in Environment
  /\ step[t] = "demote" /\ Cardinality(Hot) > HotMax
  /\ EndHooks(t)
  /\ excess' = Cardinality(Hot)
  /\ UNCHANGED <<tables, hotUp, demotionVars, drain>>

(***************************************************************************)
(* The environment.                                                        *)
(***************************************************************************)
Outage ==
  /\ "outage" \in Environment
  /\ hotUp' = ~hotUp
  /\ UNCHANGED <<tables, demotionVars, running, step, drain, excess>>

\* A new process: its flags and counters start again.
Fresh ==
  /\ requested' = FALSE /\ added' = 0 /\ running' = FALSE
  /\ step' = [t \in Workers |-> "idle"]
  /\ drain' = [t \in Workers |-> NoDrain]

\* The process dies, in whatever step, and the file system is mounted again.
Crash ==
  /\ "remount" \in Environment
  /\ Fresh
  /\ excess' = Cardinality(Hot)
  /\ UNCHANGED <<tables, hotUp>>

\* close() after the last operation, then a mount: what was requested is demoted,
\* down to the low watermark, and the queue drained, both without a budget.
CloseAndMount ==
  /\ "remount" \in Environment /\ hotUp
  /\ \A t \in Workers : step[t] = "idle"
  /\ \E S \in SUBSET (Hot \ Stuck) :
       /\ IF requested /\ Cardinality(Hot) > HotMax
          THEN Cardinality(Hot \ S) = HotMin
          ELSE S = {}
       /\ blocks' = [d \in Digests |-> IF d \in S THEN "cold" ELSE blocks[d]]
       /\ files' = (files \ S) \ Deletable(Queued)
       /\ excess' = Cardinality(Hot \ S)
  /\ queue' = Without(queue, Deletable(Queued))
  /\ Fresh
  /\ UNCHANGED hotUp

HookStep(t) ==
  \/ EnterHooks(t) \/ ReadPending(t) \/ UnlinkRows(t) \/ RemoveRows(t) \/ RemovalFails(t)
  \/ TakeRequest(t) \/ Demote(t) \/ DemoteNothing(t)
  \/ DemotionUnavailable(t) \/ DemotionStops(t)

HooksNext ==
  \/ \E t \in Workers : Commits(t) \/ HookStep(t)
  \/ Outage \/ Crash \/ CloseAndMount

HooksSpec == HooksInit /\ [][HooksNext]_hooksVars

\* Hooks end, and the transaction that removes entries succeeds at last if it is
\* tried again and again: other processes write only now and then.
HooksFairness ==
  \A t \in Workers : WF_hooksVars(HookStep(t)) /\ SF_hooksVars(RemoveRows(t))

HooksFairSpec == HooksSpec /\ HooksFairness

(***************************************************************************)
(* Properties.                                                             *)
(***************************************************************************)
\* A file on the hot tier belongs to a hot block or is still queued, and no hot
\* block has lost its file, over drains that get stuck half-way, failures, crashes
\* and demotions: one thread drains at a time, so that no unlink comes after the
\* row has been removed by another and the block stored again.
HotFilesAccounted == Hot \subseteq files /\ files \subseteq Hot \cup Queued

\* Above the high watermark, or what a demotion that stopped short or a mount has left,
\* the hot tier grows by less than hot_max_bytes before a demotion is requested: no
\* request gets lost between the thread that sets it, the one that takes it and the
\* budget of one block.
HotTierBounded ==
  Cardinality(Hot) > HotMax + added /\ Cardinality(Hot) > excess + added =>
    requested \/ \E t \in Workers : step[t] = "demote"

\* README.md:154: what the budget leaves in the queue is taken care of by later
\* commits.  While transactions commit, the hot tier has come back to stay and
\* nobody crashes, every queued file that can be deleted is, although others ahead
\* of it cannot: fewer than the budget of them.
QueueDrains ==
  ([]<><<\E t \in Workers : Commits(t)>>_hooksVars /\ <>[]hotUp /\ <>[][~Crash]_hooksVars) =>
    \A d \in Digests \ Stuck : (d \in Queued) ~> (d \notin Queued)

\* block_store.py:46-47: above the high watermark a demotion goes on until the hot
\* tier has come down to the low one.  Once nothing more is made hot, and while
\* transactions commit, a demotion that has something to do gets there.
LowWatermarkReached ==
  ([]<><<\E t \in Workers : Commits(t)>>_hooksVars /\
   <>[][\A d \in Digests : ~Store(d) /\ ~CopyUp(d)]_hooksVars) =>
    ((\E t \in Workers : step[t] = "demote" /\ Cardinality(Hot) > HotMax)
       ~> (Cardinality(Hot) <= HotMin))
=============================================================================
