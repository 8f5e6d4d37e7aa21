---------------------------- MODULE BlockTiering ----------------------------
(***************************************************************************)
(* Block files and the rows that index them.  A mounted process writes,    *)
(* releases, reads, demotes and copies up tiered blocks and drains the     *)
(* queue of deletions; a separate `cleanup` process works on the same      *)
(* database and tiers.                                                     *)
(*                                                                         *)
(* A change of a file takes effect at once; a change of a row takes effect *)
(* when its write transaction commits, and is lost when it rolls back.     *)
(* SQLite (BEGIN IMMEDIATE) admits one write transaction at a time; inside *)
(* the mounted process the ReadWriteLock also keeps read transactions out  *)
(* of it.  References are counted but not located: ChunkRefs says which    *)
(* chunk holds each.  Inline blocks have no file and do not appear here.   *)
(***************************************************************************)
EXTENDS BlockRows, FiniteSets, FiniteSetsExt

CONSTANTS
  NoFile,       \* a tier without a file for the digest
  Readers,      \* threads of the mounted process that read files
  MaxRefs,      \* bound: references to one block
  MaxId,        \* bound: id of a queue entry
  Environment   \* what may happen: a set of the strings below

ASSUME NoFileAssumption == NoFile \notin Encodings
ASSUME ReadersAssumption == IsFiniteSet(Readers)
ASSUME BoundsAssumption == MaxRefs \in Nat /\ MaxId \in Nat
ASSUME EnvironmentAssumption ==
  Environment \subseteq
    {"rollback",    \* a write transaction raises after some of its steps
     "crash",       \* the mounted process dies and is mounted again
     "outage",      \* a tier becomes unavailable and comes back
     "flapping",    \* ... even in the middle of the demotion of one block
     "maintenance", \* `cleanup` runs while the file system is unmounted
     "online",      \* ... and while it is mounted
     "rewrite",     \* a transaction stores a block again that it has released
     "reuse"}       \* so does a later one, while the deletion is under way

VARIABLES
  rows,         \* the committed table `blocks`
  queue,        \* the committed table `pending_deletions` (tier 1)
  files,        \* files[t][d]: the encoding of the payload file, or NoFile
  up,           \* the tiers that are available
  txn,          \* the write transaction in progress, with its uncommitted rows
  drain,        \* drain_pending_deletions, between its transactions
  copyup,       \* the background copy-up of each block
  readers       \* the read of each reader, with two histories of it: a tier
                \* has been unavailable (`outage`), the block has lost all of
                \* its references (`released`)

vars == <<rows, queue, files, up, txn, drain, copyup, readers>>

EmptyTable == [d \in Digests |-> NoRow]
Idle == [kind |-> "none", step |-> "none", targets |-> {},
         rows |-> EmptyTable, queue |-> {}]
NoRepair == [hot |-> "keep", cold |-> "keep", pref |-> 0]
Resting == [pc |-> "idle", row |-> NoRow, digests |-> {}, tier |-> 0,
            hotSeen |-> FALSE, outage |-> FALSE, released |-> FALSE, repair |-> NoRepair]
NoDrain == [todo |-> {}, done |-> {}]

MaybeRow == Row \cup {NoRow}
Entry == [id : 1..MaxId, digest : Digests]

TypeOK ==
  /\ rows \in [Digests -> MaybeRow]
  /\ queue \subseteq Entry
  /\ files \in [Tiers -> [Digests -> Encodings \cup {NoFile}]]
  /\ up \subseteq Tiers
  /\ txn \in [kind : {"none", "write", "demote", "cleanup"},
              step : {"none", "begin", "stored", "dropped", "both", "select",
                      "copy", "unlink", "end", "pending", "promoted", "garbage"},
              targets : SUBSET Digests, rows : [Digests -> MaybeRow],
              queue : SUBSET Entry]
  /\ drain \in [todo : SUBSET Entry, done : SUBSET Entry]
  /\ copyup \in [Digests -> {"idle", "scheduled", "copied", "seen"}]
  /\ readers \in [Readers ->
       [pc : {"idle", "preferred", "missing", "unavailable", "probe-hot",
              "probe-cold", "selected", "repair", "failed"},
        row : MaybeRow, digests : SUBSET Digests, tier : 0..2,
        hotSeen : BOOLEAN, outage : BOOLEAN, released : BOOLEAN,
        repair : [hot : {"keep", "yes", "no"}, cold : {"keep", "yes", "no"},
                  pref : 0..2]]]

Init ==
  /\ rows = EmptyTable /\ queue = {}
  /\ files = [t \in Tiers |-> [d \in Digests |-> NoFile]]
  /\ up = Tiers
  /\ txn = Idle /\ drain = NoDrain
  /\ copyup = [d \in Digests |-> "idle"]
  /\ readers = [r \in Readers |-> Resting]

(***************************************************************************)
(* Files.                                                                  *)
(***************************************************************************)
Present(t, d) == t \in up /\ files[t][d] # NoFile
Missing(t, d) == t \in up /\ files[t][d] = NoFile

\* copy_atomic does nothing unless the source is present and the target missing.
Copied(d, source, target) ==
  IF Present(source, d) /\ Missing(target, d)
  THEN [files EXCEPT ![target][d] = files[source][d]]
  ELSE files

(***************************************************************************)
(* The queue.  An id is INTEGER PRIMARY KEY without AUTOINCREMENT: one more *)
(* than the largest id in the table, so the ids of removed entries return. *)
(***************************************************************************)
Queued(q) == {entry.digest : entry \in q}

\* A mutated form: the ids start from zero.
NewIdFromZero(q) == IF q = {} THEN 0 ELSE Max({entry.id : entry \in q}) + 1

NewId(q) == Max({0} \cup {entry.id : entry \in q}) + 1

\* INSERT OR IGNORE: an entry for the same file stays as it is.
Enqueued(q, d) ==
  IF d \in Queued(q) THEN q ELSE q \cup {[id |-> NewId(q), digest |-> d]}

\* DELETE WHERE id = ?, for each id of the given entries.
Dequeued(q, entries) ==
  {entry \in q : \A other \in entries : other.id # entry.id}

(***************************************************************************)
(* Write transactions.                                                     *)
(***************************************************************************)
Begin(kind, step, targets) ==
  /\ txn.kind = "none"
  /\ txn' = [kind |-> kind, step |-> step, targets |-> targets,
             rows |-> rows, queue |-> queue]
  /\ UNCHANGED <<rows, queue, files, up, drain, copyup, readers>>

CommitReady ==
  \/ txn.kind = "write"
  \/ txn.kind = "demote" /\ txn.step \in {"select", "end"}
  \/ txn.kind = "cleanup" /\ txn.step = "garbage"

InRead(r) == readers[r].pc \notin {"idle", "repair", "failed"}

LosesBlock(r, table) ==
  InRead(r) /\ \E d \in readers[r].digests : RowRefs(table[d]) = 0

Commit ==
  /\ CommitReady
  /\ rows' = txn.rows /\ queue' = txn.queue
  /\ txn' = Idle
  /\ readers' = [r \in Readers |->
       [readers[r] EXCEPT !.released = @ \/ LosesBlock(r, txn.rows)]]
  /\ UNCHANGED <<files, up, drain, copyup>>

\* An exception rolls the rows back; files stay as they are.  Killing the
\* cleanup process has the same effect.
Rollback ==
  /\ txn.kind # "none"
  /\ "rollback" \in Environment \/ (txn.kind = "write" /\ 1 \notin up)
  /\ txn' = Idle
  /\ UNCHANGED <<rows, queue, files, up, drain, copyup, readers>>

StepTxn(step, newRows) ==
  txn' = [txn EXCEPT !.step = step, !.rows = newRows]

\* A write transaction stores and drops at most once each.  A truncation drops
\* before it stores, an overwrite stores before it drops.
Writing(steps) == txn.kind = "write" /\ txn.step \in steps

\* The blocks the environment does not store again yet.
Excluded ==
  IF "reuse" \in Environment THEN {}
  ELSE Queued(drain.todo \cup IF "rewrite" \in Environment THEN queue ELSE txn.queue)

\* The row whose encoding the payload of a write gets.
StoredEncoding(row, e) == IF row = NoRow THEN e ELSE row.enc

\* ensure_prepared_blocks and the counting of the new reference.  The file is
\* written before the row, and not at all when the tier has one for the digest.
Store(d, e) ==
  LET row == txn.rows[d]
      writes == row = NoRow \/ ~row.hot
  IN  /\ Writing({"begin", "dropped"})
      /\ RowRefs(row) < MaxRefs
      /\ d \notin Excluded
      /\ writes => 1 \in up
      /\ files' = IF writes /\ files[1][d] = NoFile
                  THEN [files EXCEPT ![1][d] = StoredEncoding(row, e)] ELSE files
      /\ StepTxn(IF txn.step = "begin" THEN "stored" ELSE "both",
                 [txn.rows EXCEPT
                    ![d] = AppliedDelta(EnsuredRow(row, "tiered", e), 1)])
      /\ UNCHANGED <<rows, queue, up, drain, copyup, readers>>

\* apply_block_refcount_deltas for a committed chunk that is replaced or
\* deleted, whoever reads the block: create with O_TRUNC takes no content lock.
Drop(d) ==
  LET row == txn.rows[d]
  IN  /\ Writing({"begin", "stored"})
      /\ RowRefs(rows[d]) > 0
      /\ NewId(txn.queue) <= MaxId
      /\ txn' = [txn EXCEPT
           !.step = IF @ = "begin" THEN "dropped" ELSE "both",
           !.rows[d] = AppliedDelta(row, -1),
           !.queue = IF QueuesHotFile(row, -1) THEN Enqueued(@, d) ELSE @]
      /\ UNCHANGED <<rows, queue, files, up, drain, copyup, readers>>

(***************************************************************************)
(* demote_cold_blocks, one block after the other.                          *)
(***************************************************************************)
Demoting(step) == txn.kind = "demote" /\ txn.step = step

\* A mutated form: the hot file goes first.
SelectUnlinkFirst(d) ==
  /\ Demoting("select") /\ MayDemote(txn.rows[d]) /\ 1 \in up
  /\ files' = [files EXCEPT ![1][d] = NoFile]
  /\ txn' = [txn EXCEPT !.targets = {d}, !.step = "copy"]
  /\ UNCHANGED <<rows, queue, up, drain, copyup, readers>>

\* An unavailable cold tier ends the pass before anything is copied.
SelectForDemotion(d) ==
  /\ Demoting("select") /\ MayDemote(txn.rows[d])
  /\ txn' = [txn EXCEPT
       !.targets = {d},
       !.step = IF txn.rows[d].cold THEN "unlink"
                ELSE IF 2 \in up THEN "copy" ELSE "end"]
  /\ UNCHANGED <<rows, queue, files, up, drain, copyup, readers>>

CopyForDemotion(d) ==
  /\ Demoting("copy") /\ d \in txn.targets
  /\ files' = Copied(d, 1, 2)
  /\ StepTxn("unlink", txn.rows)
  /\ UNCHANGED <<rows, queue, up, drain, copyup, readers>>

UnlinkForDemotion(d) ==
  /\ Demoting("unlink") /\ d \in txn.targets
  /\ \/ /\ 1 \in up
        /\ files' = [files EXCEPT ![1][d] = NoFile]
        /\ StepTxn("select", [txn.rows EXCEPT ![d] = Demoted(@)])
     \/ /\ 1 \notin up
        /\ StepTxn("end", txn.rows)
        /\ UNCHANGED files
  /\ UNCHANGED <<rows, queue, up, drain, copyup, readers>>

(***************************************************************************)
(* drain_pending_deletions: a read transaction, the unlinks outside any    *)
(* transaction, and a write transaction that removes what was unlinked.    *)
(***************************************************************************)
InProcessWrite == txn.kind \in {"write", "demote"}

\* The mounted process may read: nothing keeps it out of the database.
MayRead == ~InProcessWrite /\ (txn.kind = "cleanup" => "online" \in Environment)

ReadQueue ==
  /\ drain = NoDrain /\ queue # {} /\ MayRead
  /\ drain' = [todo |-> queue, done |-> {}]
  /\ UNCHANGED <<rows, queue, files, up, txn, copyup, readers>>

\* A mutated form: the tier of the entry is ignored.
UnlinkQueuedEverywhere(entry) ==
  /\ entry \in drain.todo
  /\ drain' = [todo |-> drain.todo \ {entry}, done |-> drain.done \cup {entry}]
  /\ files' = [files EXCEPT ![1][entry.digest] = NoFile, ![2][entry.digest] = NoFile]
  /\ UNCHANGED <<rows, queue, up, txn, copyup, readers>>

\* A file that is already missing counts as deleted; an unavailable one is
\* deferred.
UnlinkQueued(entry) ==
  /\ entry \in drain.todo
  /\ drain' = [todo |-> drain.todo \ {entry},
               done |-> IF 1 \in up THEN drain.done \cup {entry} ELSE drain.done]
  /\ files' = IF 1 \in up THEN [files EXCEPT ![1][entry.digest] = NoFile] ELSE files
  /\ UNCHANGED <<rows, queue, up, txn, copyup, readers>>

RemoveQueued ==
  /\ drain.todo = {} /\ drain.done # {}
  /\ txn.kind = "none"
  /\ queue' = Dequeued(queue, drain.done)
  /\ drain' = NoDrain
  /\ UNCHANGED <<rows, files, up, txn, copyup, readers>>

(***************************************************************************)
(* maintenance/cleanup.py, one transaction of another process: the queue,  *)
(* then the cold copies of promoted blocks, then cold garbage.  Ages and   *)
(* --max-cold-deletes choose any subset of the candidates.                 *)
(***************************************************************************)
Cleaning(step) == txn.kind = "cleanup" /\ txn.step = step

Unmounted ==
  /\ drain = NoDrain
  /\ \A d \in Digests : copyup[d] = "idle"
  /\ \A r \in Readers : readers[r] = Resting

BeginCleanup ==
  /\ "maintenance" \in Environment
  /\ "online" \in Environment \/ Unmounted
  /\ Begin("cleanup", "pending", Queued(queue))

\* An unavailable file keeps its queue entry.
CleanQueued(d) ==
  /\ Cleaning("pending") /\ d \in txn.targets
  /\ IF 1 \in up
     THEN /\ txn' = [txn EXCEPT !.targets = @ \ {d},
                      !.queue = {entry \in @ : entry.digest # d}]
          /\ files' = [files EXCEPT ![1][d] = NoFile]
     ELSE txn' = [txn EXCEPT !.targets = @ \ {d}] /\ UNCHANGED files
  /\ UNCHANGED <<rows, queue, up, drain, copyup, readers>>

\* From one phase of the cleanup to the next.
NextPhase ==
  /\ txn.targets = {}
  /\ \/ Cleaning("pending") /\ StepTxn("promoted", txn.rows)
     \/ Cleaning("promoted") /\ StepTxn("garbage", txn.rows)
  /\ UNCHANGED <<rows, queue, files, up, drain, copyup, readers>>

\* What both later phases do to the file of a candidate.
UnlinkCold(d) ==
  /\ 2 \in up
  /\ files' = [files EXCEPT ![2][d] = NoFile]
  /\ UNCHANGED <<rows, queue, up, drain, copyup, readers>>

CleanPromoted(d) ==
  /\ Cleaning("promoted") /\ PromotedColdCopy(txn.rows[d])
  /\ StepTxn("promoted", [txn.rows EXCEPT ![d].cold = FALSE])
  /\ UnlinkCold(d)

CleanGarbage(d) ==
  /\ Cleaning("garbage") /\ CollectableGarbage(txn.rows[d])
  /\ StepTxn("garbage", [txn.rows EXCEPT ![d] = NoRow])
  /\ UnlinkCold(d)

(***************************************************************************)
(* _copy_up_cold_block, in a thread of its own.                            *)
(***************************************************************************)
CopyUpFile(d) ==
  /\ copyup[d] = "scheduled"
  /\ files' = Copied(d, 2, 1)
  /\ copyup' = [copyup EXCEPT ![d] = "copied"]
  /\ UNCHANGED <<rows, queue, up, txn, drain, readers>>

CopyUpProbe(d) ==
  /\ copyup[d] = "copied"
  /\ copyup' = [copyup EXCEPT ![d] = IF Present(1, d) THEN "seen" ELSE "idle"]
  /\ UNCHANGED <<rows, queue, files, up, txn, drain, readers>>

CopyUpCommit(d) ==
  /\ copyup[d] = "seen" /\ txn.kind = "none"
  /\ rows' = [rows EXCEPT ![d] = IF @ = NoRow THEN NoRow ELSE PromotedByCopyUp(@)]
  /\ copyup' = [copyup EXCEPT ![d] = "idle"]
  /\ UNCHANGED <<queue, files, up, txn, drain, readers>>

(***************************************************************************)
(* A read: the row is looked up in a read transaction, the files are read  *)
(* after it, and a correction of the row is written later still.  (A hit   *)
(* in the cache of decoded blocks reads no file.)                          *)
(***************************************************************************)
PreferredTier(row) ==
  IF row.pref = 2 /\ row.cold THEN 2 ELSE IF row.hot THEN 1 ELSE 2

Other(t) == 3 - t
Declares(row, t) == IF t = 1 THEN row.hot ELSE row.cold

Reading(r, d, pc) == readers[r].pc = pc /\ d \in readers[r].digests

MoveTo(r, pc) == readers' = [readers EXCEPT ![r].pc = pc]

Select(r, tier, repair) ==
  readers' = [readers EXCEPT ![r].pc = "selected", ![r].tier = tier,
                             ![r].repair = repair]

ReadOnly == UNCHANGED <<rows, queue, files, up, txn, drain>>

Plan(r, d) ==
  /\ readers[r].pc = "idle" /\ MayRead
  /\ RowRefs(rows[d]) > 0
  /\ readers' = [readers EXCEPT ![r] =
       [Resting EXCEPT !.pc = "preferred", !.row = rows[d], !.digests = {d},
                       !.tier = PreferredTier(rows[d]), !.outage = up # Tiers]]
  /\ ReadOnly /\ UNCHANGED copyup

\* A payload that cannot be decoded is EIO.  A read from the cold tier
\* schedules a copy-up of a block that fits the hot tier.
Deliver(r, d) ==
  LET me == readers[r]
  IN  IF files[me.tier][d] # me.row.enc
      THEN MoveTo(r, "failed") /\ UNCHANGED copyup
      ELSE /\ IF me.repair = NoRepair
              THEN readers' = [readers EXCEPT ![r] = Resting]
              ELSE readers' = [readers EXCEPT ![r].pc = "repair", ![r].outage = FALSE,
                                              ![r].released = FALSE]
           /\ \/ me.tier = 2 /\ copyup[d] = "idle"
                /\ copyup' = [copyup EXCEPT ![d] = "scheduled"]
              \/ UNCHANGED copyup

ReadPreferred(r, d) ==
  /\ Reading(r, d, "preferred")
  /\ \/ Present(readers[r].tier, d) /\ Deliver(r, d)
     \/ Missing(readers[r].tier, d) /\ MoveTo(r, "missing") /\ UNCHANGED copyup
     \/ readers[r].tier \notin up /\ MoveTo(r, "unavailable") /\ UNCHANGED copyup
  /\ ReadOnly

\* An unavailable tier is no reason to correct the row.
DecideUnavailable(r, d) ==
  LET alt == Other(readers[r].tier)
  IN  /\ Reading(r, d, "unavailable")
      /\ IF Declares(readers[r].row, alt) /\ Present(alt, d)
         THEN Select(r, alt, NoRepair) ELSE MoveTo(r, "failed")
      /\ ReadOnly /\ UNCHANGED copyup

\* A mutated form: only a tier the row declares is tried.
DecideMissingDeclared(r, d) ==
  LET alt == Other(readers[r].tier)
  IN  /\ Reading(r, d, "missing")
      /\ IF Declares(readers[r].row, alt) /\ Present(alt, d)
         THEN Select(r, alt, NoRepair) ELSE MoveTo(r, "failed")
      /\ ReadOnly /\ UNCHANGED copyup

DecideMissing(r, d) ==
  LET tier == readers[r].tier
      alt  == Other(tier)
      repair == [NoRepair EXCEPT !.hot = IF tier = 1 THEN "no" ELSE "keep",
                                 !.cold = IF tier = 2 THEN "no" ELSE "keep",
                                 !.pref = alt]
  IN  /\ Reading(r, d, "missing")
      /\ IF ~Declares(readers[r].row, alt) \/ Missing(alt, d) THEN MoveTo(r, "probe-hot")
         ELSE IF Present(alt, d) THEN Select(r, alt, repair)
         ELSE MoveTo(r, "failed")
      /\ ReadOnly /\ UNCHANGED copyup

\* _probe_all_tiers_for_repair, whose two probes are two steps.
ProbeHot(r, d) ==
  /\ Reading(r, d, "probe-hot")
  /\ readers' = [readers EXCEPT ![r].pc = "probe-cold", ![r].hotSeen = Present(1, d)]
  /\ ReadOnly /\ UNCHANGED copyup

\* A mutated form: the correction leaves cold_present out.
ProbeColdHotOnly(r, d) ==
  LET hot == readers[r].hotSeen
      repair == [hot |-> IF hot THEN "yes" ELSE "no", cold |-> "keep",
                 pref |-> IF hot THEN 1 ELSE 2]
  IN  /\ Reading(r, d, "probe-cold")
      /\ IF hot \/ Present(2, d) THEN Select(r, repair.pref, repair)
         ELSE MoveTo(r, "failed")
      /\ ReadOnly /\ UNCHANGED copyup

ProbeCold(r, d) ==
  LET hot == readers[r].hotSeen
      repair == [hot |-> IF hot THEN "yes" ELSE "no",
                 cold |-> IF 2 \notin up THEN "keep"
                          ELSE IF Present(2, d) THEN "yes" ELSE "no",
                 pref |-> IF hot THEN 1 ELSE 2]
  IN  /\ Reading(r, d, "probe-cold")
      /\ IF hot \/ Present(2, d) THEN Select(r, repair.pref, repair)
         ELSE MoveTo(r, "failed")
      /\ ReadOnly /\ UNCHANGED copyup

ReadSelected(r, d) ==
  /\ Reading(r, d, "selected")
  /\ \/ Present(readers[r].tier, d) /\ Deliver(r, d)
     \/ ~Present(readers[r].tier, d) /\ MoveTo(r, "failed") /\ UNCHANGED copyup
  /\ ReadOnly

\* record_block_presence, after the content lock is released; the CHECK of
\* the table may refuse the update.
RepairRow(r, d) ==
  LET row == rows[d]
      new == Repaired(row, readers[r].repair)
  IN  /\ Reading(r, d, "repair") /\ txn.kind = "none"
      /\ rows' = IF row # NoRow /\ CheckConstraint(new)
                 THEN [rows EXCEPT ![d] = new] ELSE rows
      /\ readers' = [readers EXCEPT ![r] = Resting]
      /\ UNCHANGED <<queue, files, up, txn, drain, copyup>>

ReturnError(r) ==
  /\ readers[r].pc = "failed"
  /\ readers' = [readers EXCEPT ![r] = Resting]
  /\ ReadOnly /\ UNCHANGED copyup

(***************************************************************************)
(* The environment.                                                        *)
(***************************************************************************)
Outage(t) ==
  /\ "outage" \in Environment
  /\ txn.kind = "demote" => "flapping" \in Environment
  /\ up' = IF t \in up THEN up \ {t} ELSE up \cup {t}
  /\ readers' = [r \in Readers |->
       [readers[r] EXCEPT !.outage = InRead(r)]]
  /\ UNCHANGED <<rows, queue, files, txn, drain, copyup>>

\* What is in memory is lost; files and committed rows stay.
Crash ==
  /\ "crash" \in Environment
  /\ txn' = IF InProcessWrite THEN Idle ELSE txn
  /\ drain' = NoDrain
  /\ copyup' = [d \in Digests |-> "idle"]
  /\ readers' = [r \in Readers |-> Resting]
  /\ UNCHANGED <<rows, queue, files, up>>

Next ==
  \/ Begin("write", "begin", {}) \/ Begin("demote", "select", {}) \/ BeginCleanup
  \/ Commit \/ Rollback \/ Crash
  \/ \E d \in Digests, e \in Encodings : Store(d, e)
  \/ \E d \in Digests : Drop(d)
  \/ \E d \in Digests : SelectForDemotion(d) \/ CopyForDemotion(d) \/ UnlinkForDemotion(d)
  \/ ReadQueue \/ RemoveQueued \/ \E entry \in drain.todo : UnlinkQueued(entry)
  \/ NextPhase
  \/ \E d \in Digests : CleanQueued(d) \/ CleanPromoted(d) \/ CleanGarbage(d)
  \/ \E d \in Digests : CopyUpFile(d) \/ CopyUpProbe(d) \/ CopyUpCommit(d)
  \/ \E r \in Readers, d \in Digests :
       \/ Plan(r, d) \/ ReadPreferred(r, d) \/ ReadSelected(r, d)
       \/ DecideUnavailable(r, d) \/ DecideMissing(r, d)
       \/ ProbeHot(r, d) \/ ProbeCold(r, d) \/ RepairRow(r, d)
  \/ \E r \in Readers : ReturnError(r)
  \/ \E t \in Tiers : Outage(t)

Spec == Init /\ [][Next]_vars

(***************************************************************************)
(* Properties.                                                             *)
(***************************************************************************)
\* The payload of a referenced block is always on some tier, in the encoding
\* the row states (block_store.py: writing, demoting, draining, copying up).
ReferencedPayloadSurvives ==
  \A d \in Digests : RowRefs(rows[d]) > 0 =>
    \E t \in Tiers : files[t][d] = rows[d].enc

\* Outside a cleanup in progress a row that claims a cold copy has one:
\* `cold_present` is the index the normal paths trust.
ColdIndexTruthful ==
  txn.kind # "cleanup" =>
    \A d \in Digests : rows[d] # NoRow /\ rows[d].cold => files[2][d] # NoFile

\* A file of the hot tier is claimed by a row, queued for deletion, or the
\* payload of a write or copy-up in progress: nothing is left for fsck.
HotFileAccounted ==
  \A d \in Digests : files[1][d] # NoFile =>
    \/ d \in Queued(queue)
    \/ rows[d] # NoRow /\ rows[d].hot
    \/ copyup[d] \in {"copied", "seen"}
    \/ txn.kind = "write" /\ txn.rows[d] # NoRow /\ txn.rows[d].hot

\* A read during which no tier is unavailable fails with EIO in two cases only.
\* The last reference to its block was dropped meanwhile and no cold copy was
\* there; of a file in the middle of a read only create with O_TRUNC does that
\* (inode_fuse.py:421), as all other paths take the content lock.  Or it has
\* missed the hot file, probed both tiers, found a hot file again, and a second
\* demotion unlinked that one before it was opened.  Wherever a block in use
\* moves to between the look-up of its row and the probes, they find it.
ReadFailsOnlyIfOvertaken ==
  [][\A r \in Readers :
       readers[r].pc # "failed" /\ readers'[r].pc = "failed" /\ ~readers[r].outage =>
         \/ readers[r].released /\ \A d \in readers[r].digests : files[2][d] = NoFile
         \/ readers[r].pc = "selected" /\ readers[r].tier = 1 /\ readers[r].hotSeen]_vars

\* A correction of a row, found by a read and written later, still fits the
\* row: the CHECK of the table does not refuse it.  (Of one read; with two, one
\* whose block was released, stored again and demoted before its correction was
\* written may take back the cold copy the other relies on.)
RepairsFit ==
  \A r \in Readers : \A d \in readers[r].digests :
    readers[r].pc = "repair" /\ txn.kind = "none" /\ rows[d] # NoRow =>
      CheckConstraint(Repaired(rows[d], readers[r].repair))
=============================================================================
