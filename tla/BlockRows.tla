----------------------------- MODULE BlockRows ------------------------------
(***************************************************************************)
(* One row of the SQLite table `blocks` and the statements that change it. *)
(* A block is addressed by the digest of its content.  An "inline" block   *)
(* keeps its payload in the database; a "tiered" block keeps it in a file  *)
(* of the hot tier (1), of the cold tier (2), or of both.                  *)
(*                                                                         *)
(* Timestamps are reduced to what decisions test: `promoted` stands for    *)
(* last_promoted_ns IS NOT NULL, `garbage` for cold_gc_enqueued_ns IS NOT  *)
(* NULL.  `enc` stands for the `compressed` column together with           *)
(* stored_size: how the payload bytes have to be decoded.                  *)
(***************************************************************************)
EXTENDS Naturals, Integers

CONSTANTS
  Digests,      \* contents, identified with their SHA-256 digest
  Encodings,    \* the ways one content may be stored (raw, zstd)
  NoRow         \* no row of `blocks` has the digest

ASSUME NoRowAssumption == NoRow \notin [refs : Nat, kind : {"inline", "tiered"},
    hot : BOOLEAN, cold : BOOLEAN, pref : 0..2, enc : Encodings,
    promoted : BOOLEAN, garbage : BOOLEAN]

Tiers == {1, 2}
Kinds == {"inline", "tiered"}

Row == [refs : Nat, kind : Kinds, hot : BOOLEAN, cold : BOOLEAN, pref : 0..2,
        enc : Encodings, promoted : BOOLEAN, garbage : BOOLEAN]

\* The references a digest's row counts.
RowRefs(row) == IF row = NoRow THEN 0 ELSE row.refs

\* The table constraints: an inline block has no file, a tiered one claims one.
CheckConstraint(row) ==
  \/ row.kind = "inline" /\ row.pref = 0 /\ ~row.hot /\ ~row.cold
  \/ row.kind = "tiered" /\ row.pref \in Tiers /\ (row.hot \/ row.cold)

\* INSERT INTO blocks: a new row is unreferenced; a tiered one is hot only.
InsertedRow(kind, enc) ==
  [refs |-> 0, kind |-> kind, hot |-> kind = "tiered", cold |-> FALSE,
   pref |-> IF kind = "tiered" THEN 1 ELSE 0, enc |-> enc,
   promoted |-> FALSE, garbage |-> FALSE]

\* UPDATE of the presence columns after the block was (re)written to tier 1.
PromotedByWrite(row) ==
  [row EXCEPT !.hot = TRUE, !.pref = 1, !.promoted = TRUE]

\* ensure_prepared_blocks: a block that has no row gets one; the block of an
\* existing row is written to the hot tier unless the row says it is there.
EnsuredRow(row, kind, enc) ==
  IF row = NoRow THEN InsertedRow(kind, enc)
  ELSE IF row.kind = "tiered" /\ ~row.hot THEN PromotedByWrite(row)
  ELSE row

\* PromotedByWrite after a background copy-up: both tiers hold the payload.
PromotedByCopyUp(row) ==
  [row EXCEPT !.hot = TRUE, !.cold = TRUE, !.pref = 1, !.promoted = TRUE]

\* set_block_presence with what a read found: each column is kept or set.
Repaired(row, repair) ==
  [row EXCEPT !.hot  = IF repair.hot = "keep" THEN @ ELSE repair.hot = "yes",
              !.cold = IF repair.cold = "keep" THEN @ ELSE repair.cold = "yes",
              !.pref = IF repair.pref = 0 THEN @ ELSE repair.pref]

\* An UPDATE by hash that comes late, whatever the row has become: no row, and
\* nothing happens; a new row the CHECK refuses, and the transaction rolls back.
UpdatedByHash(row, new) ==
  IF row # NoRow /\ CheckConstraint(new) THEN new ELSE row

\* After a demotion only the cold tier is claimed.
Demoted(row) == [row EXCEPT !.hot = FALSE, !.cold = TRUE, !.pref = 2]

\* mark_cold_garbage: the row stays as an index of a reusable cold copy.
ColdGarbage(row) ==
  [row EXCEPT !.refs = 0, !.hot = FALSE, !.cold = TRUE, !.pref = 2,
              !.garbage = TRUE]

(***************************************************************************)
(* apply_block_refcount_deltas for one digest.  A negative delta on a      *)
(* missing row, or below zero, raises RuntimeError and rolls the           *)
(* transaction back: DeltaAllowed is false.                                *)
(***************************************************************************)
DeltaAllowed(row, delta) ==
  delta < 0 => row # NoRow /\ row.refs + delta >= 0

Released(row, delta) == delta < 0 /\ row.refs + delta = 0

\* A mutated form: a new reference leaves the garbage stamp on the row.
AppliedDeltaKeepingStamp(row, delta) ==
  IF delta = 0 \/ row = NoRow THEN row
  ELSE IF ~Released(row, delta) THEN [row EXCEPT !.refs = @ + delta]
  ELSE IF row.kind = "tiered" /\ row.cold THEN ColdGarbage(row)
  ELSE NoRow

AppliedDelta(row, delta) ==
  IF delta = 0 \/ row = NoRow THEN row
  ELSE IF delta > 0 THEN [row EXCEPT !.refs = @ + delta, !.garbage = FALSE]
  ELSE IF ~Released(row, delta) THEN [row EXCEPT !.refs = @ + delta]
  ELSE IF row.kind = "tiered" /\ row.cold THEN ColdGarbage(row)
  ELSE NoRow

\* A mutated form: a block that becomes cold garbage queues nothing.
QueuesLoneHotFile(row, delta) ==
  delta < 0 /\ row # NoRow /\ Released(row, delta)
            /\ row.kind = "tiered" /\ row.hot /\ ~row.cold

\* Whether the same statement queues the hot file for physical deletion.
QueuesHotFile(row, delta) ==
  delta < 0 /\ row # NoRow /\ Released(row, delta)
            /\ row.kind = "tiered" /\ row.hot

\* demotion_candidate: the age and prefix tests are left open.
MayDemote(row) == row # NoRow /\ row.kind = "tiered" /\ row.hot

\* A mutated form: a cold copy need not have a hot one beside it.
PromotedColdCopyAlone(row) ==
  row # NoRow /\ row.kind = "tiered" /\ row.cold /\ row.promoted

\* promoted_cold_copy_candidates, whatever the retention age.
PromotedColdCopy(row) ==
  row # NoRow /\ row.kind = "tiered" /\ row.hot /\ row.cold
              /\ row.pref = 1 /\ row.promoted

\* Rows _cleanup_cold_garbage may delete, whatever the retention age.
CollectableGarbage(row) ==
  row # NoRow /\ row.kind = "tiered" /\ row.refs = 0 /\ row.cold /\ row.garbage
=============================================================================
