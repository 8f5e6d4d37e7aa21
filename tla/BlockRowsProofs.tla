-------------------------- MODULE BlockRowsProofs ---------------------------
(***************************************************************************)
(* Lemmas about the row operators of BlockRows: each maps a row to a row,  *)
(* and a sound row to a sound row.                                         *)
(***************************************************************************)
EXTENDS BlockRows, TLAPS

\* What every committed row satisfies.
SoundRow(row) ==
  row # NoRow =>
    /\ CheckConstraint(row)
    /\ row.garbage <=> row.refs = 0
    /\ row.garbage => row.kind = "tiered"

\* What holds between ensure_prepared_blocks and replace_file_chunks: a block
\* of the transaction may be unreferenced without being garbage.
EnsuredRowOK(row) ==
  row # NoRow =>
    /\ CheckConstraint(row)
    /\ row.garbage => row.refs = 0 /\ row.kind = "tiered"

LEMMA NoRowIsNoRow == NoRow \notin Row
  BY NoRowAssumption DEF Row, Kinds

\* An assignment of one column yields a row.
LEMMA RowUpdates ==
  ASSUME NEW row \in Row
  PROVE  /\ \A n \in Nat : [row EXCEPT !.refs = n] \in Row
         /\ \A b \in BOOLEAN : [row EXCEPT !.hot = b] \in Row
         /\ \A b \in BOOLEAN : [row EXCEPT !.cold = b] \in Row
         /\ \A t \in 0..2 : [row EXCEPT !.pref = t] \in Row
         /\ \A b \in BOOLEAN : [row EXCEPT !.promoted = b] \in Row
         /\ \A b \in BOOLEAN : [row EXCEPT !.garbage = b] \in Row
  BY DEF Row

LEMMA TiersArePrefs == 1 \in 0..2 /\ 2 \in 0..2
  OBVIOUS

\* The presence updates yield rows.
LEMMA PromotedByWriteType == ASSUME NEW row \in Row PROVE PromotedByWrite(row) \in Row
<1>1. PICK r1 \in Row : r1 = [row EXCEPT !.hot = TRUE]
  BY RowUpdates
<1>2. PICK r2 \in Row : r2 = [r1 EXCEPT !.pref = 1]
  BY RowUpdates, TiersArePrefs, Zenon
<1>3. PICK r3 \in Row : r3 = [r2 EXCEPT !.promoted = TRUE]
  BY RowUpdates
<1>4. PromotedByWrite(row) =
       [[[row EXCEPT !.hot = TRUE] EXCEPT !.pref = 1] EXCEPT !.promoted = TRUE]
  BY DEF PromotedByWrite
<1> QED BY <1>1, <1>2, <1>3, <1>4, Zenon

LEMMA PromotedByCopyUpType == ASSUME NEW row \in Row PROVE PromotedByCopyUp(row) \in Row
<1>1. PICK r1 \in Row : r1 = [row EXCEPT !.hot = TRUE]
  BY RowUpdates
<1>2. PICK r2 \in Row : r2 = [r1 EXCEPT !.cold = TRUE]
  BY RowUpdates
<1>3. PICK r3 \in Row : r3 = [r2 EXCEPT !.pref = 1]
  BY RowUpdates, TiersArePrefs, Zenon
<1>4. PICK r4 \in Row : r4 = [r3 EXCEPT !.promoted = TRUE]
  BY RowUpdates
<1>5. PromotedByCopyUp(row) =
       [[[[row EXCEPT !.hot = TRUE] EXCEPT !.cold = TRUE] EXCEPT !.pref = 1] EXCEPT !.promoted = TRUE]
  BY DEF PromotedByCopyUp
<1> QED BY <1>1, <1>2, <1>3, <1>4, <1>5, Zenon

LEMMA DemotedType == ASSUME NEW row \in Row PROVE Demoted(row) \in Row
<1>1. PICK r1 \in Row : r1 = [row EXCEPT !.hot = FALSE]
  BY RowUpdates
<1>2. PICK r2 \in Row : r2 = [r1 EXCEPT !.cold = TRUE]
  BY RowUpdates
<1>3. PICK r3 \in Row : r3 = [r2 EXCEPT !.pref = 2]
  BY RowUpdates, TiersArePrefs, Zenon
<1>4. Demoted(row) =
       [[[row EXCEPT !.hot = FALSE] EXCEPT !.cold = TRUE] EXCEPT !.pref = 2]
  BY DEF Demoted
<1> QED BY <1>1, <1>2, <1>3, <1>4, Zenon

LEMMA ColdGarbageType == ASSUME NEW row \in Row PROVE ColdGarbage(row) \in Row
<1>1. PICK r1 \in Row : r1 = [row EXCEPT !.refs = 0]
  BY RowUpdates
<1>2. PICK r2 \in Row : r2 = [r1 EXCEPT !.hot = FALSE]
  BY RowUpdates
<1>3. PICK r3 \in Row : r3 = [r2 EXCEPT !.cold = TRUE]
  BY RowUpdates
<1>4. PICK r4 \in Row : r4 = [r3 EXCEPT !.pref = 2]
  BY RowUpdates, TiersArePrefs, Zenon
<1>5. PICK r5 \in Row : r5 = [r4 EXCEPT !.garbage = TRUE]
  BY RowUpdates
<1>6. ColdGarbage(row) =
       [[[[[row EXCEPT !.refs = 0] EXCEPT !.hot = FALSE] EXCEPT !.cold = TRUE] EXCEPT !.pref = 2] EXCEPT !.garbage = TRUE]
  BY DEF ColdGarbage
<1> QED BY <1>1, <1>2, <1>3, <1>4, <1>5, <1>6, Zenon

Repairs ==
  [hot : {"keep", "yes", "no"}, cold : {"keep", "yes", "no"}, pref : 0..2]

\* set_block_presence changes the presence columns and nothing else.
LEMMA RepairedColumns ==
  ASSUME NEW row \in Row, NEW repair \in Repairs
  PROVE  LET out == Repaired(row, repair)
         IN  /\ out \in Row
             /\ out.kind = row.kind /\ out.refs = row.refs /\ out.garbage = row.garbage
             /\ out.hot = (IF repair.hot = "keep" THEN row.hot ELSE repair.hot = "yes")
             /\ out.cold = (IF repair.cold = "keep" THEN row.cold ELSE repair.cold = "yes")
             /\ out.pref = (IF repair.pref = 0 THEN row.pref ELSE repair.pref)
<1> DEFINE hot == IF repair.hot = "keep" THEN row.hot ELSE repair.hot = "yes"
<1> DEFINE cold == IF repair.cold = "keep" THEN row.cold ELSE repair.cold = "yes"
<1> DEFINE pref == IF repair.pref = 0 THEN row.pref ELSE repair.pref
<1> DEFINE out == Repaired(row, repair)
<1>1. hot \in BOOLEAN /\ cold \in BOOLEAN /\ pref \in 0..2
  BY DEF Repairs, Row
<1>2. out = [row EXCEPT !.hot = hot, !.cold = cold, !.pref = pref]
  BY DEF Repaired
<1> HIDE DEF hot, cold, pref, out
<1>3. out \in Row
  <2>1. PICK r1 \in Row : r1 = [row EXCEPT !.hot = hot]
    BY <1>1, RowUpdates
  <2>2. PICK r2 \in Row : r2 = [r1 EXCEPT !.cold = cold]
    BY <1>1, RowUpdates
  <2>3. PICK r3 \in Row : r3 = [r2 EXCEPT !.pref = pref]
    BY <1>1, RowUpdates
  <2>4. out = [[[row EXCEPT !.hot = hot] EXCEPT !.cold = cold] EXCEPT !.pref = pref]
    BY <1>2
  <2> QED
    BY <2>1, <2>2, <2>3, <2>4, Zenon
<1>4. /\ out.kind = row.kind /\ out.refs = row.refs /\ out.garbage = row.garbage
      /\ out.hot = hot /\ out.cold = cold /\ out.pref = pref
  BY <1>2 DEF Row
<1> QED
  BY <1>3, <1>4 DEF out, hot, cold, pref

\* An update by hash that moves no count leaves a sound row, whatever the row
\* has become: the CHECK refuses the others.
LEMMA UpdatedByHashSound ==
  ASSUME NEW row \in Row \cup {NoRow}, SoundRow(row), NEW new,
         row # NoRow =>
           /\ new \in Row
           /\ new.kind = row.kind /\ new.refs = row.refs /\ new.garbage = row.garbage
  PROVE  LET out == UpdatedByHash(row, new)
         IN  out \in Row \cup {NoRow} /\ SoundRow(out) /\ RowRefs(out) = RowRefs(row)
<1>1. CASE row # NoRow /\ CheckConstraint(new)
  <2>1. UpdatedByHash(row, new) = new /\ new # NoRow
    BY <1>1, NoRowIsNoRow DEF UpdatedByHash
  <2> QED
    BY <1>1, <2>1 DEF SoundRow, RowRefs
<1>2. CASE ~(row # NoRow /\ CheckConstraint(new))
  BY <1>2 DEF UpdatedByHash
<1> QED
  BY <1>1, <1>2

\* apply_block_refcount_deltas on one row: the count moves by the delta, and
\* a row that ends without references is cold garbage or gone.
LEMMA AppliedDeltaSound ==
  ASSUME NEW row \in Row \cup {NoRow}, EnsuredRowOK(row), NEW delta \in Int,
         DeltaAllowed(row, delta), row = NoRow => delta <= 0,
         SoundRow(row) \/ delta > 0
  PROVE  LET out == AppliedDelta(row, delta)
         IN  /\ out \in Row \cup {NoRow}
             /\ SoundRow(out)
             /\ RowRefs(out) = RowRefs(row) + delta
<1>1. CASE delta = 0 \/ row = NoRow
  BY <1>1 DEF AppliedDelta, DeltaAllowed, SoundRow, RowRefs, Row
<1>2. CASE delta > 0 /\ row # NoRow
  <2>1. row \in Row /\ row.refs \in Nat
    BY <1>2 DEF Row
  <2>2. AppliedDelta(row, delta) = [row EXCEPT !.refs = @ + delta, !.garbage = FALSE]
    BY <1>2 DEF AppliedDelta
  <2> DEFINE out == AppliedDelta(row, delta)
  <2>3. out \in Row /\ out # NoRow
    <3>1. row.refs + delta \in Nat
      BY <1>2, <2>1
    <3>2. PICK r1 \in Row : r1 = [row EXCEPT !.refs = row.refs + delta]
      BY <2>1, <3>1, RowUpdates
    <3>3. PICK r2 \in Row : r2 = [r1 EXCEPT !.garbage = FALSE]
      BY RowUpdates
    <3>4. out = [[row EXCEPT !.refs = row.refs + delta] EXCEPT !.garbage = FALSE]
      BY <2>2
    <3> QED BY <3>2, <3>3, <3>4, NoRowIsNoRow, Zenon
  <2>4. /\ out.kind = row.kind /\ out.hot = row.hot /\ out.cold = row.cold
        /\ out.pref = row.pref /\ out.refs = row.refs + delta
        /\ out.garbage = FALSE
    BY <2>1, <2>2 DEF Row
  <2>5. CheckConstraint(out)
    BY <1>2, <2>4 DEF EnsuredRowOK, CheckConstraint
  <2>6. out.refs # 0
    BY <1>2, <2>1, <2>4
  <2>7. SoundRow(out)
    BY <2>4, <2>5, <2>6 DEF SoundRow
  <2> QED
    BY <1>2, <2>3, <2>4, <2>7 DEF RowRefs
<1>3. CASE delta < 0 /\ row # NoRow /\ ~Released(row, delta)
  <2>1. row \in Row /\ row.refs \in Nat /\ row.refs + delta > 0
    BY <1>3 DEF Row, DeltaAllowed, Released
  <2>2. AppliedDelta(row, delta) = [row EXCEPT !.refs = @ + delta]
    BY <1>3 DEF AppliedDelta
  <2> DEFINE out == AppliedDelta(row, delta)
  <2>3. out \in Row /\ out # NoRow
    BY <1>3, <2>1, <2>2, NoRowIsNoRow DEF Row
  <2>4. /\ out.kind = row.kind /\ out.hot = row.hot /\ out.cold = row.cold
        /\ out.pref = row.pref /\ out.refs = row.refs + delta
        /\ out.garbage = row.garbage
    BY <2>1, <2>2 DEF Row
  <2>5. CheckConstraint(out)
    BY <1>3, <2>4 DEF EnsuredRowOK, CheckConstraint
  <2>6. out.refs # 0 /\ row.refs # 0
    BY <1>3, <2>1, <2>4
  <2>7. ~out.garbage
    BY <1>3, <2>4, <2>6 DEF EnsuredRowOK
  <2>8. SoundRow(out)
    BY <2>5, <2>6, <2>7 DEF SoundRow
  <2> QED
    BY <1>3, <2>3, <2>4, <2>8 DEF RowRefs
<1>4. CASE delta < 0 /\ row # NoRow /\ Released(row, delta)
  <2>1. row \in Row /\ row.refs + delta = 0
    BY <1>4 DEF Released
  <2>2. CASE row.kind = "tiered" /\ row.cold
    <3>1. AppliedDelta(row, delta) = ColdGarbage(row)
      BY <1>4, <2>2 DEF AppliedDelta
    <3> DEFINE out == AppliedDelta(row, delta)
    <3>2. out \in Row /\ out # NoRow
      BY <2>1, <3>1, NoRowIsNoRow, ColdGarbageType
    <3>3. /\ out.kind = "tiered" /\ out.refs = 0 /\ out.garbage = TRUE
          /\ out.cold = TRUE /\ out.pref = 2
      BY <2>1, <2>2, <3>1 DEF ColdGarbage, Row
    <3>4. SoundRow(out)
      BY <3>3 DEF SoundRow, CheckConstraint, Tiers
    <3> QED
      BY <1>4, <2>1, <3>2, <3>3, <3>4 DEF RowRefs
  <2>3. CASE ~(row.kind = "tiered" /\ row.cold)
    BY <1>4, <2>1, <2>3 DEF AppliedDelta, SoundRow, RowRefs
  <2> QED
    BY <2>2, <2>3
<1> QED
  BY <1>1, <1>2, <1>3, <1>4

\* ensure_prepared_blocks makes a legal row and moves no count.
LEMMA EnsuredRowSound ==
  ASSUME NEW row \in Row \cup {NoRow}, SoundRow(row),
         NEW kind \in Kinds, NEW enc \in Encodings
  PROVE  LET out == EnsuredRow(row, kind, enc)
         IN  /\ out \in Row
             /\ out # NoRow
             /\ EnsuredRowOK(out)
             /\ RowRefs(out) = RowRefs(row)
             /\ out.refs = RowRefs(row)
             /\ out.kind = IF row = NoRow THEN kind ELSE row.kind
             /\ out.cold <=> row # NoRow /\ row.cold
<1>1. CASE row = NoRow
  <2>1. InsertedRow(kind, enc) \in Row
    BY DEF InsertedRow, Row, Kinds
  <2> QED
    BY <1>1, <2>1, NoRowIsNoRow
    DEF EnsuredRow, InsertedRow, EnsuredRowOK, RowRefs, CheckConstraint, Kinds, Tiers
<1>2. CASE row # NoRow /\ row.kind = "tiered" /\ ~row.hot
  <2> DEFINE out == EnsuredRow(row, kind, enc)
  <2>1. out = PromotedByWrite(row)
    BY <1>2 DEF EnsuredRow
  <2>2. out \in Row /\ out # NoRow
    BY <1>2, <2>1, NoRowIsNoRow, PromotedByWriteType
  <2>3. /\ out.kind = row.kind /\ out.refs = row.refs
        /\ out.garbage = row.garbage /\ out.cold = row.cold /\ out.hot = TRUE /\ out.pref = 1
    BY <1>2, <2>1 DEF PromotedByWrite, Row
  <2>4. EnsuredRowOK(out)
    BY <1>2, <2>3 DEF EnsuredRowOK, SoundRow, CheckConstraint, Tiers
  <2> QED
    BY <1>2, <2>2, <2>3, <2>4 DEF RowRefs
<1>3. CASE row # NoRow /\ ~(row.kind = "tiered" /\ ~row.hot)
  BY <1>3, NoRowIsNoRow DEF EnsuredRow, EnsuredRowOK, SoundRow, RowRefs, Row
<1> QED
  BY <1>1, <1>2, <1>3
=============================================================================
