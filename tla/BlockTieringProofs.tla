------------------------- MODULE BlockTieringProofs -------------------------
(***************************************************************************)
(* Proofs about BlockTiering, for any set of digests, any finite set of    *)
(* readers and any bounds.                                                 *)
(***************************************************************************)
EXTENDS BlockTiering, BlockRowsProofs, FiniteSetTheorems

(***************************************************************************)
(* Rows.                                                                   *)
(***************************************************************************)
\* What every row of this module is: the row of a tiered block.
TieredRow(row) == row # NoRow => row.kind = "tiered" /\ SoundRow(row)

\* The row claims a cold copy.
ClaimsCold(row) == row # NoRow /\ row.cold

\* The row after a store of its block.
LEMMA StoredRow ==
  ASSUME NEW row \in MaybeRow, TieredRow(row), NEW e \in Encodings
  PROVE  LET out == AppliedDelta(EnsuredRow(row, "tiered", e), 1)
         IN  /\ out \in MaybeRow /\ out # NoRow /\ TieredRow(out)
             /\ RowRefs(out) = RowRefs(row) + 1
             /\ ClaimsCold(out) <=> ClaimsCold(row)
<1> DEFINE mid == EnsuredRow(row, "tiered", e)
<1> DEFINE out == AppliedDelta(mid, 1)
<1>1. /\ mid \in Row /\ mid # NoRow /\ mid.kind = "tiered" /\ EnsuredRowOK(mid)
      /\ RowRefs(mid) = RowRefs(row) /\ (ClaimsCold(mid) <=> ClaimsCold(row))
  BY EnsuredRowSound, NoRowIsNoRow DEF TieredRow, MaybeRow, Kinds, ClaimsCold, SoundRow
<1> HIDE DEF mid
<1>2. mid.refs \in Nat /\ out = [mid EXCEPT !.refs = mid.refs + 1, !.garbage = FALSE]
  BY <1>1 DEF AppliedDelta, Row
<1>3. out.kind = "tiered" /\ out.cold = mid.cold
  BY <1>1, <1>2 DEF Row
<1>4. out \in Row \cup {NoRow} /\ SoundRow(out) /\ RowRefs(out) = RowRefs(mid) + 1
  BY <1>1, AppliedDeltaSound DEF DeltaAllowed
<1>5. out # NoRow
  <2>1. RowRefs(mid) \in Nat
    BY <1>1, <1>2 DEF RowRefs
  <2> QED
    BY <1>4, <2>1 DEF RowRefs
<1> HIDE DEF out
<1>6. out \in MaybeRow /\ TieredRow(out) /\ (ClaimsCold(out) <=> ClaimsCold(row))
  BY <1>1, <1>3, <1>4, <1>5 DEF TieredRow, ClaimsCold, MaybeRow
<1> QED
  BY <1>1, <1>4, <1>5, <1>6 DEF out, mid

\* The row after the release of a reference: a cold copy stays known, and a hot
\* file is queued only if no row needs it.
LEMMA DroppedRow ==
  ASSUME NEW row \in MaybeRow, TieredRow(row), RowRefs(row) > 0
  PROVE  LET out == AppliedDelta(row, -1)
         IN  /\ out \in MaybeRow /\ TieredRow(out)
             /\ RowRefs(out) = RowRefs(row) - 1
             /\ ClaimsCold(out) <=> ClaimsCold(row)
             /\ QueuesHotFile(row, -1) => out = NoRow \/ ClaimsCold(out)
<1> DEFINE out == AppliedDelta(row, -1)
<1>1. row # NoRow /\ row \in Row /\ row.kind = "tiered" /\ SoundRow(row) /\ row.refs \in Nat
      /\ row.refs > 0 /\ CheckConstraint(row) /\ ~row.garbage
  BY DEF RowRefs, MaybeRow, TieredRow, SoundRow, Row
<1>2. CASE row.refs # 1
  <2>1. out = [row EXCEPT !.refs = row.refs + (-1)]
    BY <1>1, <1>2 DEF AppliedDelta, Released
  <2>2. /\ out.kind = "tiered" /\ out.cold = row.cold /\ out.refs = row.refs - 1
        /\ ~QueuesHotFile(row, -1)
    BY <1>1, <1>2, <2>1 DEF QueuesHotFile, Released, Row
  <2>3. out \in Row \cup {NoRow} /\ SoundRow(out) /\ RowRefs(out) = RowRefs(row) + (-1)
    BY <1>1, AppliedDeltaSound DEF DeltaAllowed, EnsuredRowOK
  <2>4. out # NoRow
    BY <1>1, <1>2, <2>3 DEF RowRefs
  <2> QED
    BY <1>1, <2>2, <2>3, <2>4 DEF TieredRow, ClaimsCold, MaybeRow, RowRefs
<1>3. CASE row.refs = 1 /\ row.cold
  <2>1. out = ColdGarbage(row)
    BY <1>1, <1>3 DEF AppliedDelta, Released
  <2>2. out \in Row /\ out # NoRow
    BY <1>1, <2>1, ColdGarbageType, NoRowIsNoRow
  <2>3. out.kind = "tiered" /\ out.cold /\ out.refs = 0 /\ out.garbage /\ out.pref = 2
    BY <1>1, <2>1 DEF ColdGarbage, Row
  <2> QED
    BY <1>1, <1>3, <2>2, <2>3
    DEF TieredRow, SoundRow, CheckConstraint, Tiers, ClaimsCold, MaybeRow, RowRefs
<1>4. CASE row.refs = 1 /\ ~row.cold
  <2>1. out = NoRow
    BY <1>1, <1>4 DEF AppliedDelta, Released
  <2> QED
    BY <1>1, <1>4, <2>1 DEF TieredRow, ClaimsCold, MaybeRow, RowRefs
<1> QED
  BY <1>2, <1>3, <1>4

\* The row after a demotion, and after a copy-up.
LEMMA MovedRow ==
  ASSUME NEW row \in Row, TieredRow(row), NEW out \in {Demoted(row), PromotedByCopyUp(row)}
  PROVE  out \in Row /\ out # NoRow /\ TieredRow(out) /\ RowRefs(out) = RowRefs(row) /\ ClaimsCold(out)
<1>1. row # NoRow /\ out \in Row /\ out # NoRow
  BY DemotedType, PromotedByCopyUpType, NoRowIsNoRow
<1>2. /\ out.kind = row.kind /\ out.refs = row.refs /\ out.garbage = row.garbage
      /\ out.cold /\ out.pref \in Tiers
  BY DEF Demoted, PromotedByCopyUp, Row, Tiers
<1> QED
  BY <1>1, <1>2 DEF TieredRow, SoundRow, CheckConstraint, RowRefs, ClaimsCold

\* The row after a correction that the CHECK lets through.
LEMMA RepairedRow ==
  ASSUME NEW row \in Row, TieredRow(row), NEW repair \in Repairs
  PROVE  LET out == Repaired(row, repair)
         IN  /\ out \in Row /\ out # NoRow /\ out.kind = "tiered"
             /\ CheckConstraint(out) => TieredRow(out)
             /\ RowRefs(out) = RowRefs(row)
             /\ out.hot = (IF repair.hot = "keep" THEN row.hot ELSE repair.hot = "yes")
             /\ out.cold = (IF repair.cold = "keep" THEN row.cold ELSE repair.cold = "yes")
             /\ out.pref = (IF repair.pref = 0 THEN row.pref ELSE repair.pref)
<1> DEFINE out == Repaired(row, repair)
<1>1. row # NoRow /\ out # NoRow /\ out \in Row
  BY NoRowIsNoRow, RepairedColumns
<1>2. out.kind = row.kind /\ out.refs = row.refs /\ out.garbage = row.garbage
  BY RepairedColumns
<1>3. /\ out.hot = (IF repair.hot = "keep" THEN row.hot ELSE repair.hot = "yes")
      /\ out.cold = (IF repair.cold = "keep" THEN row.cold ELSE repair.cold = "yes")
      /\ out.pref = (IF repair.pref = 0 THEN row.pref ELSE repair.pref)
  BY RepairedColumns
<1> HIDE DEF out
<1> QED
  BY <1>1, <1>2, <1>3 DEF TieredRow, SoundRow, RowRefs, out

\* The row of a promoted block after cleanup has removed the cold copy.
LEMMA UncooledRow ==
  ASSUME NEW row \in MaybeRow, TieredRow(row), PromotedColdCopy(row)
  PROVE  LET out == [row EXCEPT !.cold = FALSE]
         IN  out \in MaybeRow /\ TieredRow(out) /\ RowRefs(out) = RowRefs(row)
<1> DEFINE out == [row EXCEPT !.cold = FALSE]
<1>1. row \in Row /\ row # NoRow /\ row.hot /\ row.pref = 1
  BY DEF PromotedColdCopy, MaybeRow
<1>2. out \in Row
  BY <1>1, RowUpdates
<1>3. /\ out.kind = row.kind /\ out.refs = row.refs /\ out.garbage = row.garbage
      /\ out.hot = row.hot /\ out.pref = row.pref
  BY <1>1 DEF Row
<1>4. out # NoRow
  BY <1>2, NoRowIsNoRow
<1> QED
  BY <1>1, <1>2, <1>3, <1>4 DEF TieredRow, SoundRow, CheckConstraint, RowRefs, MaybeRow, Tiers

(***************************************************************************)
(* What holds under every setting.                                         *)
(***************************************************************************)
Table == [Digests -> MaybeRow]
TieredRows(table) == \A d \in Digests : TieredRow(table[d])

\* What the step of a transaction says about its rows: a write has dropped nothing
\* yet, and a block that a demotion has chosen has a row.
TxnShape ==
  /\ txn.kind = "none" => txn = Idle
  /\ txn.kind = "write" /\ txn.step \in {"begin", "stored"} =>
       \A d \in Digests : RowRefs(txn.rows[d]) >= RowRefs(rows[d])
  /\ txn.kind = "demote" /\ txn.step \in {"copy", "unlink"} =>
       \A d \in txn.targets : txn.rows[d] # NoRow

\* Every row of the committed table is sound.
CommittedRowsSound == \A d \in Digests : SoundRow(rows[d])

\* The inductive invariant for the types.
Typed == TypeOK /\ TieredRows(rows) /\ TieredRows(txn.rows) /\ TxnShape

(***************************************************************************)
(* Types.                                                                  *)
(***************************************************************************)
FileTable == [Tiers -> [Digests -> Encodings \cup {NoFile}]]
TxnKinds == {"none", "write", "demote", "cleanup"}
Steps == {"none", "begin", "stored", "dropped", "both", "select",
          "copy", "unlink", "end", "pending", "promoted", "garbage"}
TxnStates ==
  [kind : TxnKinds, step : Steps, targets : SUBSET Digests, rows : Table, queue : SUBSET Entry]
DrainStates == [todo : SUBSET Entry, done : SUBSET Entry]
CopyUpStates == [Digests -> {"idle", "scheduled", "copied", "seen"}]
ReaderPcs == {"idle", "preferred", "missing", "unavailable", "probe-hot",
              "probe-cold", "selected", "repair", "failed"}
ReaderStates ==
  [pc : ReaderPcs, row : MaybeRow, digests : SUBSET Digests, tier : 0..2,
   hotSeen : BOOLEAN, outage : BOOLEAN, released : BOOLEAN, repair : Repairs]

LEMMA TypeParts ==
  TypeOK <=> /\ rows \in Table /\ queue \in SUBSET Entry /\ files \in FileTable
             /\ up \in SUBSET Tiers /\ txn \in TxnStates /\ drain \in DrainStates
             /\ copyup \in CopyUpStates /\ readers \in [Readers -> ReaderStates]
BY DEF TypeOK, Table, FileTable, TxnKinds, Steps, TxnStates, DrainStates, CopyUpStates,
  ReaderPcs, ReaderStates, Repairs

\* An assignment of one field of a transaction.
LEMMA TxnAssigned ==
  ASSUME NEW x \in TxnStates
  PROVE  /\ \A step \in Steps : [x EXCEPT !.step = step] \in TxnStates
         /\ \A targets \in SUBSET Digests : [x EXCEPT !.targets = targets] \in TxnStates
         /\ \A table \in Table : [x EXCEPT !.rows = table] \in TxnStates
         /\ \A q \in SUBSET Entry : [x EXCEPT !.queue = q] \in TxnStates
BY DEF TxnStates

\* The assignments the actions make.
LEMMA TxnUpdates ==
  ASSUME txn \in TxnStates, NEW step \in Steps, NEW table \in Table,
         NEW targets \in SUBSET Digests, NEW q \in SUBSET Entry
  PROVE  /\ [txn EXCEPT !.step = step, !.rows = table] \in TxnStates
         /\ [txn EXCEPT !.step = step, !.rows = table, !.queue = q] \in TxnStates
         /\ [txn EXCEPT !.targets = targets] \in TxnStates
         /\ [txn EXCEPT !.targets = targets, !.step = step] \in TxnStates
         /\ [txn EXCEPT !.targets = targets, !.queue = q] \in TxnStates
<1>1. PICK t1 \in TxnStates : t1 = [txn EXCEPT !.step = step]
  BY TxnAssigned
<1>2. PICK t2 \in TxnStates : t2 = [t1 EXCEPT !.rows = table]
  BY TxnAssigned
<1>3. PICK t3 \in TxnStates : t3 = [t2 EXCEPT !.queue = q]
  BY TxnAssigned
<1>4. PICK t4 \in TxnStates : t4 = [txn EXCEPT !.targets = targets]
  BY TxnAssigned
<1>5. PICK t5 \in TxnStates : t5 = [t4 EXCEPT !.step = step]
  BY TxnAssigned
<1>6. PICK t6 \in TxnStates : t6 = [t4 EXCEPT !.queue = q]
  BY TxnAssigned
<1> QED
  BY <1>1, <1>2, <1>3, <1>4, <1>5, <1>6, Zenon

LEMMA TableUpdate ==
  ASSUME NEW table \in Table, TieredRows(table), NEW d \in Digests,
         NEW row \in MaybeRow, TieredRow(row)
  PROVE  LET new == [table EXCEPT ![d] = row]
         IN  /\ new \in Table /\ TieredRows(new) /\ new[d] = row
             /\ \A x \in Digests \ {d} : new[x] = table[x]
BY DEF Table, TieredRows

LEMMA EmptyTableTyped == EmptyTable \in Table /\ TieredRows(EmptyTable) /\ Idle \in TxnStates
                         /\ Idle.rows = EmptyTable /\ Idle.kind = "none"
<1>1. EmptyTable \in Table /\ TieredRows(EmptyTable)
  BY DEF EmptyTable, Table, TieredRows, TieredRow, MaybeRow
<1>2. Idle \in TxnStates /\ Idle.rows = EmptyTable /\ Idle.kind = "none"
  BY <1>1 DEF Idle, TxnStates, TxnKinds, Steps
<1> QED
  BY <1>1, <1>2

\* A set of numbers up to a bound that is not empty has a largest member.
LEMMA LargestExists ==
  ASSUME NEW top \in Nat, NEW S \in SUBSET (0..top), S # {}
  PROVE  Max(S) \in S /\ \A j \in S : Max(S) >= j
<1> DEFINE T == {n \in Nat : top - n \in S}
<1> DEFINE R == {ss \in Nat \X Nat : ss[1] < ss[2]}
<1>1. PICK i \in S : TRUE
  OBVIOUS
<1>2. top - i \in T
  BY <1>1
<1>3. PICK n \in T : \A m \in T : ~(<<m, n>> \in R)
  <2>1. IsWellFoundedOn(R, Nat)
    BY NatLessThanWellFounded DEF OpToRel
  <2> QED
    BY <1>2, <2>1, WFMin
<1>4. \A m \in T : n <= m
  <2> TAKE m \in T
  <2>1. m \in Nat /\ n \in Nat
    OBVIOUS
  <2>2. m < n => <<m, n>> \in R
    BY <2>1
  <2> QED
    BY <1>3, <2>1, <2>2
<1>5. \A j \in S : top - n >= j
  <2> TAKE j \in S
  <2>1. j \in Nat /\ top - j \in Nat /\ top - (top - j) = j
    OBVIOUS
  <2>2. top - j \in T
    BY <2>1
  <2>3. n <= top - j
    BY <2>2, <1>4
  <2> QED
    BY <2>1, <2>3
<1>6. top - n \in S
  OBVIOUS
<1> QED
  BY <1>5, <1>6, Zenon DEF Max

\* The id of a new entry is a positive number.
LEMMA NewIdTyped ==
  ASSUME NEW q \in SUBSET Entry
  PROVE  NewId(q) \in Nat \ {0}
<1>1. {0} \cup {entry.id : entry \in q} \in SUBSET (0..MaxId)
  BY BoundsAssumption DEF Entry
<1>2. Max({0} \cup {entry.id : entry \in q}) \in 0..MaxId
  BY <1>1, LargestExists, BoundsAssumption
<1> QED
  BY <1>2, BoundsAssumption DEF NewId

LEMMA EnqueuedTyped ==
  ASSUME NEW q \in SUBSET Entry, NEW d \in Digests, NewId(q) <= MaxId
  PROVE  /\ Enqueued(q, d) \in SUBSET Entry
         /\ \A entry \in Enqueued(q, d) : entry \in q \/ entry.digest = d
<1> DEFINE new == [id |-> NewId(q), digest |-> d]
<1>1. new \in Entry
  BY NewIdTyped, BoundsAssumption DEF Entry
<1>2. Enqueued(q, d) = q \/ Enqueued(q, d) = q \cup {new}
  BY DEF Enqueued
<1> QED
  BY <1>1, <1>2

(***************************************************************************)
(* The steps keep the types.                                               *)
(***************************************************************************)
LEMMA InitTyped == Init => Typed
<1> SUFFICES ASSUME Init PROVE Typed
  OBVIOUS
<1>1. NoRepair \in Repairs /\ Resting \in ReaderStates
  BY DEF NoRepair, Repairs, Resting, ReaderStates, ReaderPcs, MaybeRow
<1>2. readers \in [Readers -> ReaderStates] /\ drain \in DrainStates /\ copyup \in CopyUpStates
      /\ files \in FileTable
  BY <1>1 DEF Init, NoDrain, DrainStates, CopyUpStates, FileTable
<1>3. TypeOK
  BY <1>2, TypeParts, EmptyTableTyped DEF Init
<1>4. TxnShape
  BY EmptyTableTyped DEF Init, TxnShape
<1> QED
  BY <1>3, <1>4, EmptyTableTyped DEF Init, Typed

\* A step that leaves tables and transaction alone.
LEMMA OutsideTyped ==
  ASSUME Typed, UNCHANGED <<rows, txn>>, queue' \in SUBSET Entry, files' \in FileTable,
         up' \in SUBSET Tiers, drain' \in DrainStates, copyup' \in CopyUpStates,
         readers' \in [Readers -> ReaderStates]
  PROVE  Typed'
<1>1. TypeOK'
  BY TypeParts DEF Typed, TypeOK, Table, FileTable, TxnKinds, Steps, TxnStates, DrainStates,
    CopyUpStates, ReaderPcs, ReaderStates, Repairs
<1> QED
  BY <1>1 DEF Typed, TieredRows, TxnShape
\* A step of a transaction, which touches at most the payload files beside itself.
LEMMA InsideTyped ==
  ASSUME Typed, UNCHANGED <<rows, queue, up, drain, copyup, readers>>, files' \in FileTable,
         txn' \in TxnStates, TieredRows(txn.rows)', TxnShape'
  PROVE  Typed'
<1>1. TypeOK'
  BY TypeParts DEF Typed, TypeOK, Table, FileTable, TxnKinds, Steps, TxnStates, DrainStates,
    CopyUpStates, ReaderPcs, ReaderStates, Repairs
<1> QED
  BY <1>1 DEF Typed, TieredRows

\* What Typed says of the rows of one digest.
LEMMA RowsTyped ==
  ASSUME Typed, NEW d \in Digests
  PROVE  /\ rows \in Table /\ rows[d] \in MaybeRow /\ TieredRow(rows[d]) /\ RowRefs(rows[d]) \in Nat
         /\ txn \in TxnStates /\ txn.rows \in Table /\ txn.queue \in SUBSET Entry
         /\ txn.rows[d] \in MaybeRow /\ TieredRow(txn.rows[d]) /\ RowRefs(txn.rows[d]) \in Nat
         /\ files \in FileTable /\ files[1][d] \in Encodings \cup {NoFile}
         /\ files[2][d] \in Encodings \cup {NoFile}
<1>1. rows \in Table /\ txn \in TxnStates /\ txn.rows \in Table /\ files \in FileTable
      /\ txn.queue \in SUBSET Entry
  BY TypeParts DEF Typed, TxnStates
<1>2. rows[d] \in MaybeRow /\ txn.rows[d] \in MaybeRow
  BY <1>1 DEF Table
<1>3. \A row \in MaybeRow : RowRefs(row) \in Nat
  BY DEF RowRefs, MaybeRow, Row
<1>4. files[1][d] \in Encodings \cup {NoFile} /\ files[2][d] \in Encodings \cup {NoFile}
  BY <1>1 DEF FileTable, Tiers
<1> QED
  BY <1>1, <1>2, <1>3, <1>4 DEF Typed, TieredRows

\* A change of one payload file.
LEMMA FileUpdate ==
  ASSUME files \in FileTable, NEW t \in Tiers, NEW d \in Digests,
         NEW file \in Encodings \cup {NoFile}
  PROVE  LET new == [files EXCEPT ![t][d] = file]
         IN  /\ new \in FileTable /\ new[t][d] = file
             /\ \A u \in Tiers, x \in Digests : u # t \/ x # d => new[u][x] = files[u][x]
BY DEF FileTable

\* copy_atomic changes one file, and only from missing to the payload of the source.
LEMMA CopiedFile ==
  ASSUME files \in FileTable, NEW d \in Digests, NEW s \in Tiers, NEW t \in Tiers
  PROVE  LET new == Copied(d, s, t)
         IN  /\ new \in FileTable
             /\ \A u \in Tiers, x \in Digests :
                  \/ new[u][x] = files[u][x]
                  \/ /\ u = t /\ x = d /\ files[u][x] = NoFile
                     /\ new[u][x] = files[s][x] /\ new[u][x] # NoFile
             /\ Present(s, d) /\ t \in up => new[t][d] # NoFile
<1>1. CASE Present(s, d) /\ Missing(t, d)
  <2> DEFINE file == files[s][d]
             new == [files EXCEPT ![t][d] = file]
  <2>1. file \in Encodings \cup {NoFile}
    BY DEF FileTable
  <2>2. /\ new \in FileTable /\ new[t][d] = file
        /\ \A u \in Tiers, x \in Digests : u # t \/ x # d => new[u][x] = files[u][x]
    <3> HIDE DEF file
    <3> QED
      BY <2>1 DEF FileTable
  <2>3. Copied(d, s, t) = new
    BY <1>1 DEF Copied
  <2>4. files[s][d] # NoFile /\ files[t][d] = NoFile
    BY <1>1 DEF Present, Missing
  <2> HIDE DEF new
  <2> QED
    BY <2>2, <2>3, <2>4
<1>2. CASE ~(Present(s, d) /\ Missing(t, d))
  BY <1>2 DEF Copied, Present, Missing
<1> QED
  BY <1>1, <1>2

(***************************************************************************)
(* The actions, in the order of Next.                                      *)
(***************************************************************************)
LEMMA BeginTyped ==
  ASSUME Typed, NEW kind \in TxnKinds, NEW step \in Steps, NEW targets \in SUBSET Digests,
         kind = "demote" => step = "select", kind # "none", Begin(kind, step, targets)
  PROVE  Typed'
<1>1. rows \in Table /\ queue \in SUBSET Entry /\ files' \in FileTable /\ TieredRows(rows)
  BY TypeParts DEF Typed, Begin
<1>2. /\ txn' \in TxnStates /\ txn'.kind = kind /\ txn'.step = step /\ txn'.rows = rows
  BY <1>1 DEF Begin, TxnStates
<1>3. TieredRows(txn.rows)'
  BY <1>1, <1>2 DEF TieredRows
<1>4. \A d \in Digests : RowRefs(rows[d]) \in Nat
  BY RowsTyped
<1>5. TxnShape'
  BY <1>2, <1>4 DEF TxnShape, Begin
<1> QED
  BY <1>1, <1>2, <1>3, <1>5, InsideTyped DEF Begin

\* A commit notes in each read whether its block has lost its last reference.
LEMMA CommitReaders ==
  ASSUME Typed, Commit
  PROVE  /\ readers' \in [Readers -> ReaderStates]
         /\ \A r \in Readers :
              /\ readers'[r] = [readers[r] EXCEPT !.released = readers'[r].released]
              /\ readers'[r].released <=> readers[r].released \/ LosesBlock(r, txn.rows)
              /\ readers'[r].pc = readers[r].pc /\ readers'[r].row = readers[r].row
              /\ readers'[r].digests = readers[r].digests /\ readers'[r].tier = readers[r].tier
              /\ readers'[r].hotSeen = readers[r].hotSeen
              /\ readers'[r].outage = readers[r].outage
              /\ readers'[r].repair = readers[r].repair
<1>1. readers \in [Readers -> ReaderStates]
  BY TypeParts DEF Typed
<1>2. ASSUME NEW r \in Readers
      PROVE  /\ readers'[r] \in ReaderStates
             /\ readers'[r] = [readers[r] EXCEPT !.released = readers'[r].released]
             /\ readers'[r].released <=> readers[r].released \/ LosesBlock(r, txn.rows)
             /\ readers'[r].pc = readers[r].pc /\ readers'[r].row = readers[r].row
             /\ readers'[r].digests = readers[r].digests /\ readers'[r].tier = readers[r].tier
             /\ readers'[r].hotSeen = readers[r].hotSeen
             /\ readers'[r].outage = readers[r].outage
             /\ readers'[r].repair = readers[r].repair
  <2> DEFINE gone == readers[r].released \/ LosesBlock(r, txn.rows)
  <2>1. readers'[r] = [readers[r] EXCEPT !.released = gone]
    BY DEF Commit
  <2>2. readers[r] \in ReaderStates /\ gone \in BOOLEAN
    BY <1>1 DEF LosesBlock, ReaderStates
  <2> HIDE DEF gone
  <2>3. readers'[r].released = gone
    BY <2>1, <2>2 DEF ReaderStates
  <2> QED
    BY <2>1, <2>2, <2>3 DEF ReaderStates, gone
<1>3. readers' = [r \in Readers |-> readers'[r]]
  BY DEF Commit
<1> QED
  BY <1>2, <1>3

LEMMA CommitTyped == ASSUME Typed, Commit PROVE Typed'
<1>1. /\ rows' \in Table /\ TieredRows(rows)' /\ queue' \in SUBSET Entry
      /\ txn' = Idle /\ UNCHANGED <<files, up, drain, copyup>>
      /\ readers' \in [Readers -> ReaderStates]
  BY TypeParts, CommitReaders DEF Typed, Commit, TxnStates, TieredRows
<1>2. TxnShape' /\ TieredRows(txn.rows)' /\ txn' \in TxnStates
  BY <1>1, EmptyTableTyped DEF TxnShape, TieredRows
<1>3. TypeOK'
  BY <1>1, <1>2, TypeParts DEF Typed, TypeOK, Table, FileTable, TxnKinds, Steps, TxnStates,
    DrainStates, CopyUpStates, ReaderPcs, ReaderStates, Repairs
<1> QED
  BY <1>1, <1>2, <1>3 DEF Typed

LEMMA RollbackTyped == ASSUME Typed, Rollback PROVE Typed'
<1>1. txn' = Idle /\ files' \in FileTable
  BY TypeParts DEF Rollback, Typed
<1>2. TxnShape' /\ TieredRows(txn.rows)' /\ txn' \in TxnStates
  BY <1>1, EmptyTableTyped DEF TxnShape, TieredRows
<1> QED
  BY <1>1, <1>2, InsideTyped DEF Rollback

LEMMA RestingTyped ==
  /\ Resting \in ReaderStates
  /\ Resting.pc = "idle" /\ Resting.digests = {} /\ Resting.repair = NoRepair
  /\ NoRepair \in Repairs
BY DEF NoRepair, Repairs, Resting, ReaderStates, ReaderPcs, MaybeRow

LEMMA CrashTyped == ASSUME Typed, Crash PROVE Typed'
<1>1. /\ drain' \in DrainStates /\ copyup' \in CopyUpStates
      /\ readers' \in [Readers -> ReaderStates] /\ UNCHANGED <<rows, queue, files, up>>
  BY RestingTyped DEF Crash, NoDrain, DrainStates, CopyUpStates
<1>2. TxnShape' /\ TieredRows(txn.rows)' /\ txn' \in TxnStates
  <2>1. CASE txn' = Idle
    BY <2>1, EmptyTableTyped DEF TxnShape, TieredRows
  <2>2. CASE txn' = txn
    BY <2>2, <1>1, TypeParts DEF TxnShape, TieredRows, Typed
  <2> QED
    BY <2>1, <2>2 DEF Crash
<1>3. TypeOK'
  BY <1>1, <1>2, TypeParts DEF Typed, TypeOK, Table, FileTable, TxnKinds, Steps, TxnStates,
    DrainStates, CopyUpStates, ReaderPcs, ReaderStates, Repairs
<1> QED
  BY <1>1, <1>2, <1>3 DEF Typed, TieredRows

\* What Store does, for the proofs about it: one row gains a reference, and at most a
\* missing hot file appears.
LEMMA StoreStep ==
  ASSUME Typed, NEW d \in Digests, NEW e \in Encodings, Store(d, e)
  PROVE  \E row \in MaybeRow :
           /\ row # NoRow /\ TieredRow(row) /\ RowRefs(row) = RowRefs(txn.rows[d]) + 1
           /\ ClaimsCold(row) <=> ClaimsCold(txn.rows[d])
           /\ txn' \in TxnStates /\ txn'.kind = "write" /\ txn'.queue = txn.queue
           /\ txn'.step \in {"stored", "both"}
           /\ txn'.step = "stored" => txn.step = "begin"
           /\ txn'.rows = [txn.rows EXCEPT ![d] = row]
           /\ txn'.rows \in Table /\ TieredRows(txn.rows)' /\ txn'.rows[d] = row
           /\ \A x \in Digests \ {d} : txn'.rows[x] = txn.rows[x]
<1> DEFINE row == AppliedDelta(EnsuredRow(txn.rows[d], "tiered", e), 1)
<1> DEFINE step == IF txn.step = "begin" THEN "stored" ELSE "both"
<1>1. /\ row \in MaybeRow /\ row # NoRow /\ TieredRow(row)
      /\ RowRefs(row) = RowRefs(txn.rows[d]) + 1
      /\ ClaimsCold(row) <=> ClaimsCold(txn.rows[d])
  BY StoredRow, RowsTyped
<1>2. txn' = [txn EXCEPT !.step = step, !.rows = [txn.rows EXCEPT ![d] = row]]
      /\ txn.kind = "write" /\ step \in {"stored", "both"} /\ (step = "stored" => txn.step = "begin")
  BY DEF Store, StepTxn, Writing
<1> HIDE DEF row, step
<1> DEFINE table == [txn.rows EXCEPT ![d] = row]
<1>3. table \in Table /\ TieredRows(table) /\ table[d] = row
      /\ \A x \in Digests \ {d} : table[x] = txn.rows[x]
  BY <1>1, TableUpdate, RowsTyped DEF Typed
<1> HIDE DEF table
<1>4. txn \in TxnStates /\ step \in Steps
  BY <1>2, RowsTyped DEF Steps
<1>5. txn' \in TxnStates
  BY <1>2, <1>3, <1>4, TxnUpdates DEF table
<1>6. txn'.kind = "write" /\ txn'.queue = txn.queue /\ txn'.step = step /\ txn'.rows = table
  BY <1>2, <1>4 DEF TxnStates, table
<1> QED
  BY <1>1, <1>2, <1>3, <1>5, <1>6 DEF table, TieredRows

LEMMA StoreTyped ==
  ASSUME Typed, NEW d \in Digests, NEW e \in Encodings, Store(d, e) PROVE Typed'
<1>1. PICK row \in MaybeRow :
           /\ row # NoRow /\ TieredRow(row) /\ RowRefs(row) = RowRefs(txn.rows[d]) + 1
           /\ txn' \in TxnStates /\ txn'.kind = "write"
           /\ txn'.step = "stored" => txn.step = "begin"
           /\ txn'.step # "begin"
           /\ TieredRows(txn.rows)' /\ txn'.rows[d] = row
           /\ \A x \in Digests \ {d} : txn'.rows[x] = txn.rows[x]
  BY StoreStep
<1>2. txn.kind = "write" /\ UNCHANGED <<rows, queue, up, drain, copyup, readers>>
  BY DEF Store, Writing
<1>3. TxnShape'
  <2>1. \A x \in Digests : RowRefs(rows[x]) \in Nat /\ RowRefs(txn.rows[x]) \in Nat
    BY RowsTyped
  <2> QED
    BY <1>1, <1>2, <2>1 DEF TxnShape, Typed
<1>4. files' \in FileTable
  <2>1. StoredEncoding(txn.rows[d], e) \in Encodings
    BY RowsTyped DEF StoredEncoding, MaybeRow, Row
  <2>2. [files EXCEPT ![1][d] = StoredEncoding(txn.rows[d], e)] \in FileTable
    BY <2>1, RowsTyped, FileUpdate DEF Tiers
  <2> QED
    BY <2>2, RowsTyped DEF Store
<1> QED
  BY <1>1, <1>2, <1>3, <1>4, InsideTyped

\* What Drop does: one row loses a reference, and only an entry for it is queued, which
\* is allowed if no row needs the hot file or a cold copy is known.
LEMMA DropStep ==
  ASSUME Typed, NEW d \in Digests, Drop(d)
  PROVE  \E row \in MaybeRow :
           /\ TieredRow(row) /\ RowRefs(row) = RowRefs(txn.rows[d]) - 1
           /\ ClaimsCold(row) <=> ClaimsCold(txn.rows[d])
           /\ RowRefs(txn.rows[d]) > 0
           /\ txn' \in TxnStates /\ txn'.kind = "write" /\ txn'.step \in {"dropped", "both"}
           /\ txn'.rows = [txn.rows EXCEPT ![d] = row]
           /\ txn'.rows \in Table /\ TieredRows(txn.rows)' /\ txn'.rows[d] = row
           /\ \A x \in Digests \ {d} : txn'.rows[x] = txn.rows[x]
           /\ \A entry \in txn'.queue :
                entry \in txn.queue \/ (entry.digest = d /\ (row = NoRow \/ ClaimsCold(row)))
<1> DEFINE row == AppliedDelta(txn.rows[d], -1)
<1> DEFINE step == IF txn.step = "begin" THEN "dropped" ELSE "both"
<1> DEFINE q == IF QueuesHotFile(txn.rows[d], -1) THEN Enqueued(txn.queue, d) ELSE txn.queue
<1>1. RowRefs(txn.rows[d]) > 0
  BY RowsTyped DEF Typed, TxnShape, Drop, Writing
<1>2. /\ row \in MaybeRow /\ TieredRow(row) /\ RowRefs(row) = RowRefs(txn.rows[d]) - 1
      /\ ClaimsCold(row) <=> ClaimsCold(txn.rows[d])
      /\ QueuesHotFile(txn.rows[d], -1) => row = NoRow \/ ClaimsCold(row)
  BY <1>1, DroppedRow, RowsTyped
<1>3. txn' = [txn EXCEPT !.step = step, !.rows = [txn.rows EXCEPT ![d] = row], !.queue = q]
      /\ txn.kind = "write" /\ step \in {"dropped", "both"}
  <2>1. txn \in TxnStates
    BY RowsTyped
  <2> QED
    BY <2>1 DEF Drop, Writing, TxnStates
<1>4. /\ q \in SUBSET Entry
      /\ \A entry \in q : entry \in txn.queue \/ (entry.digest = d /\ QueuesHotFile(txn.rows[d], -1))
  <2>1. NewId(txn.queue) <= MaxId /\ txn.queue \in SUBSET Entry
    BY RowsTyped DEF Drop
  <2>2. /\ Enqueued(txn.queue, d) \in SUBSET Entry
        /\ \A entry \in Enqueued(txn.queue, d) : entry \in txn.queue \/ entry.digest = d
    BY <2>1, EnqueuedTyped
  <2> QED
    BY <2>1, <2>2
<1> HIDE DEF row, step, q
<1> DEFINE table == [txn.rows EXCEPT ![d] = row]
<1>5. table \in Table /\ TieredRows(table) /\ table[d] = row
      /\ \A x \in Digests \ {d} : table[x] = txn.rows[x]
  BY <1>2, TableUpdate, RowsTyped DEF Typed
<1> HIDE DEF table
<1>6. txn \in TxnStates /\ step \in Steps
  BY <1>3, RowsTyped DEF Steps
<1>7. txn' = [txn EXCEPT !.step = step, !.rows = table, !.queue = q]
  BY <1>3 DEF table
<1>9. txn' \in TxnStates
  BY <1>4, <1>5, <1>6, <1>7, TxnUpdates
<1>8. txn'.kind = "write" /\ txn'.queue = q /\ txn'.step = step /\ txn'.rows = table
  BY <1>3, <1>6 DEF TxnStates, table
<1> QED
  BY <1>1, <1>2, <1>3, <1>4, <1>5, <1>9, <1>8 DEF table, TieredRows

LEMMA DropTyped == ASSUME Typed, NEW d \in Digests, Drop(d) PROVE Typed'
<1>1. txn' \in TxnStates /\ TieredRows(txn.rows)' /\ txn'.kind = "write" /\ txn'.step \in {"dropped", "both"}
  BY DropStep
<1>2. TxnShape'
  BY <1>1 DEF TxnShape
<1>3. files' \in FileTable /\ UNCHANGED <<rows, queue, up, drain, copyup, readers>>
  BY RowsTyped DEF Drop
<1> QED
  BY <1>1, <1>2, <1>3, InsideTyped

LEMMA SelectForDemotionStep ==
  ASSUME Typed, NEW d \in Digests, SelectForDemotion(d)
  PROVE  /\ txn.kind = "demote" /\ txn.rows[d] # NoRow
         /\ txn' \in TxnStates /\ txn'.kind = txn.kind /\ txn'.rows = txn.rows
         /\ txn'.queue = txn.queue /\ txn'.targets = {d}
         /\ txn'.step = IF txn.rows[d].cold THEN "unlink" ELSE IF 2 \in up THEN "copy" ELSE "end"
<1> DEFINE step == IF txn.rows[d].cold THEN "unlink" ELSE IF 2 \in up THEN "copy" ELSE "end"
<1>1. txn' = [txn EXCEPT !.targets = {d}, !.step = step] /\ txn.kind = "demote"
      /\ txn.rows[d] # NoRow /\ step \in Steps
  BY DEF SelectForDemotion, Demoting, MayDemote, Steps
<1> HIDE DEF step
<1>2. txn \in TxnStates /\ {d} \in SUBSET Digests /\ txn.rows \in Table /\ txn.queue \in SUBSET Entry
  BY RowsTyped
<1>3. txn' \in TxnStates
  BY <1>1, <1>2, TxnUpdates
<1> QED
  BY <1>1, <1>2, <1>3 DEF TxnStates, step

LEMMA SelectForDemotionTyped == ASSUME Typed, NEW d \in Digests, SelectForDemotion(d) PROVE Typed'
<1>1. /\ txn' \in TxnStates /\ txn'.kind = "demote" /\ txn'.rows = txn.rows
      /\ txn'.targets = {d} /\ txn.rows[d] # NoRow
  BY SelectForDemotionStep
<1>2. TxnShape' /\ TieredRows(txn.rows)'
  BY <1>1 DEF TxnShape, Typed, TieredRows
<1>3. files' \in FileTable /\ UNCHANGED <<rows, queue, up, drain, copyup, readers>>
  BY RowsTyped DEF SelectForDemotion
<1> QED
  BY <1>1, <1>2, <1>3, InsideTyped

LEMMA CopyForDemotionStep ==
  ASSUME Typed, NEW d \in Digests, CopyForDemotion(d)
  PROVE  /\ txn.kind = "demote" /\ txn.step = "copy" /\ d \in txn.targets
         /\ txn' \in TxnStates /\ txn'.kind = txn.kind /\ txn'.rows = txn.rows
         /\ txn'.queue = txn.queue /\ txn'.targets = txn.targets /\ txn'.step = "unlink"
<1>1. txn' = [txn EXCEPT !.step = "unlink", !.rows = txn.rows] /\ txn.kind = "demote"
      /\ "unlink" \in Steps /\ txn.step = "copy" /\ d \in txn.targets
  BY DEF CopyForDemotion, Demoting, Steps, StepTxn
<1>2. txn \in TxnStates /\ txn.targets \in SUBSET Digests /\ txn.rows \in Table
      /\ txn.queue \in SUBSET Entry
  BY RowsTyped DEF TxnStates
<1>3. txn' \in TxnStates
  BY <1>1, <1>2, TxnUpdates
<1> QED
  BY <1>1, <1>2, <1>3 DEF TxnStates

LEMMA CopyForDemotionTyped == ASSUME Typed, NEW d \in Digests, CopyForDemotion(d) PROVE Typed'
<1>1. /\ txn' \in TxnStates /\ txn'.kind = "demote" /\ txn'.rows = txn.rows
      /\ txn'.targets = txn.targets /\ txn.kind = "demote" /\ txn.step = "copy"
  BY CopyForDemotionStep
<1>2. TxnShape' /\ TieredRows(txn.rows)'
  BY <1>1 DEF TxnShape, Typed, TieredRows
<1>3. files' \in FileTable /\ UNCHANGED <<rows, queue, up, drain, copyup, readers>>
  BY RowsTyped, CopiedFile DEF CopyForDemotion, Tiers
<1> QED
  BY <1>1, <1>2, <1>3, InsideTyped

\* What UnlinkForDemotion does: it unlinks a hot file and moves the row to the cold
\* tier, or ends the pass.
LEMMA UnlinkForDemotionStep ==
  ASSUME Typed, NEW d \in Digests, UnlinkForDemotion(d)
  PROVE  /\ txn.kind = "demote" /\ txn.step = "unlink" /\ d \in txn.targets
         /\ txn' \in TxnStates /\ txn'.kind = "demote" /\ txn'.queue = txn.queue
         /\ txn'.step \in {"select", "end"} /\ TieredRows(txn.rows)'
         /\ \A x \in Digests \ {d} : txn'.rows[x] = txn.rows[x]
         /\ \/ /\ 1 \in up /\ files' = [files EXCEPT ![1][d] = NoFile]
               /\ txn'.rows[d] # NoRow /\ ClaimsCold(txn'.rows[d])
               /\ RowRefs(txn'.rows[d]) = RowRefs(txn.rows[d])
            \/ UNCHANGED files /\ txn'.rows[d] = txn.rows[d]
<1>1. /\ txn.kind = "demote" /\ txn.step = "unlink" /\ d \in txn.targets /\ txn.rows[d] # NoRow
      /\ txn.rows[d] \in Row
  BY RowsTyped DEF UnlinkForDemotion, Demoting, Typed, TxnShape, MaybeRow
<1>2. txn \in TxnStates /\ txn.targets \in SUBSET Digests /\ txn.rows \in Table
      /\ txn.queue \in SUBSET Entry /\ "select" \in Steps /\ "end" \in Steps
  BY RowsTyped DEF TxnStates, Steps
<1>3. CASE 1 \in up /\ files' = [files EXCEPT ![1][d] = NoFile]
           /\ StepTxn("select", [txn.rows EXCEPT ![d] = Demoted(@)])
  <2> DEFINE row == Demoted(txn.rows[d])
  <2> DEFINE table == [txn.rows EXCEPT ![d] = row]
  <2>1. row \in Row /\ row # NoRow /\ TieredRow(row) /\ RowRefs(row) = RowRefs(txn.rows[d])
        /\ ClaimsCold(row)
    BY <1>1, MovedRow, RowsTyped
  <2>2. txn' = [txn EXCEPT !.step = "select", !.rows = table]
    BY <1>3 DEF StepTxn
  <2> HIDE DEF row
  <2>3. table \in Table /\ TieredRows(table) /\ table[d] = row
        /\ \A x \in Digests \ {d} : table[x] = txn.rows[x]
    BY <2>1, <1>2, TableUpdate DEF Typed, MaybeRow
  <2> HIDE DEF table
  <2>4. txn' \in TxnStates
    BY <2>2, <2>3, <1>2, TxnUpdates
  <2>5. txn'.kind = "demote" /\ txn'.queue = txn.queue /\ txn'.step = "select" /\ txn'.rows = table
    BY <1>1, <1>2, <2>2 DEF TxnStates
  <2> QED
    BY <1>1, <1>3, <2>1, <2>3, <2>4, <2>5 DEF TieredRows
<1>4. CASE StepTxn("end", txn.rows) /\ UNCHANGED files
  <2>1. txn' = [txn EXCEPT !.step = "end", !.rows = txn.rows]
    BY <1>4 DEF StepTxn
  <2>2. txn' \in TxnStates
    BY <1>2, <2>1, TxnUpdates
  <2>3. txn'.kind = "demote" /\ txn'.queue = txn.queue /\ txn'.step = "end" /\ txn'.rows = txn.rows
    BY <1>1, <1>2, <2>1 DEF TxnStates
  <2> QED
    BY <1>1, <1>4, <2>2, <2>3 DEF TieredRows, Typed
<1> QED
  BY <1>3, <1>4 DEF UnlinkForDemotion

LEMMA UnlinkForDemotionTyped == ASSUME Typed, NEW d \in Digests, UnlinkForDemotion(d) PROVE Typed'
<1>1. txn' \in TxnStates /\ TieredRows(txn.rows)' /\ txn'.kind = "demote" /\ txn'.step \in {"select", "end"}
  BY UnlinkForDemotionStep
<1>2. TxnShape'
  BY <1>1 DEF TxnShape
<1>3. files' \in FileTable
  BY UnlinkForDemotionStep, RowsTyped, FileUpdate DEF Tiers
<1> QED
  BY <1>1, <1>2, <1>3, InsideTyped DEF UnlinkForDemotion

LEMMA DrainTyped ==
  ASSUME Typed, ReadQueue \/ RemoveQueued \/ \E entry \in drain.todo : UnlinkQueued(entry)
  PROVE  Typed'
<1>1. /\ queue \in SUBSET Entry /\ files \in FileTable /\ up \in SUBSET Tiers
      /\ drain \in DrainStates /\ copyup \in CopyUpStates /\ readers \in [Readers -> ReaderStates]
  BY TypeParts DEF Typed
<1>2. CASE ReadQueue
  BY <1>1, <1>2, OutsideTyped DEF ReadQueue, DrainStates
<1>3. CASE RemoveQueued
  BY <1>1, <1>3, OutsideTyped DEF RemoveQueued, DrainStates, NoDrain, Dequeued
<1>4. ASSUME NEW entry \in drain.todo, UnlinkQueued(entry) PROVE Typed'
  <2>1. drain.todo \in SUBSET Entry /\ drain.done \in SUBSET Entry
    BY <1>1 DEF DrainStates
  <2>2. entry \in Entry /\ entry.digest \in Digests
    BY <2>1 DEF Entry
  <2>3. files' \in FileTable
    BY <1>1, <1>4, <2>2, FileUpdate DEF UnlinkQueued, Tiers
  <2>4. drain' \in DrainStates
    BY <1>4, <2>1, <2>2 DEF UnlinkQueued, DrainStates
  <2> QED
    BY <1>1, <1>4, <2>3, <2>4, OutsideTyped DEF UnlinkQueued
<1> QED
  BY <1>2, <1>3, <1>4

LEMMA CleanupTyped ==
  ASSUME Typed, NextPhase \/ \E d \in Digests : CleanQueued(d) \/ CleanPromoted(d) \/ CleanGarbage(d)
  PROVE  Typed'
<1>1. txn \in TxnStates /\ txn.targets \in SUBSET Digests /\ txn.rows \in Table
      /\ txn.queue \in SUBSET Entry /\ files \in FileTable /\ txn.step \in Steps
      /\ TieredRows(txn.rows) /\ rows \in Table
  BY TypeParts DEF Typed, TxnStates
<1>2. SUFFICES /\ files' \in FileTable /\ txn' \in TxnStates /\ TieredRows(txn'.rows)
               /\ txn'.kind = "cleanup" /\ UNCHANGED <<rows, queue, up, drain, copyup, readers>>
  <2> SUFFICES ASSUME /\ files' \in FileTable /\ txn' \in TxnStates /\ TieredRows(txn'.rows)
                      /\ txn'.kind = "cleanup" /\ UNCHANGED <<rows, queue, up, drain, copyup, readers>>
               PROVE  Typed'
    OBVIOUS
  <2>1. TxnShape' /\ TieredRows(txn.rows)'
    BY DEF TxnShape, TieredRows
  <2> QED
    BY <2>1, InsideTyped
<1>3. ASSUME NEW step \in Steps, NEW table \in Table, TieredRows(table), StepTxn(step, table),
             txn.kind = "cleanup"
      PROVE  txn' \in TxnStates /\ TieredRows(txn'.rows) /\ txn'.kind = "cleanup"
  <2>1. txn' = [txn EXCEPT !.step = step, !.rows = table]
    BY <1>3 DEF StepTxn
  <2>2. txn' \in TxnStates
    BY <2>1, <1>1, TxnUpdates
  <2>3. txn'.rows = table /\ txn'.kind = "cleanup"
    BY <2>1, <1>1, <1>3 DEF TxnStates
  <2> QED
    BY <2>2, <2>3, <1>3
<1>4. CASE NextPhase
  <2>1. PICK step \in Steps : StepTxn(step, txn.rows) /\ txn.kind = "cleanup"
    BY <1>4 DEF NextPhase, Cleaning, Steps
  <2> QED
    BY <1>1, <1>3, <1>4, <2>1 DEF NextPhase
<1>5. ASSUME NEW d \in Digests, CleanQueued(d) \/ CleanPromoted(d) \/ CleanGarbage(d)
      PROVE  /\ files' \in FileTable /\ txn' \in TxnStates /\ TieredRows(txn'.rows)
             /\ txn'.kind = "cleanup" /\ UNCHANGED <<rows, queue, up, drain, copyup, readers>>
  <2>1. \A t \in Tiers : [files EXCEPT ![t][d] = NoFile] \in FileTable
    BY <1>1, FileUpdate
  <2>2. CASE CleanQueued(d)
    <3>1. PICK targets \in SUBSET Digests, q \in SUBSET Entry :
             /\ txn' = [txn EXCEPT !.targets = targets, !.queue = q]
                \/ txn' = [txn EXCEPT !.targets = targets]
             /\ txn.kind = "cleanup"
      <4>1. txn.targets \ {d} \in SUBSET Digests /\ {entry \in txn.queue : entry.digest # d} \in SUBSET Entry
        BY <1>1
      <4>2. \/ txn' = [txn EXCEPT !.targets = txn.targets \ {d},
                                  !.queue = {entry \in txn.queue : entry.digest # d}]
            \/ txn' = [txn EXCEPT !.targets = txn.targets \ {d}]
        BY <2>2 DEF CleanQueued
      <4> QED
        BY <2>2, <4>1, <4>2, Zenon DEF CleanQueued, Cleaning
    <3>2. txn' \in TxnStates
      <4>1. [txn EXCEPT !.targets = targets] \in TxnStates
        BY <1>1, TxnAssigned
      <4>2. [txn EXCEPT !.targets = targets, !.queue = q] \in TxnStates
        BY <1>1, TxnUpdates
      <4> QED
        BY <3>1, <4>1, <4>2
    <3>3. txn'.rows = txn.rows /\ txn'.kind = "cleanup"
      BY <1>1, <3>1 DEF TxnStates
    <3>4. files' \in FileTable
      BY <1>1, <2>1, <2>2 DEF CleanQueued, Tiers
    <3> QED
      BY <1>1, <2>2, <3>2, <3>3, <3>4 DEF CleanQueued
  <2>3. CASE CleanPromoted(d)
    <3> DEFINE row == [txn.rows[d] EXCEPT !.cold = FALSE]
    <3>1. row \in MaybeRow /\ TieredRow(row)
      BY <2>3, UncooledRow, RowsTyped DEF CleanPromoted
    <3>2. StepTxn("promoted", [txn.rows EXCEPT ![d] = row]) /\ txn.kind = "cleanup"
      BY <1>1, <2>3 DEF CleanPromoted, StepTxn, Cleaning, Table
    <3> HIDE DEF row
    <3>3. [txn.rows EXCEPT ![d] = row] \in Table /\ TieredRows([txn.rows EXCEPT ![d] = row])
      BY <1>1, <3>1, TableUpdate
    <3>4. txn' \in TxnStates /\ TieredRows(txn'.rows) /\ txn'.kind = "cleanup"
      BY <1>3, <3>2, <3>3 DEF Steps
    <3> QED
      BY <2>1, <2>3, <3>4 DEF CleanPromoted, UnlinkCold, Tiers
  <2>4. CASE CleanGarbage(d)
    <3>1. NoRow \in MaybeRow /\ TieredRow(NoRow)
      BY DEF MaybeRow, TieredRow
    <3>2. [txn.rows EXCEPT ![d] = NoRow] \in Table /\ TieredRows([txn.rows EXCEPT ![d] = NoRow])
      BY <1>1, <3>1, TableUpdate
    <3>3. txn' \in TxnStates /\ TieredRows(txn'.rows) /\ txn'.kind = "cleanup"
      BY <1>3, <2>4, <3>2 DEF Steps, CleanGarbage, Cleaning
    <3> QED
      BY <2>1, <2>4, <3>3 DEF CleanGarbage, UnlinkCold, Tiers
  <2> QED
    BY <1>5, <2>2, <2>3, <2>4
<1> QED
  BY <1>1, <1>4, <1>5 DEF NextPhase
LEMMA CopyUpTyped ==
  ASSUME Typed, NEW d \in Digests, CopyUpFile(d) \/ CopyUpProbe(d) \/ CopyUpCommit(d)
  PROVE  Typed'
<1>1. /\ queue \in SUBSET Entry /\ files \in FileTable /\ up \in SUBSET Tiers /\ txn \in TxnStates
      /\ drain \in DrainStates /\ copyup \in CopyUpStates /\ readers \in [Readers -> ReaderStates]
      /\ rows \in Table /\ TieredRows(rows)
  BY TypeParts DEF Typed
<1>2. CASE CopyUpFile(d)
  <2>1. files' \in FileTable
    BY <1>1, <1>2, CopiedFile DEF CopyUpFile, Tiers
  <2>2. copyup' \in CopyUpStates
    BY <1>1, <1>2 DEF CopyUpFile, CopyUpStates
  <2> QED
    BY <1>1, <1>2, <2>1, <2>2, OutsideTyped DEF CopyUpFile
<1>3. CASE CopyUpProbe(d)
  <2>1. copyup' \in CopyUpStates
    BY <1>1, <1>3 DEF CopyUpProbe, CopyUpStates
  <2> QED
    BY <1>1, <1>3, <2>1, OutsideTyped DEF CopyUpProbe
<1>4. CASE CopyUpCommit(d)
  <2>1. copyup' \in CopyUpStates
    BY <1>1, <1>4 DEF CopyUpCommit, CopyUpStates
  <2> DEFINE row == IF rows[d] = NoRow THEN NoRow ELSE PromotedByCopyUp(rows[d])
  <2>2. row \in MaybeRow /\ TieredRow(row)
    BY RowsTyped, MovedRow DEF MaybeRow, TieredRow
  <2>3. rows' = [rows EXCEPT ![d] = row]
    BY <1>1, <1>4 DEF CopyUpCommit, Table
  <2> HIDE DEF row
  <2>4. rows' \in Table /\ TieredRows(rows)'
    BY <1>1, <2>2, <2>3, TableUpdate DEF TieredRows
  <2>5. TxnShape' /\ TieredRows(txn.rows)'
    BY <1>4 DEF TxnShape, Typed, CopyUpCommit, TieredRows, Idle
  <2>6. TypeOK'
    BY <1>1, <1>4, <2>1, <2>4, TypeParts DEF CopyUpCommit, TypeOK, Table, FileTable, TxnKinds,
      Steps, TxnStates, DrainStates, CopyUpStates, ReaderPcs, ReaderStates, Repairs
  <2> QED
    BY <2>4, <2>5, <2>6 DEF Typed
<1> QED
  BY <1>2, <1>3, <1>4

(***************************************************************************)
(* Readers.                                                                *)
(***************************************************************************)
LEMMA ReaderAssigned ==
  ASSUME NEW x \in ReaderStates
  PROVE  /\ \A pc \in ReaderPcs : [x EXCEPT !.pc = pc] \in ReaderStates
         /\ \A row \in MaybeRow : [x EXCEPT !.row = row] \in ReaderStates
         /\ \A digests \in SUBSET Digests : [x EXCEPT !.digests = digests] \in ReaderStates
         /\ \A tier \in 0..2 : [x EXCEPT !.tier = tier] \in ReaderStates
         /\ \A b \in BOOLEAN : [x EXCEPT !.hotSeen = b] \in ReaderStates
         /\ \A b \in BOOLEAN : [x EXCEPT !.outage = b] \in ReaderStates
         /\ \A b \in BOOLEAN : [x EXCEPT !.released = b] \in ReaderStates
         /\ \A repair \in Repairs : [x EXCEPT !.repair = repair] \in ReaderStates
BY DEF ReaderStates

\* One reader goes from its state to x, the others stay.
Becomes(r, x) ==
  /\ readers' \in [Readers -> ReaderStates] /\ readers'[r] = x
  /\ \A o \in Readers \ {r} : readers'[o] = readers[o]

LEMMA ReaderReplaced ==
  ASSUME readers \in [Readers -> ReaderStates], NEW r \in Readers, NEW x \in ReaderStates,
         readers' = [readers EXCEPT ![r] = x]
  PROVE  Becomes(r, x)
BY DEF Becomes

LEMMA MoveToStep ==
  ASSUME readers \in [Readers -> ReaderStates], NEW r \in Readers, NEW pc \in ReaderPcs,
         MoveTo(r, pc)
  PROVE  \E x \in ReaderStates :
           /\ Becomes(r, x)
           /\ x.pc = pc /\ x.row = readers[r].row /\ x.digests = readers[r].digests
           /\ x.tier = readers[r].tier /\ x.hotSeen = readers[r].hotSeen
           /\ x.outage = readers[r].outage /\ x.released = readers[r].released
           /\ x.repair = readers[r].repair
<1> DEFINE x == [readers[r] EXCEPT !.pc = pc]
<1>1. readers[r] \in ReaderStates
  OBVIOUS
<1>2. x \in ReaderStates
  BY <1>1, ReaderAssigned
<1>3. readers' = [readers EXCEPT ![r] = x]
  BY DEF MoveTo
<1>4. /\ x.pc = pc /\ x.row = readers[r].row /\ x.digests = readers[r].digests
      /\ x.tier = readers[r].tier /\ x.hotSeen = readers[r].hotSeen
      /\ x.outage = readers[r].outage /\ x.released = readers[r].released
      /\ x.repair = readers[r].repair
  BY <1>1 DEF ReaderStates
<1> HIDE DEF x
<1> QED
  BY <1>2, <1>3, <1>4, ReaderReplaced

LEMMA SelectStep ==
  ASSUME readers \in [Readers -> ReaderStates], NEW r \in Readers, NEW tier \in 0..2,
         NEW repair \in Repairs, Select(r, tier, repair)
  PROVE  \E x \in ReaderStates :
           /\ Becomes(r, x)
           /\ x.pc = "selected" /\ x.row = readers[r].row /\ x.digests = readers[r].digests
           /\ x.tier = tier /\ x.hotSeen = readers[r].hotSeen
           /\ x.outage = readers[r].outage /\ x.released = readers[r].released
           /\ x.repair = repair
<1> DEFINE x == [readers[r] EXCEPT !.pc = "selected", !.tier = tier, !.repair = repair]
<1>1. readers[r] \in ReaderStates /\ "selected" \in ReaderPcs
  BY DEF ReaderPcs
<1>2. x \in ReaderStates
  <2>1. PICK x1 \in ReaderStates : x1 = [readers[r] EXCEPT !.pc = "selected"]
    BY <1>1, ReaderAssigned
  <2>2. PICK x2 \in ReaderStates : x2 = [x1 EXCEPT !.tier = tier]
    BY ReaderAssigned
  <2>3. PICK x3 \in ReaderStates : x3 = [x2 EXCEPT !.repair = repair]
    BY ReaderAssigned
  <2> QED
    BY <2>1, <2>2, <2>3, Zenon
<1>3. readers' = [readers EXCEPT ![r] = x]
  BY DEF Select
<1>4. /\ x.pc = "selected" /\ x.row = readers[r].row /\ x.digests = readers[r].digests
      /\ x.tier = tier /\ x.hotSeen = readers[r].hotSeen
      /\ x.outage = readers[r].outage /\ x.released = readers[r].released
      /\ x.repair = repair
  BY <1>1 DEF ReaderStates
<1> HIDE DEF x
<1> QED
  BY <1>2, <1>3, <1>4, ReaderReplaced

LEMMA PlanStep ==
  ASSUME Typed, NEW r \in Readers, NEW d \in Digests, Plan(r, d)
  PROVE  \E x \in ReaderStates :
           /\ Becomes(r, x)
           /\ x.pc = "preferred" /\ x.row = rows[d] /\ x.digests = {d}
           /\ x.tier = PreferredTier(rows[d]) /\ ~x.hotSeen /\ ~x.released
           /\ x.outage = (up # Tiers) /\ x.repair = NoRepair
<1> DEFINE x == [Resting EXCEPT !.pc = "preferred", !.row = rows[d], !.digests = {d},
                                !.tier = PreferredTier(rows[d]), !.outage = up # Tiers]
<1>1. readers \in [Readers -> ReaderStates] /\ rows[d] \in MaybeRow /\ "preferred" \in ReaderPcs
      /\ PreferredTier(rows[d]) \in 0..2 /\ (up # Tiers) \in BOOLEAN
  BY TypeParts, RowsTyped DEF Typed, ReaderPcs, PreferredTier
<1>2. x \in ReaderStates
  <2>1. PICK x1 \in ReaderStates : x1 = [Resting EXCEPT !.pc = "preferred"]
    BY <1>1, RestingTyped, ReaderAssigned
  <2>2. PICK x2 \in ReaderStates : x2 = [x1 EXCEPT !.row = rows[d]]
    BY <1>1, ReaderAssigned
  <2>3. PICK x3 \in ReaderStates : x3 = [x2 EXCEPT !.digests = {d}]
    BY ReaderAssigned
  <2>4. PICK x4 \in ReaderStates : x4 = [x3 EXCEPT !.tier = PreferredTier(rows[d])]
    BY <1>1, ReaderAssigned
  <2>5. PICK x5 \in ReaderStates : x5 = [x4 EXCEPT !.outage = up # Tiers]
    BY <1>1, ReaderAssigned
  <2> QED
    BY <2>1, <2>2, <2>3, <2>4, <2>5, Zenon
<1>3. readers' = [readers EXCEPT ![r] = x]
  BY DEF Plan
<1>4. /\ x.pc = "preferred" /\ x.row = rows[d] /\ x.digests = {d}
      /\ x.tier = PreferredTier(rows[d]) /\ ~x.hotSeen /\ ~x.released
      /\ x.outage = (up # Tiers) /\ x.repair = NoRepair
  BY DEF Resting
<1> HIDE DEF x
<1> QED
  BY <1>1, <1>2, <1>3, <1>4, ReaderReplaced

\* A delivery leaves the reader failed, at rest, or with a correction to write.
LEMMA DeliverStep ==
  ASSUME Typed, NEW r \in Readers, NEW d \in Digests, Deliver(r, d)
  PROVE  /\ \E x \in ReaderStates :
              /\ Becomes(r, x)
              /\ \/ x = Resting
                 \/ /\ x.pc = "repair" /\ readers[r].repair # NoRepair /\ ~x.outage
                    /\ x.row = readers[r].row /\ x.digests = readers[r].digests
                    /\ x.tier = readers[r].tier /\ x.repair = readers[r].repair
                 \/ /\ x.pc = "failed" /\ files[readers[r].tier][d] # readers[r].row.enc
                    /\ x.row = readers[r].row /\ x.digests = readers[r].digests
                    /\ x.tier = readers[r].tier /\ x.repair = readers[r].repair
         /\ copyup' \in CopyUpStates
         /\ \A e \in Digests : copyup'[e] # "idle" => copyup[e] # "idle" \/ (e = d /\ readers[r].tier = 2)
<1>1. readers \in [Readers -> ReaderStates] /\ readers[r] \in ReaderStates /\ copyup \in CopyUpStates
  BY TypeParts DEF Typed
<1>2. CASE MoveTo(r, "failed") /\ UNCHANGED copyup /\ files[readers[r].tier][d] # readers[r].row.enc
  <2>1. "failed" \in ReaderPcs
    BY DEF ReaderPcs
  <2> QED
    BY <1>1, <1>2, <2>1, MoveToStep
<1>3. CASE /\ IF readers[r].repair = NoRepair
              THEN readers' = [readers EXCEPT ![r] = Resting]
              ELSE readers' = [readers EXCEPT ![r].pc = "repair", ![r].outage = FALSE,
                                              ![r].released = FALSE]
           /\ \/ readers[r].tier = 2 /\ copyup[d] = "idle"
                /\ copyup' = [copyup EXCEPT ![d] = "scheduled"]
              \/ UNCHANGED copyup
  <2>1. /\ copyup' \in CopyUpStates
        /\ \A e \in Digests : copyup'[e] # "idle" => copyup[e] # "idle" \/ (e = d /\ readers[r].tier = 2)
    BY <1>1, <1>3 DEF CopyUpStates
  <2>2. CASE readers' = [readers EXCEPT ![r] = Resting]
    BY <1>1, <2>1, <2>2, RestingTyped, ReaderReplaced
  <2>3. CASE /\ readers[r].repair # NoRepair
             /\ readers' = [readers EXCEPT ![r].pc = "repair", ![r].outage = FALSE,
                                           ![r].released = FALSE]
    <3> DEFINE x == [readers[r] EXCEPT !.pc = "repair", !.outage = FALSE, !.released = FALSE]
    <3>1. x \in ReaderStates
      <4>1. PICK x1 \in ReaderStates : x1 = [readers[r] EXCEPT !.pc = "repair"]
        BY <1>1, ReaderAssigned DEF ReaderPcs
      <4>2. PICK x2 \in ReaderStates : x2 = [x1 EXCEPT !.outage = FALSE]
        BY ReaderAssigned
      <4>3. PICK x3 \in ReaderStates : x3 = [x2 EXCEPT !.released = FALSE]
        BY ReaderAssigned
      <4> QED
        BY <4>1, <4>2, <4>3, Zenon
    <3>2. readers' = [readers EXCEPT ![r] = x]
      BY <2>3
    <3>3. /\ x.pc = "repair" /\ ~x.outage
          /\ x.row = readers[r].row /\ x.digests = readers[r].digests
          /\ x.tier = readers[r].tier /\ x.repair = readers[r].repair
      BY <1>1 DEF ReaderStates
    <3> HIDE DEF x
    <3> QED
      BY <1>1, <2>1, <2>3, <3>1, <3>2, <3>3, ReaderReplaced
  <2> QED
    BY <1>3, <2>2, <2>3
<1> QED
  BY <1>2, <1>3 DEF Deliver

\* The corrections the reads find.
LEMMA ReadingTyped ==
  ASSUME Typed, NEW r \in Readers, NEW d \in Digests,
         \/ Plan(r, d) \/ ReadPreferred(r, d) \/ ReadSelected(r, d)
         \/ DecideUnavailable(r, d) \/ DecideMissing(r, d)
         \/ ProbeHot(r, d) \/ ProbeCold(r, d)
  PROVE  Typed'
<1>1. /\ queue \in SUBSET Entry /\ files \in FileTable /\ up \in SUBSET Tiers
      /\ drain \in DrainStates /\ copyup \in CopyUpStates /\ readers \in [Readers -> ReaderStates]
      /\ readers[r] \in ReaderStates
  BY TypeParts DEF Typed
<1>2. UNCHANGED <<rows, queue, files, up, txn, drain>>
  BY DEF Plan, ReadPreferred, ReadSelected, DecideUnavailable, DecideMissing, ProbeHot, ProbeCold,
    ReadOnly
<1>3. SUFFICES readers' \in [Readers -> ReaderStates] /\ copyup' \in CopyUpStates
  BY <1>1, <1>2, OutsideTyped
<1>4. ASSUME NEW pc \in ReaderPcs, MoveTo(r, pc) PROVE readers' \in [Readers -> ReaderStates]
  BY <1>1, <1>4, MoveToStep DEF Becomes
<1>5. ASSUME NEW tier \in 0..2, NEW repair \in Repairs, Select(r, tier, repair)
      PROVE  readers' \in [Readers -> ReaderStates]
  BY <1>1, <1>5, SelectStep DEF Becomes
<1>6. ASSUME Deliver(r, d) PROVE readers' \in [Readers -> ReaderStates] /\ copyup' \in CopyUpStates
  BY <1>6, DeliverStep DEF Becomes
<1>7. CASE Plan(r, d)
  BY <1>1, <1>7, PlanStep DEF Becomes, Plan
<1>8. CASE ReadPreferred(r, d) \/ ReadSelected(r, d)
  <2>1. \/ Deliver(r, d)
        \/ UNCHANGED copyup /\ \E pc \in ReaderPcs : MoveTo(r, pc)
    BY <1>8 DEF ReadPreferred, ReadSelected, ReaderPcs
  <2> QED
    BY <1>1, <1>4, <1>6, <2>1
<1>9. CASE DecideUnavailable(r, d)
  <2> DEFINE alt == Other(readers[r].tier)
  <2>1. Present(alt, d) => alt \in 0..2
    <3>1. Present(alt, d) => alt \in up
      BY DEF Present
    <3>2. \A t \in up : t \in 0..2
      BY <1>1 DEF Tiers
    <3> QED
      BY <3>1, <3>2, Zenon
  <2>2. \/ Present(alt, d) /\ Select(r, alt, NoRepair)
        \/ MoveTo(r, "failed")
    BY <1>9 DEF DecideUnavailable
  <2>3. copyup' = copyup
    BY <1>9 DEF DecideUnavailable
  <2> HIDE DEF alt
  <2>4. "failed" \in ReaderPcs
    BY DEF ReaderPcs
  <2> QED
    BY <1>1, <1>4, <1>5, <2>1, <2>2, <2>3, <2>4, RestingTyped
<1>10. CASE DecideMissing(r, d)
  <2> DEFINE tier == readers[r].tier
  <2> DEFINE alt == Other(tier)
  <2> DEFINE repair == [NoRepair EXCEPT !.hot = IF tier = 1 THEN "no" ELSE "keep",
                                        !.cold = IF tier = 2 THEN "no" ELSE "keep",
                                        !.pref = alt]
  <2>1. Present(alt, d) => alt \in 0..2
    <3>1. Present(alt, d) => alt \in up
      BY DEF Present
    <3>2. \A t \in up : t \in 0..2
      BY <1>1 DEF Tiers
    <3> QED
      BY <3>1, <3>2, Zenon
  <2>2. \/ Present(alt, d) /\ Select(r, alt, repair)
        \/ MoveTo(r, "failed") \/ MoveTo(r, "probe-hot")
    BY <1>10 DEF DecideMissing
  <2>3. copyup' = copyup
    BY <1>10 DEF DecideMissing
  <2> HIDE DEF alt, tier
  <2>4. Present(alt, d) => repair \in Repairs
    BY <2>1 DEF NoRepair, Repairs
  <2> HIDE DEF repair
  <2>5. "failed" \in ReaderPcs /\ "probe-hot" \in ReaderPcs
    BY DEF ReaderPcs
  <2> QED
    BY <1>1, <1>4, <1>5, <2>1, <2>2, <2>3, <2>4, <2>5
<1>11. CASE ProbeHot(r, d)
  <2> DEFINE x == [readers[r] EXCEPT !.pc = "probe-cold", !.hotSeen = Present(1, d)]
  <2>1. "probe-cold" \in ReaderPcs /\ Present(1, d) \in BOOLEAN
    BY DEF ReaderPcs, Present
  <2>2. PICK x1 \in ReaderStates : x1 = [readers[r] EXCEPT !.pc = "probe-cold"]
    BY <1>1, <2>1, ReaderAssigned
  <2>3. PICK x2 \in ReaderStates : x2 = [x1 EXCEPT !.hotSeen = Present(1, d)]
    BY <2>1, ReaderAssigned
  <2>4. x \in ReaderStates
    BY <2>2, <2>3, Zenon
  <2>5. readers' = [readers EXCEPT ![r] = x] /\ copyup' = copyup
    BY <1>11 DEF ProbeHot
  <2> HIDE DEF x
  <2> QED
    BY <1>1, <2>4, <2>5
<1>12. CASE ProbeCold(r, d)
  <2> DEFINE hot == readers[r].hotSeen
  <2> DEFINE repair == [hot |-> IF hot THEN "yes" ELSE "no",
                        cold |-> IF 2 \notin up THEN "keep"
                                 ELSE IF Present(2, d) THEN "yes" ELSE "no",
                        pref |-> IF hot THEN 1 ELSE 2]
  <2>1. repair \in Repairs /\ repair.pref \in 0..2
    BY DEF Repairs
  <2>2. Select(r, repair.pref, repair) \/ MoveTo(r, "failed")
    BY <1>12 DEF ProbeCold
  <2>3. copyup' = copyup /\ "failed" \in ReaderPcs
    BY <1>12 DEF ProbeCold, ReaderPcs
  <2> HIDE DEF repair
  <2> QED
    BY <1>1, <1>4, <1>5, <2>1, <2>2, <2>3
<1> QED
  BY <1>7, <1>8, <1>9, <1>10, <1>11, <1>12
LEMMA StoppedTyped == ASSUME Typed, NEW r \in Readers, ReturnError(r) PROVE Typed'
<1>1. /\ queue \in SUBSET Entry /\ files \in FileTable /\ up \in SUBSET Tiers
      /\ drain \in DrainStates /\ copyup \in CopyUpStates /\ readers \in [Readers -> ReaderStates]
  BY TypeParts DEF Typed
<1>2. readers' \in [Readers -> ReaderStates]
  BY <1>1, RestingTyped DEF ReturnError
<1> QED
  BY <1>1, <1>2, OutsideTyped DEF ReturnError, ReadOnly

LEMMA RepairRowTyped ==
  ASSUME Typed, NEW r \in Readers, NEW d \in Digests, RepairRow(r, d)
  PROVE  Typed'
<1>1. /\ queue \in SUBSET Entry /\ files \in FileTable /\ up \in SUBSET Tiers /\ txn \in TxnStates
      /\ drain \in DrainStates /\ copyup \in CopyUpStates /\ readers \in [Readers -> ReaderStates]
      /\ rows \in Table /\ TieredRows(rows) /\ readers[r].repair \in Repairs
  BY TypeParts DEF Typed, ReaderStates
<1>2. readers' \in [Readers -> ReaderStates]
  BY <1>1, RestingTyped DEF RepairRow
<1>3. rows' \in Table /\ TieredRows(rows)'
  <2> DEFINE new == Repaired(rows[d], readers[r].repair)
  <2>1. CASE rows[d] # NoRow /\ CheckConstraint(new)
    <3>1. rows[d] \in Row /\ TieredRow(rows[d])
      BY <2>1, RowsTyped DEF MaybeRow
    <3>2. new \in MaybeRow /\ TieredRow(new)
      BY <1>1, <2>1, <3>1, RepairedRow DEF MaybeRow
    <3>3. rows' = [rows EXCEPT ![d] = new]
      BY <2>1 DEF RepairRow
    <3> HIDE DEF new
    <3> QED
      BY <1>1, <3>2, <3>3, TableUpdate DEF TieredRows
  <2>2. CASE ~(rows[d] # NoRow /\ CheckConstraint(new))
    BY <1>1, <2>2 DEF RepairRow, TieredRows
  <2> QED
    BY <2>1, <2>2
<1>4. TxnShape' /\ TieredRows(txn.rows)'
  BY DEF TxnShape, Typed, RepairRow, TieredRows, Idle
<1>5. TypeOK'
  BY <1>1, <1>2, <1>3, TypeParts DEF RepairRow, TypeOK, Table, FileTable, TxnKinds,
    Steps, TxnStates, DrainStates, CopyUpStates, ReaderPcs, ReaderStates, Repairs
<1> QED
  BY <1>3, <1>4, <1>5 DEF Typed

LEMMA OutageTyped ==
  ASSUME Typed, NEW t \in Tiers, Outage(t)
  PROVE  Typed'
<1>1. /\ queue \in SUBSET Entry /\ files \in FileTable /\ up \in SUBSET Tiers
      /\ drain \in DrainStates /\ copyup \in CopyUpStates /\ readers \in [Readers -> ReaderStates]
  BY TypeParts DEF Typed
<1>2. readers' \in [Readers -> ReaderStates]
  <2>1. \A r \in Readers : [readers[r] EXCEPT !.outage = InRead(r)] \in ReaderStates
    BY <1>1, ReaderAssigned DEF InRead
  <2> QED
    BY <2>1 DEF Outage
<1> QED
  BY <1>1, <1>2, OutsideTyped DEF Outage

LEMMA StutterTyped == ASSUME Typed, UNCHANGED vars PROVE Typed'
BY TypeParts, OutsideTyped DEF Typed, vars

LEMMA NextTyped == Typed /\ [Next]_vars => Typed'
<1> SUFFICES ASSUME Typed, [Next]_vars PROVE Typed'
  OBVIOUS
<1>1. CASE Begin("write", "begin", {})
  BY <1>1, BeginTyped DEF TxnKinds, Steps
<1>2. CASE Begin("demote", "select", {})
  BY <1>2, BeginTyped DEF TxnKinds, Steps
<1>3. CASE BeginCleanup
  <2>1. Queued(queue) \in SUBSET Digests
    BY TypeParts DEF Typed, Queued, Entry
  <2> QED
    BY <1>3, <2>1, BeginTyped DEF BeginCleanup, TxnKinds, Steps
<1>4. CASE Commit \/ Rollback \/ Crash
  BY <1>4, CommitTyped, RollbackTyped, CrashTyped
<1>5. CASE \E d \in Digests, e \in Encodings : Store(d, e)
  BY <1>5, StoreTyped
<1>6. CASE \E d \in Digests : Drop(d)
  BY <1>6, DropTyped
<1>7. CASE \E d \in Digests : SelectForDemotion(d) \/ CopyForDemotion(d) \/ UnlinkForDemotion(d)
  BY <1>7, SelectForDemotionTyped, CopyForDemotionTyped, UnlinkForDemotionTyped
<1>8. CASE ReadQueue \/ RemoveQueued \/ \E entry \in drain.todo : UnlinkQueued(entry)
  BY <1>8, DrainTyped
<1>9. CASE NextPhase \/ \E d \in Digests : CleanQueued(d) \/ CleanPromoted(d) \/ CleanGarbage(d)
  BY <1>9, CleanupTyped
<1>10. CASE \E d \in Digests : CopyUpFile(d) \/ CopyUpProbe(d) \/ CopyUpCommit(d)
  BY <1>10, CopyUpTyped
<1>11. ASSUME NEW r \in Readers, NEW d \in Digests,
              \/ Plan(r, d) \/ ReadPreferred(r, d) \/ ReadSelected(r, d)
              \/ DecideUnavailable(r, d) \/ DecideMissing(r, d)
              \/ ProbeHot(r, d) \/ ProbeCold(r, d) \/ RepairRow(r, d)
       PROVE  Typed'
  BY <1>11, ReadingTyped, RepairRowTyped
<1>12. ASSUME NEW r \in Readers, ReturnError(r) PROVE Typed'
  BY <1>12, StoppedTyped
<1>13. CASE \E t \in Tiers : Outage(t)
  BY <1>13, OutageTyped
<1>14. CASE UNCHANGED vars
  BY <1>14, StutterTyped
<1> QED
  BY <1>1, <1>2, <1>3, <1>4, <1>5, <1>6, <1>7, <1>8, <1>9, <1>10, <1>11, <1>12, <1>13, <1>14 DEF Next

\* Typed is an inductive invariant.
LEMMA TypedInvariant == Spec => []Typed
<1>1. Init => Typed
  BY InitTyped
<1>2. Typed /\ [Next]_vars => Typed'
  BY NextTyped
<1> QED
  BY <1>1, <1>2, PTL DEF Spec

\* Whatever the environment does, every state of the block store keeps its types: rows,
\* queue and transaction stay tables of rows and entries (block_store.py, cleanup.py).
THEOREM TieringTypeOK == Spec => []TypeOK
<1>1. Typed => TypeOK
  BY DEF Typed
<1> QED
  BY <1>1, TypedInvariant, PTL

\* A row of the committed table satisfies the table's CHECK, and is marked as garbage
\* exactly while nothing references it (apply_block_refcount_deltas, record_block_presence).
THEOREM TieringRowsSound == Spec => []CommittedRowsSound
<1>1. Typed => CommittedRowsSound
  BY DEF Typed, TieredRows, TieredRow, SoundRow, CommittedRowsSound
<1> QED
  BY <1>1, TypedInvariant, PTL
(***************************************************************************)
(* What holds of a mounted process beside outages, crashes and rollbacks.  *)
(***************************************************************************)
\* The hypothesis of the theorems of this part, on what may happen.  It leaves out
\*  - `cleanup` ("maintenance", "online"), which is the subject of the last part;
\*  - a tier that goes or comes between two steps of one demotion ("flapping");
\*  - a block that is stored again while its deletion is queued ("rewrite", "reuse").
\* The code meets the last two, and they do break what follows (README, section 3).
MountedOnly == Environment \subseteq {"outage", "rollback", "crash"}

\* The compression settings do not change, so a content is stored in one encoding.
OneEncoding == \A e, f \in Encodings : e = f

\* A claimed cold copy exists, a block with a row has a payload, and nothing needs the
\* hot file of a queued digest.
ColdBacked(table, fs) == \A d \in Digests : ClaimsCold(table[d]) => fs[2][d] # NoFile
HasPayload(table, fs) ==
  \A d \in Digests : table[d] # NoRow => fs[1][d] # NoFile \/ fs[2][d] # NoFile
QueueSafe(table, q, fs) ==
  \A entry \in q : table[entry.digest] = NoRow \/ fs[2][entry.digest] # NoFile
TableSafe(table, q, todo, fs) ==
  ColdBacked(table, fs) /\ HasPayload(table, fs) /\ QueueSafe(table, q \cup todo, fs)

\* A demotion unlinks a hot file only beside a cold one; no tier goes meanwhile.
DemotionSafe ==
  txn.kind = "demote" =>
    /\ txn.step \in {"copy", "unlink"} => \A d, e \in txn.targets : d = e
    /\ txn.step = "copy" => 2 \in up
    /\ txn.step = "unlink" /\ 1 \in up => \A d \in txn.targets : files[2][d] # NoFile

CopyUpsBacked == \A d \in Digests : copyup[d] # "idle" => files[2][d] # NoFile

Active(me) == me.pc \notin {"idle", "repair", "failed"}

\* The block of an active reader is referenced until its history says otherwise.
Referenced(me, table) ==
  Active(me) /\ ~me.released => \A d \in me.digests : RowRefs(table[d]) > 0

\* A correction states a tier that has the payload, and claims a cold copy only if there
\* is one; or it takes a hot copy away that stood beside a cold one.
GoodRepair(me, inCold) ==
  \/ me.repair = NoRepair
  \/ me.repair.hot = "yes" /\ me.repair.pref = 1 /\ (me.repair.cold = "yes" => inCold)
  \/ me.repair.hot = "no" /\ me.repair.cold = "yes" /\ me.repair.pref = 2 /\ inCold
  \/ me.repair.hot = "no" /\ me.repair.cold = "keep" /\ me.repair.pref = 2 /\ ClaimsCold(me.row)

\* What a reader knows: a cold copy its row claims exists, a miss of the hot file of a
\* block still referenced leaves a cold one, and without an outage a block is read from
\* the hot tier only if a probe has seen it there.
Knows(me, inCold) ==
  /\ me.tier \in Tiers /\ me.row # NoRow /\ TieredRow(me.row)
  /\ ClaimsCold(me.row) => inCold
  /\ me.pc = "preferred" => me.repair = NoRepair /\ (me.tier = 2 => ClaimsCold(me.row))
  /\ me.pc = "missing" => me.tier = 1
  /\ me.pc = "unavailable" => me.outage
  /\ me.pc \in {"missing", "probe-hot", "probe-cold"} => me.released \/ inCold
  /\ me.pc = "selected" => (me.tier = 2 => inCold) /\ (me.tier = 1 => me.outage \/ me.hotSeen)
  /\ me.pc \in {"selected", "repair"} => GoodRepair(me, inCold)

ReaderSafe(me, table, fs, ups) ==
  /\ \A d \in me.digests : me.digests = {d} /\ Knows(me, fs[2][d] # NoFile)
  /\ Referenced(me, table)
  /\ Active(me) /\ ~me.outage => ups = Tiers

\* The inductive invariant of the mounted process, beside Typed.
Mounted ==
  /\ txn.kind # "cleanup"
  /\ TableSafe(rows, queue, drain.todo, files)
  /\ txn.kind # "none" => TableSafe(txn.rows, txn.queue, drain.todo, files)
  /\ DemotionSafe /\ CopyUpsBacked
  /\ \A r \in Readers : ReaderSafe(readers[r], rows, files, up)

\* The files lose no cold copy, and a hot one only beside a cold one or without a row.
Keeps(fs, gs, table) ==
  \A d \in Digests :
    /\ fs[2][d] # NoFile => gs[2][d] # NoFile
    /\ fs[1][d] # NoFile => gs[1][d] # NoFile \/ gs[2][d] # NoFile \/ table[d] = NoRow

LEMMA SafeKept ==
  ASSUME NEW table \in Table, NEW q \in SUBSET Entry, NEW todo \in SUBSET Entry,
         NEW fs \in FileTable, NEW gs \in FileTable, TableSafe(table, q, todo, fs),
         Keeps(fs, gs, table), NEW q2 \in SUBSET (q \cup todo), NEW todo2 \in SUBSET (q \cup todo)
  PROVE  TableSafe(table, q2, todo2, gs)
<1>1. \A entry \in q \cup todo : entry.digest \in Digests
  BY DEF Entry
<1>2. ColdBacked(table, gs)
  BY DEF TableSafe, ColdBacked, Keeps
<1>3. HasPayload(table, gs)
  BY DEF TableSafe, HasPayload, Keeps
<1>4. QueueSafe(table, q2 \cup todo2, gs)
  BY <1>1 DEF TableSafe, QueueSafe, Keeps
<1> QED
  BY <1>2, <1>3, <1>4 DEF TableSafe

\* Another row for one digest, and other entries for it.
SameElsewhere(table, new, d) == \A x \in Digests \ {d} : new[x] = table[x]
RowSafe(row, d, fs) ==
  /\ ClaimsCold(row) => fs[2][d] # NoFile
  /\ row # NoRow => fs[1][d] # NoFile \/ fs[2][d] # NoFile
EntriesSafe(q, q2, row, d, fs) ==
  \A entry \in q2 :
    \/ entry.digest # d /\ entry \in q
    \/ entry.digest = d /\ (row = NoRow \/ fs[2][d] # NoFile)

LEMMA SafeUpdate ==
  ASSUME NEW table \in Table, NEW q \in SUBSET Entry, NEW todo \in SUBSET Entry,
         NEW fs \in FileTable, TableSafe(table, q, todo, fs),
         NEW new \in Table, NEW d \in Digests, NEW q2 \in SUBSET Entry,
         SameElsewhere(table, new, d), RowSafe(new[d], d, fs),
         EntriesSafe(q \cup todo, q2 \cup todo, new[d], d, fs)
  PROVE  TableSafe(new, q2, todo, fs)
<1>1. \A entry \in q2 \cup todo : entry.digest \in Digests
  BY DEF Entry
<1>2. ColdBacked(new, fs)
  BY DEF TableSafe, ColdBacked, SameElsewhere, RowSafe
<1>3. HasPayload(new, fs)
  BY DEF TableSafe, HasPayload, SameElsewhere, RowSafe
<1>4. QueueSafe(new, q2 \cup todo, fs)
  <2> SUFFICES ASSUME NEW entry \in q2 \cup todo
               PROVE  new[entry.digest] = NoRow \/ fs[2][entry.digest] # NoFile
    BY DEF QueueSafe
  <2>1. CASE entry.digest # d
    <3>1. entry \in q \cup todo /\ new[entry.digest] = table[entry.digest]
      BY <1>1, <2>1 DEF SameElsewhere, EntriesSafe
    <3> QED
      BY <3>1 DEF TableSafe, QueueSafe
  <2>2. CASE entry.digest = d
    BY <2>2 DEF EntriesSafe
  <2> QED
    BY <2>1, <2>2
<1> QED
  BY <1>2, <1>3, <1>4 DEF TableSafe

LEMMA ReaderKept ==
  ASSUME NEW me \in ReaderStates, NEW table \in Table, NEW fs \in FileTable, NEW ups,
         ReaderSafe(me, table, fs, ups), NEW new \in Table, NEW gs \in FileTable,
         \A d \in Digests : fs[2][d] # NoFile => gs[2][d] # NoFile,
         Referenced(me, new)
  PROVE  ReaderSafe(me, new, gs, ups)
<1>1. me.digests \in SUBSET Digests
  BY DEF ReaderStates
<1>2. ASSUME NEW d \in me.digests
      PROVE  me.digests = {d} /\ Knows(me, gs[2][d] # NoFile)
  <2>1. me.digests = {d} /\ Knows(me, fs[2][d] # NoFile)
    BY DEF ReaderSafe
  <2>2. d \in Digests
    BY <1>1
  <2>3. GoodRepair(me, fs[2][d] # NoFile) => GoodRepair(me, gs[2][d] # NoFile)
    BY <2>2 DEF GoodRepair
  <2> QED
    BY <2>1, <2>2, <2>3 DEF Knows
<1> QED
  BY <1>2 DEF ReaderSafe
\* What Typed and Mounted give the proofs about one step.
LEMMA MountedTypes ==
  ASSUME Typed
  PROVE  /\ rows \in Table /\ queue \in SUBSET Entry /\ files \in FileTable /\ up \in SUBSET Tiers
         /\ txn \in TxnStates /\ txn.rows \in Table /\ txn.queue \in SUBSET Entry
         /\ txn.targets \in SUBSET Digests
         /\ drain \in DrainStates /\ drain.todo \in SUBSET Entry /\ copyup \in CopyUpStates
         /\ readers \in [Readers -> ReaderStates]
BY TypeParts DEF Typed, TxnStates, DrainStates

LEMMA SameFilesKept ==
  ASSUME NEW fs \in FileTable, NEW gs \in FileTable, NEW table \in Table,
         \A t \in Tiers, d \in Digests : fs[t][d] # NoFile => gs[t][d] # NoFile
  PROVE  Keeps(fs, gs, table)
BY DEF Keeps, Tiers

\* A step of a transaction.
LEMMA InsideMounted ==
  ASSUME Typed, Mounted, UNCHANGED <<rows, queue, up, drain, copyup, readers>>,
         NEW gs \in FileTable, files' = gs, Keeps(files, gs, rows), txn'.kind # "cleanup", DemotionSafe',
         txn'.kind # "none" => TableSafe(txn'.rows, txn'.queue, drain.todo, gs)
  PROVE  Mounted'
<1>1. TableSafe(rows, queue, drain.todo, gs)
  BY SafeKept, MountedTypes DEF Mounted
<1>2. \A d \in Digests : files[2][d] # NoFile => gs[2][d] # NoFile
  BY DEF Keeps
<1>3. \A r \in Readers : ReaderSafe(readers[r], rows, gs, up)
  <2> TAKE r \in Readers
  <2>1. readers[r] \in ReaderStates /\ ReaderSafe(readers[r], rows, files, up)
    BY MountedTypes DEF Mounted
  <2>2. Referenced(readers[r], rows)
    BY <2>1 DEF ReaderSafe
  <2> QED
    BY <1>2, <2>1, <2>2, ReaderKept, MountedTypes
<1>4. CopyUpsBacked'
  BY <1>2 DEF CopyUpsBacked, Mounted
<1> QED
  BY <1>1, <1>3, <1>4 DEF Mounted

LEMMA BeginMounted ==
  ASSUME Typed, Mounted, Begin("write", "begin", {}) \/ Begin("demote", "select", {})
  PROVE  Mounted'
<1>1. /\ txn'.kind \in {"write", "demote"} /\ txn'.step \in {"begin", "select"}
      /\ txn'.rows = rows /\ txn'.queue = queue
      /\ UNCHANGED <<rows, queue, files, up, drain, copyup, readers>>
  BY DEF Begin
<1>2. DemotionSafe'
  BY <1>1 DEF DemotionSafe
<1>3. Keeps(files, files, rows)
  BY DEF Keeps
<1>4. TableSafe(rows, queue, drain.todo, files)
  BY DEF Mounted
<1> QED
  BY <1>1, <1>2, <1>3, <1>4, InsideMounted, MountedTypes

LEMMA CommitMounted == ASSUME Typed, Mounted, Commit PROVE Mounted'
<1>1. /\ rows' = txn.rows /\ queue' = txn.queue /\ txn' = Idle /\ txn.kind # "none"
      /\ UNCHANGED <<files, up, drain, copyup>>
  BY DEF Commit, CommitReady
<1>2. txn'.kind = "none"
  BY <1>1, EmptyTableTyped
<1>3. TableSafe(rows', queue', drain'.todo, files')
  BY <1>1 DEF Mounted
<1>4. \A r \in Readers : ReaderSafe(readers'[r], rows', files', up')
  <2> TAKE r \in Readers
  <2> DEFINE me == readers[r]
  <2> DEFINE x == readers'[r]
  <2>1. me \in ReaderStates /\ me.digests \in SUBSET Digests /\ ReaderSafe(me, rows, files, up)
    BY MountedTypes DEF Mounted, ReaderStates
  <2>2. /\ x.pc = me.pc /\ x.row = me.row /\ x.digests = me.digests /\ x.tier = me.tier
        /\ x.hotSeen = me.hotSeen /\ x.outage = me.outage /\ x.repair = me.repair
        /\ x.released <=> me.released \/ LosesBlock(r, txn.rows)
    BY CommitReaders
  <2> DEFINE lost == LosesBlock(r, txn.rows)
  <2>3. Active(me) /\ ~lost => \A d \in me.digests : RowRefs(txn.rows[d]) > 0
    <3>1. \A d \in Digests : RowRefs(txn.rows[d]) \in Nat
      BY RowsTyped
    <3>2. Active(me) <=> InRead(r)
      BY DEF Active, InRead
    <3> SUFFICES ASSUME InRead(r), ~lost, NEW d \in me.digests PROVE RowRefs(txn.rows[d]) > 0
      BY <3>2
    <3>3. RowRefs(txn.rows[d]) # 0
      BY DEF LosesBlock
    <3>4. d \in Digests
      BY <2>1
    <3> QED
      BY <3>1, <3>3, <3>4
  <2> HIDE DEF x, me, lost
  <2>4. Referenced(x, txn.rows)
    BY <2>2, <2>3 DEF Referenced, Active, lost
  <2>5. ASSUME NEW d \in x.digests PROVE x.digests = {d} /\ Knows(x, files[2][d] # NoFile)
    <3>1. me.digests = {d} /\ Knows(me, files[2][d] # NoFile)
      BY <2>1, <2>2 DEF ReaderSafe
    <3>2. GoodRepair(me, files[2][d] # NoFile) => GoodRepair(x, files[2][d] # NoFile)
      BY <2>2 DEF GoodRepair
    <3> QED
      BY <2>2, <3>1, <3>2 DEF Knows
  <2>6. Active(x) /\ ~x.outage => up = Tiers
    BY <2>1, <2>2 DEF ReaderSafe, Active
  <2>7. ReaderSafe(x, txn.rows, files, up)
    BY <2>4, <2>5, <2>6 DEF ReaderSafe
  <2> QED
    BY <1>1, <2>7 DEF x
<1>5. DemotionSafe' /\ CopyUpsBacked'
  BY <1>1, <1>2 DEF DemotionSafe, CopyUpsBacked, Mounted
<1> QED
  BY <1>2, <1>3, <1>4, <1>5 DEF Mounted

LEMMA RollbackMounted == ASSUME Typed, Mounted, Rollback PROVE Mounted'
<1>1. txn'.kind = "none" /\ UNCHANGED <<rows, queue, files, up, drain, copyup, readers>>
  BY EmptyTableTyped DEF Rollback
<1>2. DemotionSafe'
  BY <1>1 DEF DemotionSafe
<1>3. Keeps(files, files, rows)
  BY DEF Keeps
<1> QED
  BY <1>1, <1>2, <1>3, InsideMounted, MountedTypes

\* A reader at rest satisfies everything that is said of readers.
LEMMA RestingSafe ==
  ASSUME NEW table, NEW fs, NEW ups
  PROVE  ReaderSafe(Resting, table, fs, ups)
BY RestingTyped DEF ReaderSafe, Referenced, Active

LEMMA CrashMounted == ASSUME Typed, Mounted, Crash PROVE Mounted'
<1>1. UNCHANGED <<rows, queue, files, up>> /\ drain'.todo = {} /\ txn'.kind = "none"
  BY EmptyTableTyped DEF Crash, InProcessWrite, Mounted, Typed, TypeOK, NoDrain
<1>2. TableSafe(rows, queue, {}, files)
  <2>1. Keeps(files, files, rows)
    BY DEF Keeps
  <2> QED
    BY <2>1, SafeKept, MountedTypes DEF Mounted
<1>3. \A r \in Readers : ReaderSafe(readers'[r], rows', files', up')
  BY RestingSafe DEF Crash
<1>4. DemotionSafe' /\ CopyUpsBacked'
  BY <1>1 DEF DemotionSafe, CopyUpsBacked, Crash
<1> QED
  BY <1>1, <1>2, <1>3, <1>4 DEF Mounted

LEMMA StoreMounted ==
  ASSUME MountedOnly, Typed, Mounted, NEW d \in Digests, NEW e \in Encodings, Store(d, e)
  PROVE  Mounted'
<1>1. PICK row \in MaybeRow :
           /\ row # NoRow /\ TieredRow(row) /\ RowRefs(row) = RowRefs(txn.rows[d]) + 1
           /\ ClaimsCold(row) <=> ClaimsCold(txn.rows[d])
           /\ txn'.kind = "write" /\ txn'.queue = txn.queue
           /\ txn'.rows \in Table /\ txn'.rows[d] = row
           /\ \A x \in Digests \ {d} : txn'.rows[x] = txn.rows[x]
  BY StoreStep
<1>2. txn.kind = "write" /\ UNCHANGED <<rows, queue, up, drain, copyup, readers>>
  BY DEF Store, Writing
<1> DEFINE enc == StoredEncoding(txn.rows[d], e)
<1>3. enc \in Encodings /\ enc # NoFile
  BY RowsTyped, NoFileAssumption DEF StoredEncoding, MaybeRow, Row
<1>4. files' = files \/ (files' = [files EXCEPT ![1][d] = enc] /\ files[1][d] = NoFile)
  BY DEF Store
<1> HIDE DEF enc
<1>14. LET new == [files EXCEPT ![1][d] = enc]
       IN  /\ new \in FileTable /\ new[1][d] = enc
           /\ \A t \in Tiers, x \in Digests : t # 1 \/ x # d => new[t][x] = files[t][x]
  <2>1. 1 \in Tiers /\ enc \in Encodings \cup {NoFile} /\ files \in FileTable
    BY <1>3, MountedTypes DEF Tiers
  <2> QED
    BY <2>1, FileUpdate
<1>5. files' \in FileTable
      /\ \A t \in Tiers, x \in Digests : files[t][x] # NoFile => files'[t][x] # NoFile
  <2>1. CASE files' = files
    BY <2>1, MountedTypes
  <2>2. CASE files' = [files EXCEPT ![1][d] = enc]
    <3>1. files' \in FileTable /\ files'[1][d] = enc
      BY <1>14, <2>2
    <3>2. ASSUME NEW t \in Tiers, NEW x \in Digests, t # 1 \/ x # d
          PROVE  files'[t][x] = files[t][x]
      BY <1>14, <2>2, <3>2
    <3> QED
      BY <1>3, <3>1, <3>2
  <2> QED
    BY <1>4, <2>1, <2>2
<1>6. Keeps(files, files', rows) /\ Keeps(files, files', txn.rows)
  BY <1>5, SameFilesKept, MountedTypes
<1>7. TableSafe(txn.rows, txn.queue, drain.todo, files) /\ TableSafe(txn.rows, txn.queue, drain.todo, files')
  BY <1>2, <1>5, <1>6, SafeKept, MountedTypes DEF Mounted
<1>8. files'[1][d] # NoFile \/ files'[2][d] # NoFile
  <2>1. CASE txn.rows[d] = NoRow \/ ~txn.rows[d].hot
    <3>1. files' = IF files[1][d] = NoFile THEN [files EXCEPT ![1][d] = enc] ELSE files
      BY <2>1 DEF Store, enc
    <3> QED
      BY <1>3, <1>14, <3>1
  <2>2. CASE txn.rows[d] # NoRow
    BY <1>7, <2>2 DEF TableSafe, HasPayload
  <2> QED
    BY <2>1, <2>2
<1>9. \A entry \in txn.queue \cup drain.todo : entry.digest # d
  <2>1. "reuse" \notin Environment /\ "rewrite" \notin Environment
    BY DEF MountedOnly
  <2> QED
    BY <2>1 DEF Store, Excluded, Queued
<1>10. TableSafe(txn'.rows, txn'.queue, drain.todo, files')
  <2>1. RowSafe(txn'.rows[d], d, files')
    BY <1>1, <1>7, <1>8 DEF TableSafe, ColdBacked, RowSafe
  <2>2. EntriesSafe(txn.queue \cup drain.todo, txn.queue \cup drain.todo, txn'.rows[d], d, files')
    BY <1>9 DEF EntriesSafe
  <2>3. SameElsewhere(txn.rows, txn'.rows, d)
    BY <1>1 DEF SameElsewhere
  <2>4. /\ txn.rows \in Table /\ txn'.rows \in Table /\ txn.queue \in SUBSET Entry
        /\ drain.todo \in SUBSET Entry /\ files' \in FileTable /\ txn'.queue = txn.queue
    BY <1>1, <1>5, MountedTypes
  <2> QED
    BY <1>7, <2>1, <2>2, <2>3, <2>4, SafeUpdate
<1>11. DemotionSafe'
  BY <1>1 DEF DemotionSafe
<1> QED
  BY <1>1, <1>2, <1>5, <1>6, <1>10, <1>11, InsideMounted

LEMMA DropMounted == ASSUME Typed, Mounted, NEW d \in Digests, Drop(d) PROVE Mounted'
<1>1. PICK row \in MaybeRow :
           /\ TieredRow(row) /\ RowRefs(row) = RowRefs(txn.rows[d]) - 1
           /\ ClaimsCold(row) <=> ClaimsCold(txn.rows[d])
           /\ RowRefs(txn.rows[d]) > 0
           /\ txn' \in TxnStates /\ txn'.kind = "write"
           /\ txn'.rows \in Table /\ txn'.rows[d] = row
           /\ \A x \in Digests \ {d} : txn'.rows[x] = txn.rows[x]
           /\ \A entry \in txn'.queue :
                entry \in txn.queue \/ (entry.digest = d /\ (row = NoRow \/ ClaimsCold(row)))
  BY DropStep
<1>2. txn.kind = "write" /\ UNCHANGED <<rows, queue, files, up, drain, copyup, readers>>
  BY DEF Drop, Writing
<1>3. TableSafe(txn.rows, txn.queue, drain.todo, files)
  BY <1>2 DEF Mounted
<1>4. txn.rows[d] # NoRow
  BY <1>1, RowsTyped DEF RowRefs
<1>5. TableSafe(txn'.rows, txn'.queue, drain.todo, files)
  <2>1. RowSafe(txn'.rows[d], d, files)
    BY <1>1, <1>3, <1>4 DEF TableSafe, ColdBacked, HasPayload, RowSafe
  <2>2. EntriesSafe(txn.queue \cup drain.todo, txn'.queue \cup drain.todo, txn'.rows[d], d, files)
    <3> SUFFICES ASSUME NEW entry \in txn'.queue \cup drain.todo
                 PROVE  \/ entry.digest # d /\ entry \in txn.queue \cup drain.todo
                        \/ entry.digest = d /\ (txn'.rows[d] = NoRow \/ files[2][d] # NoFile)
      BY DEF EntriesSafe
    <3>1. CASE entry \in txn.queue \cup drain.todo
      BY <1>3, <1>4, <3>1 DEF TableSafe, QueueSafe
    <3>2. CASE entry \notin txn.queue \cup drain.todo
      BY <1>1, <2>1, <3>2 DEF RowSafe
    <3> QED
      BY <3>1, <3>2
  <2>3. SameElsewhere(txn.rows, txn'.rows, d)
    BY <1>1 DEF SameElsewhere
  <2>4. /\ txn.rows \in Table /\ txn'.rows \in Table /\ txn.queue \in SUBSET Entry
        /\ drain.todo \in SUBSET Entry /\ files \in FileTable /\ txn'.queue \in SUBSET Entry
    BY <1>1, MountedTypes DEF TxnStates
  <2> QED
    BY <1>3, <2>1, <2>2, <2>3, <2>4, SafeUpdate
<1>6. DemotionSafe' /\ Keeps(files, files, rows)
  BY <1>1 DEF DemotionSafe, Keeps
<1> QED
  BY <1>1, <1>2, <1>5, <1>6, InsideMounted, MountedTypes

LEMMA SelectForDemotionMounted ==
  ASSUME Typed, Mounted, NEW d \in Digests, SelectForDemotion(d)
  PROVE  Mounted'
<1>1. /\ txn.kind = "demote" /\ txn.rows[d] # NoRow
      /\ txn'.kind = "demote" /\ txn'.rows = txn.rows /\ txn'.queue = txn.queue /\ txn'.targets = {d}
      /\ txn'.step = IF txn.rows[d].cold THEN "unlink" ELSE IF 2 \in up THEN "copy" ELSE "end"
      /\ UNCHANGED <<rows, queue, files, up, drain, copyup, readers>>
  BY SelectForDemotionStep DEF SelectForDemotion
<1>2. TableSafe(txn.rows, txn.queue, drain.todo, files)
  BY <1>1 DEF Mounted
<1>3. DemotionSafe'
  <2>1. txn.rows[d].cold => files[2][d] # NoFile
    BY <1>1, <1>2 DEF TableSafe, ColdBacked, ClaimsCold
  <2> QED
    BY <1>1, <2>1 DEF DemotionSafe
<1>4. Keeps(files, files, rows)
  BY DEF Keeps
<1> QED
  BY <1>1, <1>2, <1>3, <1>4, InsideMounted, MountedTypes DEF Mounted

LEMMA CopyForDemotionMounted ==
  ASSUME Typed, Mounted, NEW d \in Digests, CopyForDemotion(d)
  PROVE  Mounted'
<1>1. /\ txn.kind = "demote" /\ txn.step = "copy" /\ d \in txn.targets
      /\ txn'.kind = "demote" /\ txn'.rows = txn.rows /\ txn'.queue = txn.queue
      /\ txn'.targets = txn.targets /\ txn'.step = "unlink"
      /\ files' = Copied(d, 1, 2) /\ UNCHANGED <<rows, queue, up, drain, copyup, readers>>
  BY CopyForDemotionStep DEF CopyForDemotion
<1>2. /\ files' \in FileTable
      /\ \A t \in Tiers, x \in Digests : files[t][x] # NoFile => files'[t][x] # NoFile
      /\ Present(1, d) /\ 2 \in up => files'[2][d] # NoFile
  <2>1. 1 \in Tiers /\ 2 \in Tiers /\ files \in FileTable
    BY MountedTypes DEF Tiers
  <2> QED
    BY <1>1, <2>1, CopiedFile
<1>3. Keeps(files, files', rows) /\ Keeps(files, files', txn.rows)
  BY <1>2, SameFilesKept, MountedTypes
<1>4. TableSafe(txn.rows, txn.queue, drain.todo, files) /\ TableSafe(txn.rows, txn.queue, drain.todo, files')
  BY <1>1, <1>2, <1>3, SafeKept, MountedTypes DEF Mounted
<1>5. DemotionSafe'
  <2>1. 2 \in up /\ \A x, y \in txn.targets : x = y
    BY <1>1 DEF DemotionSafe, Mounted
  <2>2. 1 \in up => files'[2][d] # NoFile
    <3>1. txn.rows[d] # NoRow
      BY <1>1 DEF Typed, TxnShape
    <3>2. files[1][d] # NoFile \/ files[2][d] # NoFile
      BY <1>4, <3>1 DEF TableSafe, HasPayload
    <3> QED
      BY <1>2, <2>1, <3>2 DEF Present, Tiers
  <2> QED
    BY <1>1, <2>1, <2>2 DEF DemotionSafe
<1> QED
  BY <1>1, <1>2, <1>3, <1>4, <1>5, InsideMounted, MountedTypes DEF Mounted

LEMMA UnlinkForDemotionMounted ==
  ASSUME Typed, Mounted, NEW d \in Digests, UnlinkForDemotion(d)
  PROVE  Mounted'
<1>1. /\ txn.kind = "demote" /\ txn.step = "unlink" /\ d \in txn.targets
      /\ txn' \in TxnStates /\ txn'.kind = "demote" /\ txn'.queue = txn.queue
      /\ txn'.step \in {"select", "end"}
      /\ \A x \in Digests \ {d} : txn'.rows[x] = txn.rows[x]
      /\ \/ /\ 1 \in up /\ files' = [files EXCEPT ![1][d] = NoFile]
            /\ txn'.rows[d] # NoRow /\ ClaimsCold(txn'.rows[d])
            /\ RowRefs(txn'.rows[d]) = RowRefs(txn.rows[d])
         \/ UNCHANGED files /\ txn'.rows[d] = txn.rows[d]
      /\ UNCHANGED <<rows, queue, up, drain, copyup, readers>>
  BY UnlinkForDemotionStep DEF UnlinkForDemotion
<1>2. TableSafe(txn.rows, txn.queue, drain.todo, files)
  BY <1>1 DEF Mounted
<1>3. 1 \in up => files[2][d] # NoFile
  BY <1>1 DEF DemotionSafe, Mounted
<1>4. DemotionSafe'
  BY <1>1 DEF DemotionSafe
<1>5. files' \in FileTable /\ Keeps(files, files', rows) /\ Keeps(files, files', txn.rows)
  <2>1. 1 \in Tiers /\ 2 \in Tiers /\ NoFile \in Encodings \cup {NoFile} /\ files \in FileTable
    BY MountedTypes DEF Tiers
  <2>2. LET new == [files EXCEPT ![1][d] = NoFile]
        IN  /\ new \in FileTable
            /\ \A u \in Tiers, x \in Digests : u # 1 \/ x # d => new[u][x] = files[u][x]
    BY <2>1, FileUpdate
  <2>3. CASE 1 \in up /\ files' = [files EXCEPT ![1][d] = NoFile]
    BY <1>3, <2>1, <2>2, <2>3 DEF Keeps
  <2>4. CASE UNCHANGED files
    BY <2>1, <2>4 DEF Keeps
  <2> QED
    BY <1>1, <2>3, <2>4
<1>6. TableSafe(txn.rows, txn.queue, drain.todo, files')
  BY <1>2, <1>5, SafeKept, MountedTypes
<1>7. TableSafe(txn'.rows, txn'.queue, drain.todo, files')
  <2>1. /\ txn.rows \in Table /\ txn'.rows \in Table /\ txn.queue \in SUBSET Entry
        /\ drain.todo \in SUBSET Entry /\ txn'.queue = txn.queue
    BY <1>1, MountedTypes DEF TxnStates
  <2>2. SameElsewhere(txn.rows, txn'.rows, d)
    BY <1>1 DEF SameElsewhere
  <2>3. \/ txn'.rows[d] = txn.rows[d]
        \/ files'[2][d] # NoFile
    BY <1>1, <1>3, <1>5 DEF Keeps
  <2>4. RowSafe(txn'.rows[d], d, files')
    BY <1>6, <2>3 DEF TableSafe, ColdBacked, HasPayload, RowSafe
  <2>5. EntriesSafe(txn.queue \cup drain.todo, txn.queue \cup drain.todo, txn'.rows[d], d, files')
    BY <1>6, <2>3 DEF TableSafe, QueueSafe, EntriesSafe
  <2> QED
    BY <1>5, <1>6, <2>1, <2>2, <2>4, <2>5, SafeUpdate
<1> QED
  BY <1>1, <1>4, <1>5, <1>7, InsideMounted

\* A step outside the transactions that leaves rows, tiers and readers alone.
LEMMA OutsideMounted ==
  ASSUME Typed, Mounted, UNCHANGED <<rows, txn, up, readers>>,
         NEW gs \in FileTable, files' = gs,
         Keeps(files, gs, rows), txn.kind # "none" => Keeps(files, gs, txn.rows),
         NEW q \in SUBSET (queue \cup drain.todo), queue' = q,
         NEW todo \in SUBSET (queue \cup drain.todo), drain'.todo = todo,
         txn.kind # "none" => todo \in SUBSET drain.todo,
         CopyUpsBacked'
  PROVE  Mounted'
<1>1. TableSafe(rows, q, todo, gs)
  BY SafeKept, MountedTypes DEF Mounted
<1>2. txn.kind # "none" => TableSafe(txn.rows, txn.queue, todo, gs)
  <2> SUFFICES ASSUME txn.kind # "none" PROVE TableSafe(txn.rows, txn.queue, todo, gs)
    OBVIOUS
  <2>1. txn.queue \in SUBSET (txn.queue \cup drain.todo) /\ todo \in SUBSET (txn.queue \cup drain.todo)
    OBVIOUS
  <2> QED
    BY <2>1, SafeKept, MountedTypes DEF Mounted
<1>3. \A d \in Digests : files[2][d] # NoFile => gs[2][d] # NoFile
  BY DEF Keeps
<1>4. \A r \in Readers : ReaderSafe(readers[r], rows, gs, up)
  <2> TAKE r \in Readers
  <2>1. readers[r] \in ReaderStates /\ ReaderSafe(readers[r], rows, files, up)
    BY MountedTypes DEF Mounted
  <2>2. Referenced(readers[r], rows)
    BY <2>1 DEF ReaderSafe
  <2> QED
    BY <1>3, <2>1, <2>2, ReaderKept, MountedTypes
<1>5. DemotionSafe'
  BY <1>3, MountedTypes DEF DemotionSafe, Mounted
<1> QED
  BY <1>1, <1>2, <1>4, <1>5 DEF Mounted

LEMMA DrainMounted ==
  ASSUME MountedOnly, Typed, Mounted,
         ReadQueue \/ RemoveQueued \/ \E entry \in drain.todo : UnlinkQueued(entry)
  PROVE  Mounted'
<1>1. Keeps(files, files, rows) /\ Keeps(files, files, txn.rows)
  BY DEF Keeps
<1>2. CASE ReadQueue
  <2>1. txn.kind = "none"
    BY <1>2, MountedTypes DEF ReadQueue, MayRead, InProcessWrite, Mounted, TxnStates, TxnKinds
  <2>2. drain'.todo = queue /\ CopyUpsBacked'
    BY <1>2 DEF ReadQueue, CopyUpsBacked, Mounted
  <2>3. queue \in SUBSET (queue \cup drain.todo)
    OBVIOUS
  <2> QED
    BY <1>1, <1>2, <2>1, <2>2, <2>3, OutsideMounted, MountedTypes DEF ReadQueue
<1>3. CASE RemoveQueued
  <2>1. txn.kind = "none" /\ drain'.todo = {} /\ CopyUpsBacked'
    BY <1>3 DEF RemoveQueued, NoDrain, CopyUpsBacked, Mounted
  <2>2. queue' \in SUBSET (queue \cup drain.todo) /\ {} \in SUBSET (queue \cup drain.todo)
    BY <1>3 DEF RemoveQueued, Dequeued
  <2> QED
    BY <1>1, <1>3, <2>1, <2>2, OutsideMounted, MountedTypes DEF RemoveQueued
<1>4. ASSUME NEW entry \in drain.todo, UnlinkQueued(entry) PROVE Mounted'
  <2> DEFINE d == entry.digest
  <2>1. d \in Digests
    BY MountedTypes DEF Entry
  <2>2. drain'.todo = drain.todo \ {entry} /\ UNCHANGED <<rows, queue, up, txn, copyup, readers>>
    BY <1>4 DEF UnlinkQueued
  <2>3. \/ files' = files \/ files' = [files EXCEPT ![1][d] = NoFile]
    BY <1>4 DEF UnlinkQueued
  <2>4. /\ rows[d] = NoRow \/ files[2][d] # NoFile
        /\ txn.kind # "none" => txn.rows[d] = NoRow \/ files[2][d] # NoFile
    BY DEF Mounted, TableSafe, QueueSafe
  <2> HIDE DEF d
  <2>5. LET new == [files EXCEPT ![1][d] = NoFile]
        IN  /\ new \in FileTable
            /\ \A u \in Tiers, x \in Digests : u # 1 \/ x # d => new[u][x] = files[u][x]
    <3>1. 1 \in Tiers /\ NoFile \in Encodings \cup {NoFile} /\ files \in FileTable
      BY MountedTypes DEF Tiers
    <3> QED
      BY <2>1, <3>1, FileUpdate
  <2>6. files' \in FileTable /\ \A x \in Digests : files'[2][x] = files[2][x]
    <3>1. 2 \in Tiers /\ 2 # 1
      BY DEF Tiers
    <3>2. CASE files' = files
      BY <3>2, MountedTypes
    <3>3. CASE files' = [files EXCEPT ![1][d] = NoFile]
      BY <2>5, <3>1, <3>3
    <3> QED
      BY <2>3, <3>2, <3>3
  <2>7. Keeps(files, files', rows) /\ (txn.kind # "none" => Keeps(files, files', txn.rows))
    BY <2>3, <2>4, <2>5, <2>6 DEF Keeps, Tiers
  <2>8. CopyUpsBacked'
    BY <2>2, <2>6 DEF CopyUpsBacked, Mounted
  <2>9. queue \in SUBSET (queue \cup drain.todo) /\ drain'.todo \in SUBSET (queue \cup drain.todo)
        /\ drain'.todo \in SUBSET drain.todo
    BY <2>2
  <2> QED
    BY <2>2, <2>6, <2>7, <2>8, <2>9, OutsideMounted
<1> QED
  BY <1>2, <1>3, <1>4

\* A change of one row outside the transactions.
LEMMA RowMounted ==
  ASSUME Typed, Mounted, txn.kind = "none", UNCHANGED <<queue, files, up, txn, drain>>, NEW d \in Digests,
         NEW new \in Table, rows' = new, SameElsewhere(rows, new, d),
         RowSafe(new[d], d, files), new[d] = NoRow <=> rows[d] = NoRow,
         RowRefs(new[d]) = RowRefs(rows[d]),
         CopyUpsBacked',
         \A r \in Readers : readers'[r] = readers[r] \/ readers'[r] = Resting
  PROVE  Mounted'
<1>1. EntriesSafe(queue \cup drain.todo, queue \cup drain.todo, new[d], d, files)
  BY DEF EntriesSafe, Mounted, TableSafe, QueueSafe
<1>2. TableSafe(new, queue, drain.todo, files)
  BY <1>1, SafeUpdate, MountedTypes DEF Mounted
<1>3. ASSUME NEW r \in Readers PROVE ReaderSafe(readers'[r], new, files, up)
  <2>1. readers[r] \in ReaderStates /\ ReaderSafe(readers[r], rows, files, up)
    BY MountedTypes DEF Mounted
  <2>2. Referenced(readers[r], new)
    BY <2>1 DEF ReaderSafe, Referenced, SameElsewhere, ReaderStates
  <2>3. ReaderSafe(readers[r], new, files, up)
    BY <2>1, <2>2, ReaderKept, MountedTypes
  <2> QED
    BY <2>3, RestingSafe
<1>4. DemotionSafe'
  BY DEF DemotionSafe
<1> QED
  BY <1>2, <1>3, <1>4 DEF Mounted

LEMMA CopyUpMounted ==
  ASSUME Typed, Mounted, NEW d \in Digests, CopyUpFile(d) \/ CopyUpProbe(d) \/ CopyUpCommit(d)
  PROVE  Mounted'
<1>1. /\ \A e \in Digests : copyup'[e] # "idle" => copyup[e] # "idle"
      /\ copyup[d] # "idle"
  BY MountedTypes DEF CopyUpFile, CopyUpProbe, CopyUpCommit, CopyUpStates
<1>2. queue \in SUBSET (queue \cup drain.todo) /\ drain.todo \in SUBSET (queue \cup drain.todo)
      /\ Keeps(files, files, rows) /\ Keeps(files, files, txn.rows)
  BY DEF Keeps
<1>3. CASE CopyUpFile(d)
  <2>1. /\ files' \in FileTable
        /\ \A t \in Tiers, x \in Digests : files[t][x] # NoFile => files'[t][x] # NoFile
    <3>1. 1 \in Tiers /\ 2 \in Tiers /\ files \in FileTable /\ files' = Copied(d, 2, 1)
      BY <1>3, MountedTypes DEF Tiers, CopyUpFile
    <3> QED
      BY <3>1, CopiedFile
  <2>2. Keeps(files, files', rows) /\ Keeps(files, files', txn.rows)
    BY <2>1, SameFilesKept, MountedTypes
  <2>3. CopyUpsBacked'
    BY <1>1, <2>2 DEF CopyUpsBacked, Mounted, Keeps
  <2> QED
    BY <1>2, <1>3, <2>1, <2>2, <2>3, OutsideMounted, MountedTypes DEF CopyUpFile
<1>4. CASE CopyUpProbe(d)
  <2>1. CopyUpsBacked'
    BY <1>1, <1>4 DEF CopyUpsBacked, Mounted, CopyUpProbe
  <2> QED
    BY <1>2, <1>4, <2>1, OutsideMounted, MountedTypes DEF CopyUpProbe
<1>5. CASE CopyUpCommit(d)
  <2> DEFINE row == IF rows[d] = NoRow THEN NoRow ELSE PromotedByCopyUp(rows[d])
  <2>1. /\ row = NoRow <=> rows[d] = NoRow
        /\ row # NoRow => ClaimsCold(row) /\ row \in Row /\ TieredRow(row)
        /\ RowRefs(row) = RowRefs(rows[d])
    BY RowsTyped, MovedRow DEF MaybeRow, TieredRow
  <2>2. row \in MaybeRow /\ TieredRow(row)
    BY <2>1 DEF MaybeRow, TieredRow
  <2>3. rows' = [rows EXCEPT ![d] = row]
    BY <1>5, MountedTypes DEF CopyUpCommit, Table
  <2> HIDE DEF row
  <2>5. rows' \in Table /\ rows'[d] = row /\ SameElsewhere(rows, rows', d)
    <3>1. rows \in Table /\ TieredRows(rows)
      BY MountedTypes DEF Typed
    <3>2. LET new == [rows EXCEPT ![d] = row]
          IN  new \in Table /\ new[d] = row /\ \A x \in Digests \ {d} : new[x] = rows[x]
      BY <2>2, <3>1, TableUpdate
    <3> QED
      BY <2>3, <3>2 DEF SameElsewhere
  <2>6. RowSafe(row, d, files)
    BY <1>1, <2>1 DEF RowSafe, Mounted, CopyUpsBacked, ClaimsCold
  <2>7. CopyUpsBacked' /\ txn.kind = "none"
    BY <1>1, <1>5 DEF CopyUpsBacked, Mounted, CopyUpCommit
  <2>8. UNCHANGED <<queue, files, up, txn, drain, readers>>
    BY <1>5 DEF CopyUpCommit
  <2> QED
    BY <2>1, <2>5, <2>6, <2>7, <2>8, RowMounted
<1> QED
  BY <1>3, <1>4, <1>5
(***************************************************************************)
(* Readers of the mounted process.                                         *)
(***************************************************************************)
\* A step of one reader that leaves tables and files alone.
LEMMA ReadingMounted ==
  ASSUME Typed, Mounted, UNCHANGED <<rows, queue, files, up, txn, drain>>,
         NEW r \in Readers, NEW x \in ReaderStates, Becomes(r, x),
         ReaderSafe(x, rows, files, up), CopyUpsBacked'
  PROVE  Mounted'
<1>1. \A o \in Readers : ReaderSafe(readers'[o], rows, files, up)
  BY DEF Becomes, Mounted
<1>2. DemotionSafe'
  BY DEF DemotionSafe, Mounted
<1> QED
  BY <1>1, <1>2 DEF Mounted

LEMMA PlanMounted ==
  ASSUME MountedOnly, Typed, Mounted, NEW r \in Readers, NEW d \in Digests, Plan(r, d)
  PROVE  Mounted'
<1>1. PICK x \in ReaderStates :
           /\ Becomes(r, x)
           /\ x.pc = "preferred" /\ x.row = rows[d] /\ x.digests = {d}
           /\ x.tier = PreferredTier(rows[d]) /\ ~x.hotSeen /\ ~x.released
           /\ x.outage = (up # Tiers) /\ x.repair = NoRepair
  BY PlanStep
<1>2. txn.kind = "none" /\ UNCHANGED <<rows, queue, files, up, txn, drain, copyup>>
  BY MountedTypes DEF Plan, ReadOnly, MayRead, InProcessWrite, Mounted, TxnStates, TxnKinds
<1>3. RowRefs(rows[d]) > 0 /\ rows[d] # NoRow /\ TieredRow(rows[d])
  BY RowsTyped DEF Plan, RowRefs
<1>4. PreferredTier(rows[d]) \in Tiers /\ (PreferredTier(rows[d]) = 2 => ClaimsCold(rows[d]))
  BY <1>3 DEF PreferredTier, Tiers, ClaimsCold, TieredRow, SoundRow, CheckConstraint
<1>5. ClaimsCold(rows[d]) => files[2][d] # NoFile
  BY DEF Mounted, TableSafe, ColdBacked
<1>7. ReaderSafe(x, rows, files, up)
  BY <1>1, <1>3, <1>4, <1>5 DEF ReaderSafe, Knows, Referenced
<1>6. CopyUpsBacked'
  BY <1>2 DEF CopyUpsBacked, Mounted
<1> QED
  BY <1>1, <1>2, <1>6, <1>7, ReadingMounted

\* What Mounted says of the reader of d that takes the next step.
LEMMA ReaderFacts ==
  ASSUME Typed, Mounted, NEW r \in Readers, NEW d \in Digests, d \in readers[r].digests
  PROVE  /\ readers \in [Readers -> ReaderStates] /\ readers[r] \in ReaderStates /\ readers[r].digests = {d}
         /\ Knows(readers[r], files[2][d] # NoFile)
         /\ ClaimsCold(rows[d]) => files[2][d] # NoFile
         /\ Active(readers[r]) /\ ~readers[r].released =>
              RowRefs(rows[d]) > 0 /\ (files[1][d] # NoFile \/ files[2][d] # NoFile)
         /\ Active(readers[r]) /\ ~readers[r].outage => up = Tiers
<1>1. readers \in [Readers -> ReaderStates] /\ readers[r] \in ReaderStates
      /\ ReaderSafe(readers[r], rows, files, up)
  BY MountedTypes DEF Mounted
<1>2. ColdBacked(rows, files) /\ HasPayload(rows, files)
  BY DEF Mounted, TableSafe
<1>3. Active(readers[r]) /\ ~readers[r].released => RowRefs(rows[d]) > 0
  BY <1>1 DEF ReaderSafe, Referenced
<1>4. RowRefs(rows[d]) > 0 => rows[d] # NoRow
  BY DEF RowRefs
<1> QED
  BY <1>1, <1>2, <1>3, <1>4 DEF ReaderSafe, ColdBacked, HasPayload

\* A reader that fails or has a correction to write is safe if it was.
LEMMA StoppedSafe ==
  ASSUME NEW me \in ReaderStates, NEW x \in ReaderStates, NEW d, NEW table, NEW fs, NEW ups,
         me.digests = {d}, Knows(me, fs[2][d] # NoFile), me.pc = "selected" \/ x.pc = "failed",
         x.pc \in {"repair", "failed"}, x.row = me.row, x.digests = me.digests, x.tier = me.tier,
         x.repair = me.repair
  PROVE  ReaderSafe(x, table, fs, ups)
<1>1. GoodRepair(me, fs[2][d] # NoFile) => GoodRepair(x, fs[2][d] # NoFile)
  BY DEF GoodRepair
<1> QED
  BY <1>1 DEF ReaderSafe, Knows, Referenced, Active

LEMMA DeliverMounted ==
  ASSUME Typed, Mounted, NEW r \in Readers, NEW d \in Digests, d \in readers[r].digests,
         readers[r].pc \in {"preferred", "selected"}, Present(readers[r].tier, d), Deliver(r, d),
         UNCHANGED <<rows, queue, files, up, txn, drain>>
  PROVE  Mounted'
<1> DEFINE me == readers[r]
<1>1. /\ me \in ReaderStates /\ me.digests = {d} /\ Knows(me, files[2][d] # NoFile)
  BY ReaderFacts
<1>2. PICK x \in ReaderStates :
        /\ Becomes(r, x)
        /\ \/ x = Resting
           \/ /\ x.pc = "repair" /\ me.repair # NoRepair /\ ~x.outage
              /\ x.row = me.row /\ x.digests = me.digests
              /\ x.tier = me.tier /\ x.repair = me.repair
           \/ /\ x.pc = "failed" /\ files[me.tier][d] # me.row.enc
              /\ x.row = me.row /\ x.digests = me.digests
              /\ x.tier = me.tier /\ x.repair = me.repair
  BY DeliverStep
<1>3. ReaderSafe(x, rows, files, up)
  <2>1. CASE x = Resting
    BY <2>1, RestingSafe
  <2>2. CASE x.pc = "repair" /\ me.repair # NoRepair
    <3>1. me.pc = "selected"
      BY <1>1, <2>2 DEF Knows
    <3>2. x.row = me.row /\ x.digests = me.digests /\ x.tier = me.tier /\ x.repair = me.repair
      BY <1>2, <2>2, RestingTyped
    <3> HIDE DEF me
    <3> QED
      BY <1>1, <2>2, <3>1, <3>2, StoppedSafe
  <2>3. CASE x.pc = "failed"
    <3>1. x.row = me.row /\ x.digests = me.digests /\ x.tier = me.tier /\ x.repair = me.repair
      BY <1>2, <2>3, RestingTyped
    <3> HIDE DEF me
    <3> QED
      BY <1>1, <2>3, <3>1, StoppedSafe
  <2> QED
    BY <1>2, <2>1, <2>2, <2>3
<1>4. CopyUpsBacked'
  <2>1. readers[r].tier = 2 => files[2][d] # NoFile
    BY DEF Present
  <2>2. \A e \in Digests : copyup'[e] # "idle" => copyup[e] # "idle" \/ (e = d /\ readers[r].tier = 2)
    BY DeliverStep
  <2> QED
    BY <2>1, <2>2 DEF CopyUpsBacked, Mounted
<1> QED
  BY <1>2, <1>3, <1>4, ReadingMounted

\* A reader that only moves on.
LEMMA MoveMounted ==
  ASSUME Typed, Mounted, NEW r \in Readers, NEW d \in Digests, d \in readers[r].digests,
         Active(readers[r]), NEW pc \in ReaderPcs, MoveTo(r, pc),
         UNCHANGED <<rows, queue, files, up, txn, drain, copyup>>,
         \/ pc = "failed"
         \/ pc = "missing" /\ readers[r].tier = 1 /\ (readers[r].released \/ files[2][d] # NoFile)
         \/ pc = "unavailable" /\ readers[r].outage
         \/ pc = "probe-hot" /\ (readers[r].released \/ files[2][d] # NoFile)
  PROVE  Mounted'
<1> DEFINE me == readers[r]
<1>1. /\ me \in ReaderStates /\ me.digests = {d} /\ Knows(me, files[2][d] # NoFile)
      /\ ~me.released => RowRefs(rows[d]) > 0
      /\ ~me.outage => up = Tiers
  BY ReaderFacts
<1>2. PICK x \in ReaderStates :
        /\ Becomes(r, x) /\ x.pc = pc /\ x.row = me.row /\ x.digests = me.digests
        /\ x.tier = me.tier /\ x.hotSeen = me.hotSeen /\ x.outage = me.outage
        /\ x.released = me.released /\ x.repair = me.repair
  BY MoveToStep, MountedTypes
<1> HIDE DEF me
<1>3. CASE pc = "failed"
  <2>1. ReaderSafe(x, rows, files, up)
    BY <1>1, <1>2, <1>3, StoppedSafe
  <2>2. CopyUpsBacked'
    BY DEF CopyUpsBacked, Mounted
  <2> QED
    BY <1>2, <2>1, <2>2, ReadingMounted
<1>4. CASE pc # "failed"
  <2>1. Knows(x, files[2][d] # NoFile)
    BY <1>1, <1>2, <1>4 DEF Knows, me
  <2>2. ReaderSafe(x, rows, files, up)
    BY <1>1, <1>2, <2>1 DEF ReaderSafe, Referenced
  <2>3. CopyUpsBacked'
    BY DEF CopyUpsBacked, Mounted
  <2> QED
    BY <1>2, <2>2, <2>3, ReadingMounted
<1> QED
  BY <1>3, <1>4

\* A reader that selects another tier, perhaps with a correction.
LEMMA SelectMounted ==
  ASSUME Typed, Mounted, NEW r \in Readers, NEW d \in Digests, d \in readers[r].digests,
         Active(readers[r]), NEW tier \in Tiers, NEW repair \in Repairs, Select(r, tier, repair),
         UNCHANGED <<rows, queue, files, up, txn, drain, copyup>>,
         tier = 2 => files[2][d] # NoFile,
         tier = 1 => readers[r].outage \/ readers[r].hotSeen,
         \/ repair = NoRepair
         \/ repair.hot = "yes" /\ repair.pref = 1 /\ (repair.cold = "yes" => files[2][d] # NoFile)
         \/ repair.hot = "no" /\ repair.cold = "yes" /\ repair.pref = 2 /\ files[2][d] # NoFile
         \/ repair.hot = "no" /\ repair.cold = "keep" /\ repair.pref = 2 /\ ClaimsCold(readers[r].row)
  PROVE  Mounted'
<1> DEFINE me == readers[r]
<1>1. /\ me \in ReaderStates /\ me.digests = {d} /\ Knows(me, files[2][d] # NoFile)
      /\ ~me.released => RowRefs(rows[d]) > 0
      /\ ~me.outage => up = Tiers
  BY ReaderFacts
<1>2. PICK x \in ReaderStates :
        /\ Becomes(r, x) /\ x.pc = "selected" /\ x.row = me.row /\ x.digests = me.digests
        /\ x.tier = tier /\ x.hotSeen = me.hotSeen /\ x.outage = me.outage
        /\ x.released = me.released /\ x.repair = repair
  <2>1. tier \in 0..2
    BY DEF Tiers
  <2> QED
    BY <2>1, SelectStep, MountedTypes
<1>3. GoodRepair(x, files[2][d] # NoFile)
  BY <1>2 DEF GoodRepair, me
<1>4. Knows(x, files[2][d] # NoFile)
  BY <1>1, <1>2, <1>3 DEF Knows, me
<1>5. ReaderSafe(x, rows, files, up)
  BY <1>1, <1>2, <1>4 DEF ReaderSafe, Referenced
<1>6. CopyUpsBacked'
  BY DEF CopyUpsBacked, Mounted
<1> QED
  BY <1>2, <1>5, <1>6, ReadingMounted

LEMMA ReadFileMounted ==
  ASSUME Typed, Mounted, NEW r \in Readers, NEW d \in Digests, ReadPreferred(r, d) \/ ReadSelected(r, d)
  PROVE  Mounted'
<1> DEFINE me == readers[r]
<1>1. /\ d \in me.digests /\ me.pc \in {"preferred", "selected"} /\ Active(me)
      /\ UNCHANGED <<rows, queue, files, up, txn, drain>>
  BY DEF ReadPreferred, ReadSelected, Reading, ReadOnly, Active
<1>2. /\ me \in ReaderStates /\ me.digests = {d} /\ Knows(me, files[2][d] # NoFile)
      /\ me.released \/ files[1][d] # NoFile \/ files[2][d] # NoFile
      /\ ~me.outage => up = Tiers
  BY <1>1, ReaderFacts
<1>3. CASE Present(me.tier, d) /\ Deliver(r, d)
  BY <1>1, <1>3, DeliverMounted
<1>4. CASE ReadPreferred(r, d) /\ Missing(me.tier, d) /\ MoveTo(r, "missing") /\ UNCHANGED copyup
  <2>1. me.pc = "preferred"
    BY <1>4 DEF ReadPreferred, Reading
  <2>2. me.tier = 1 /\ (me.released \/ files[2][d] # NoFile)
    BY <1>2, <1>4, <2>1 DEF Knows, Missing, Tiers
  <2> QED
    BY <1>1, <1>4, <2>2, MoveMounted DEF ReaderPcs
<1>5. CASE me.tier \notin up /\ MoveTo(r, "unavailable") /\ UNCHANGED copyup
  <2>1. me.outage
    BY <1>2, <1>5 DEF Knows
  <2> QED
    BY <1>1, <1>5, <2>1, MoveMounted DEF ReaderPcs
<1>6. CASE MoveTo(r, "failed") /\ UNCHANGED copyup
  BY <1>1, <1>6, MoveMounted DEF ReaderPcs
<1> QED
  BY <1>3, <1>4, <1>5, <1>6 DEF ReadPreferred, ReadSelected

LEMMA DecideUnavailableMounted ==
  ASSUME Typed, Mounted, NEW r \in Readers, NEW d \in Digests, DecideUnavailable(r, d)
  PROVE  Mounted'
<1> DEFINE me == readers[r]
<1> DEFINE alt == Other(me.tier)
<1>1. /\ d \in me.digests /\ me.pc = "unavailable" /\ Active(me)
      /\ UNCHANGED <<rows, queue, files, up, txn, drain, copyup>>
  BY DEF DecideUnavailable, Reading, ReadOnly, Active
<1>2. me.tier \in Tiers /\ me.outage
  BY <1>1, ReaderFacts DEF Knows
<1>3. CASE Present(alt, d) /\ Select(r, alt, NoRepair)
  <2>1. alt \in Tiers /\ (alt = 2 => files[2][d] # NoFile)
    BY <1>2, <1>3 DEF Other, Tiers, Present
  <2> HIDE DEF alt
  <2> QED
    BY <1>1, <1>2, <1>3, <2>1, SelectMounted, RestingTyped
<1>4. CASE MoveTo(r, "failed")
  BY <1>1, <1>4, MoveMounted DEF ReaderPcs
<1> QED
  BY <1>3, <1>4 DEF DecideUnavailable

LEMMA RepairAssigned ==
  ASSUME NEW hot \in {"keep", "yes", "no"}, NEW cold \in {"keep", "yes", "no"}, NEW pref \in 0..2
  PROVE  LET repair == [NoRepair EXCEPT !.hot = hot, !.cold = cold, !.pref = pref]
         IN  repair \in Repairs /\ repair.hot = hot /\ repair.cold = cold /\ repair.pref = pref
BY DEF NoRepair, Repairs

LEMMA DecideMissingMounted ==
  ASSUME Typed, Mounted, NEW r \in Readers, NEW d \in Digests, DecideMissing(r, d)
  PROVE  Mounted'
<1> DEFINE me == readers[r]
<1> DEFINE repair == [NoRepair EXCEPT !.hot = IF me.tier = 1 THEN "no" ELSE "keep",
                                      !.cold = IF me.tier = 2 THEN "no" ELSE "keep",
                                      !.pref = Other(me.tier)]
<1>1. /\ d \in me.digests /\ me.pc = "missing" /\ Active(me)
      /\ UNCHANGED <<rows, queue, files, up, txn, drain, copyup>>
  BY DEF DecideMissing, Reading, ReadOnly, Active
<1>2. /\ me.tier = 1 /\ me.row # NoRow /\ (me.released \/ files[2][d] # NoFile)
      /\ ClaimsCold(me.row) => files[2][d] # NoFile
  BY <1>1, ReaderFacts DEF Knows
<1>3. CASE MoveTo(r, "probe-hot") \/ MoveTo(r, "failed")
  BY <1>1, <1>2, <1>3, MoveMounted DEF ReaderPcs
<1>4. CASE Declares(me.row, 2) /\ Select(r, 2, repair)
  <2>1. repair \in Repairs /\ repair.hot = "no" /\ repair.cold = "keep" /\ repair.pref = 2
    <3> DEFINE hot == IF me.tier = 1 THEN "no" ELSE "keep"
    <3> DEFINE cold == IF me.tier = 2 THEN "no" ELSE "keep"
    <3> DEFINE alt == Other(me.tier)
    <3>1. hot = "no" /\ cold = "keep" /\ alt = 2
      BY <1>2 DEF Other
    <3>2. repair = [NoRepair EXCEPT !.hot = hot, !.cold = cold, !.pref = alt]
      OBVIOUS
    <3> HIDE DEF hot, cold, alt, repair
    <3> QED
      BY <3>1, <3>2, RepairAssigned
  <2>2. ClaimsCold(me.row)
    BY <1>2, <1>4 DEF Declares, ClaimsCold
  <2>3. 2 \in Tiers
    BY DEF Tiers
  <2> HIDE DEF repair
  <2> QED
    BY <1>1, <1>2, <1>4, <2>1, <2>2, <2>3, SelectMounted
<1>5. Other(me.tier) = 2
  BY <1>2 DEF Other
<1> QED
  BY <1>3, <1>4, <1>5 DEF DecideMissing

LEMMA ProbesMounted ==
  ASSUME Typed, Mounted, NEW r \in Readers, NEW d \in Digests, ProbeHot(r, d) \/ ProbeCold(r, d)
  PROVE  Mounted'
<1> DEFINE me == readers[r]
<1>1. /\ d \in me.digests /\ me.pc \in {"probe-hot", "probe-cold"} /\ Active(me)
      /\ UNCHANGED <<rows, queue, files, up, txn, drain, copyup>>
  BY DEF ProbeHot, ProbeCold, Reading, ReadOnly, Active
<1>2. /\ me \in ReaderStates /\ me.digests = {d} /\ Knows(me, files[2][d] # NoFile)
      /\ ~me.released => RowRefs(rows[d]) > 0
      /\ ~me.outage => up = Tiers
      /\ readers \in [Readers -> ReaderStates]
  BY <1>1, ReaderFacts
<1>3. me.released \/ files[2][d] # NoFile
  BY <1>1, <1>2 DEF Knows
<1>4. CASE ProbeHot(r, d)
  <2> DEFINE x == [readers[r] EXCEPT !.pc = "probe-cold", !.hotSeen = Present(1, d)]
  <2>1. x \in ReaderStates
    <3>1. "probe-cold" \in ReaderPcs /\ Present(1, d) \in BOOLEAN
      BY DEF ReaderPcs, Present
    <3>2. PICK x1 \in ReaderStates : x1 = [readers[r] EXCEPT !.pc = "probe-cold"]
      BY <1>2, <3>1, ReaderAssigned
    <3>3. PICK x2 \in ReaderStates : x2 = [x1 EXCEPT !.hotSeen = Present(1, d)]
      BY <3>1, ReaderAssigned
    <3> QED
      BY <3>2, <3>3, Zenon
  <2>2. /\ x.pc = "probe-cold" /\ x.row = me.row /\ x.digests = me.digests
        /\ x.tier = me.tier /\ x.outage = me.outage /\ x.released = me.released
        /\ x.repair = me.repair
    BY <1>2 DEF ReaderStates
  <2>3. readers' = [readers EXCEPT ![r] = x]
    BY <1>4 DEF ProbeHot
  <2> HIDE DEF x
  <2>4. Becomes(r, x)
    BY <1>2, <2>1, <2>3, ReaderReplaced
  <2>5. Knows(x, files[2][d] # NoFile)
    BY <1>2, <1>3, <2>2 DEF Knows
  <2>6. ReaderSafe(x, rows, files, up)
    BY <1>2, <2>2, <2>5, <1>1 DEF ReaderSafe, Referenced, Active
  <2>7. CopyUpsBacked'
    BY <1>1 DEF CopyUpsBacked, Mounted
  <2> QED
    BY <1>1, <2>1, <2>4, <2>6, <2>7, ReadingMounted
<1>5. CASE ProbeCold(r, d)
  <2> DEFINE hot == me.hotSeen
  <2> DEFINE repair == [hot |-> IF hot THEN "yes" ELSE "no",
                        cold |-> IF 2 \notin up THEN "keep"
                                 ELSE IF Present(2, d) THEN "yes" ELSE "no",
                        pref |-> IF hot THEN 1 ELSE 2]
  <2>1. repair \in Repairs /\ repair.pref \in Tiers
    BY DEF Repairs, Tiers
  <2>2. CASE MoveTo(r, "failed")
    BY <1>1, <2>2, MoveMounted DEF ReaderPcs
  <2>3. CASE (hot \/ Present(2, d)) /\ Select(r, repair.pref, repair)
    <3>1. repair.pref = 1 => me.hotSeen
      OBVIOUS
    <3>2. \/ repair.hot = "yes" /\ repair.pref = 1 /\ (repair.cold = "yes" => files[2][d] # NoFile)
          \/ repair.hot = "no" /\ repair.cold = "yes" /\ repair.pref = 2 /\ files[2][d] # NoFile
      BY <2>3 DEF Present
    <3>3. repair.pref = 2 => files[2][d] # NoFile
      BY <2>3 DEF Present
    <3> HIDE DEF repair
    <3> QED
      BY <1>1, <2>1, <2>3, <3>1, <3>2, <3>3, SelectMounted
  <2> QED
    BY <1>5, <2>2, <2>3 DEF ProbeCold
<1> QED
  BY <1>4, <1>5

\* What a correction makes of the row of its block.  The CHECK does not refuse it, unless
\* the row has ceased to claim the cold copy it claimed when it was read.
LEMMA RepairFits ==
  ASSUME Typed, Mounted, NEW r \in Readers, NEW d \in readers[r].digests,
         readers[r].pc = "repair", rows[d] # NoRow
  PROVE  LET new == Repaired(rows[d], readers[r].repair)
         IN  /\ new \in Row /\ new # NoRow /\ RowRefs(new) = RowRefs(rows[d])
             /\ (readers[r].row.cold => rows[d].cold) => CheckConstraint(new)
             /\ CheckConstraint(new) => TieredRow(new)
             /\ ClaimsCold(new) => files[2][d] # NoFile
<1> DEFINE me == readers[r]
<1> DEFINE new == Repaired(rows[d], me.repair)
<1>1. d \in Digests
  BY MountedTypes DEF ReaderStates
<1>2. /\ me \in ReaderStates /\ Knows(me, files[2][d] # NoFile)
      /\ ClaimsCold(rows[d]) => files[2][d] # NoFile
  BY <1>1, ReaderFacts
<1>3. rows[d] \in Row /\ TieredRow(rows[d]) /\ me.repair \in Repairs
  BY <1>1, <1>2, RowsTyped DEF MaybeRow, ReaderStates
<1>4. /\ new \in Row /\ new # NoRow /\ new.kind = "tiered"
      /\ CheckConstraint(new) => TieredRow(new)
      /\ RowRefs(new) = RowRefs(rows[d])
      /\ new.hot = (IF me.repair.hot = "keep" THEN rows[d].hot ELSE me.repair.hot = "yes")
      /\ new.cold = (IF me.repair.cold = "keep" THEN rows[d].cold ELSE me.repair.cold = "yes")
      /\ new.pref = (IF me.repair.pref = 0 THEN rows[d].pref ELSE me.repair.pref)
  BY <1>3, RepairedRow
<1>5. GoodRepair(me, files[2][d] # NoFile)
  BY <1>2 DEF Knows
<1>6. /\ rows[d].pref \in Tiers /\ (rows[d].hot \/ rows[d].cold)
      /\ rows[d].hot \in BOOLEAN /\ rows[d].cold \in BOOLEAN
  BY <1>3 DEF TieredRow, SoundRow, CheckConstraint, Row
<1>7. (ClaimsCold(rows[d]) <=> rows[d].cold) /\ (ClaimsCold(me.row) => me.row.cold)
  BY DEF ClaimsCold
<1> HIDE DEF new, me
<1>8. /\ new.pref \in Tiers
      /\ (me.row.cold => rows[d].cold) => new.hot \/ new.cold
      /\ new.cold => files[2][d] # NoFile
  <2>1. CASE me.repair = NoRepair
    <3>1. new.hot = rows[d].hot /\ new.cold = rows[d].cold /\ new.pref = rows[d].pref
      BY <1>4, <2>1 DEF NoRepair
    <3> QED
      BY <1>2, <1>6, <1>7, <3>1
  <2>2. CASE me.repair.hot = "yes" /\ me.repair.pref = 1 /\ (me.repair.cold = "yes" => files[2][d] # NoFile)
    <3>1. new.hot
      BY <1>4, <2>2
    <3>2. new.pref = 1
      BY <1>4, <2>2
    <3>3. new.cold => rows[d].cold \/ me.repair.cold = "yes"
      BY <1>4, <1>6
    <3> QED
      BY <1>2, <1>7, <2>2, <3>1, <3>2, <3>3 DEF Tiers
  <2>3. CASE me.repair.hot = "no" /\ me.repair.cold = "yes" /\ me.repair.pref = 2 /\ files[2][d] # NoFile
    <3>1. new.cold
      BY <1>4, <2>3
    <3>2. new.pref = 2
      BY <1>4, <2>3
    <3> QED
      BY <2>3, <3>1, <3>2 DEF Tiers
  <2>4. CASE me.repair.hot = "no" /\ me.repair.cold = "keep" /\ me.repair.pref = 2 /\ ClaimsCold(me.row)
    BY <1>2, <1>4, <1>7, <2>4 DEF Tiers
  <2> QED
    BY <1>5, <2>1, <2>2, <2>3, <2>4 DEF GoodRepair
<1> QED
  BY <1>4, <1>8 DEF CheckConstraint, ClaimsCold, new, me

LEMMA RepairRowMounted ==
  ASSUME Typed, Mounted, NEW r \in Readers, NEW d \in Digests, RepairRow(r, d)
  PROVE  Mounted'
<1> DEFINE new == Repaired(rows[d], readers[r].repair)
<1>1. /\ d \in readers[r].digests /\ readers[r].pc = "repair" /\ txn.kind = "none"
      /\ readers' = [readers EXCEPT ![r] = Resting]
      /\ UNCHANGED <<queue, files, up, txn, drain, copyup>>
  BY DEF RepairRow, Reading
<1>2. /\ Becomes(r, Resting) /\ Resting \in ReaderStates
      /\ \A o \in Readers : readers'[o] = readers[o] \/ readers'[o] = Resting
  BY <1>1, RestingTyped, ReaderReplaced, MountedTypes
<1>3. CopyUpsBacked'
  BY <1>1 DEF CopyUpsBacked, Mounted
<1>4. CASE ~(rows[d] # NoRow /\ CheckConstraint(new))
  <2>1. rows' = rows
    BY <1>4 DEF RepairRow
  <2>2. ReaderSafe(Resting, rows, files, up)
    BY RestingSafe
  <2> QED
    BY <1>1, <1>2, <1>3, <2>1, <2>2, ReadingMounted
<1>5. CASE rows[d] # NoRow /\ CheckConstraint(new)
  <2>1. /\ new \in Row /\ new # NoRow /\ RowRefs(new) = RowRefs(rows[d])
        /\ TieredRow(new) /\ (ClaimsCold(new) => files[2][d] # NoFile)
    BY <1>1, <1>5, RepairFits
  <2>2. rows' = [rows EXCEPT ![d] = new]
    BY <1>5 DEF RepairRow
  <2> HIDE DEF new
  <2>3. LET table == [rows EXCEPT ![d] = new]
        IN  table \in Table /\ table[d] = new /\ \A x \in Digests \ {d} : table[x] = rows[x]
    <3>1. rows \in Table /\ TieredRows(rows) /\ new \in MaybeRow
      BY <2>1, MountedTypes DEF Typed, MaybeRow
    <3> QED
      BY <2>1, <3>1, TableUpdate
  <2>4. rows' \in Table /\ rows'[d] = new /\ SameElsewhere(rows, rows', d)
    BY <2>2, <2>3 DEF SameElsewhere
  <2>5. RowSafe(new, d, files)
    BY <1>5, <2>1 DEF RowSafe, Mounted, TableSafe, HasPayload
  <2> QED
    BY <1>1, <1>2, <1>3, <1>5, <2>1, <2>4, <2>5, RowMounted
<1> QED
  BY <1>4, <1>5

LEMMA ReturnErrorMounted == ASSUME Typed, Mounted, NEW r \in Readers, ReturnError(r) PROVE Mounted'
<1>1. Becomes(r, Resting) /\ Resting \in ReaderStates
  BY RestingTyped, ReaderReplaced, MountedTypes DEF ReturnError
<1>2. ReaderSafe(Resting, rows, files, up)
  BY RestingSafe
<1>3. CopyUpsBacked'
  BY DEF CopyUpsBacked, Mounted, ReturnError, ReadOnly
<1> QED
  BY <1>1, <1>2, <1>3, ReadingMounted DEF ReturnError, ReadOnly

LEMMA OutageMounted ==
  ASSUME MountedOnly, Typed, Mounted, NEW t \in Tiers, Outage(t)
  PROVE  Mounted'
<1>1. txn.kind # "demote" /\ UNCHANGED <<rows, queue, files, txn, drain, copyup>>
  BY DEF Outage, MountedOnly
<1>2. ASSUME NEW r \in Readers
      PROVE  ReaderSafe(readers'[r], rows, files, up')
  <2> DEFINE me == readers[r]
  <2> DEFINE x == [me EXCEPT !.outage = InRead(r)]
  <2>1. me \in ReaderStates /\ ReaderSafe(me, rows, files, up)
    BY MountedTypes DEF Mounted
  <2>2. /\ x.pc = me.pc /\ x.row = me.row /\ x.digests = me.digests /\ x.tier = me.tier
        /\ x.hotSeen = me.hotSeen /\ x.released = me.released /\ x.repair = me.repair
        /\ x.outage = Active(me)
    BY <2>1 DEF ReaderStates, Active, InRead
  <2>3. readers'[r] = x
    BY DEF Outage
  <2> HIDE DEF x, me
  <2>4. ASSUME NEW d \in me.digests PROVE Knows(x, files[2][d] # NoFile)
    <3>1. Knows(me, files[2][d] # NoFile)
      BY <2>1 DEF ReaderSafe
    <3>2. GoodRepair(me, files[2][d] # NoFile) => GoodRepair(x, files[2][d] # NoFile)
      BY <2>2 DEF GoodRepair
    <3> QED
      BY <2>2, <3>1, <3>2 DEF Knows, Active
  <2> QED
    BY <2>1, <2>2, <2>3, <2>4 DEF ReaderSafe, Referenced, Active
<1>3. DemotionSafe' /\ CopyUpsBacked'
  BY <1>1 DEF DemotionSafe, CopyUpsBacked, Mounted
<1> QED
  BY <1>1, <1>2, <1>3 DEF Mounted

LEMMA InitMounted == Init => Mounted
<1> SUFFICES ASSUME Init PROVE Mounted
  OBVIOUS
<1>1. txn.kind = "none" /\ drain.todo = {} /\ queue = {} /\ \A d \in Digests : rows[d] = NoRow
  BY EmptyTableTyped DEF Init, NoDrain, EmptyTable
<1>2. TableSafe(rows, queue, drain.todo, files)
  BY <1>1 DEF TableSafe, ColdBacked, HasPayload, QueueSafe, ClaimsCold
<1>3. DemotionSafe /\ CopyUpsBacked
  BY <1>1 DEF DemotionSafe, CopyUpsBacked, Init
<1>4. \A r \in Readers : ReaderSafe(readers[r], rows, files, up)
  BY RestingSafe DEF Init
<1> QED
  BY <1>1, <1>2, <1>3, <1>4 DEF Mounted

LEMMA NextMounted == MountedOnly /\ Typed /\ Mounted /\ [Next]_vars => Mounted'
<1> SUFFICES ASSUME MountedOnly, Typed, Mounted, [Next]_vars PROVE Mounted'
  OBVIOUS
<1>1. CASE Begin("write", "begin", {}) \/ Begin("demote", "select", {})
  BY <1>1, BeginMounted
<1>2. ~BeginCleanup
  BY DEF BeginCleanup, MountedOnly
<1>3. CASE Commit \/ Rollback \/ Crash
  BY <1>3, CommitMounted, RollbackMounted, CrashMounted
<1>4. CASE \E d \in Digests, e \in Encodings : Store(d, e)
  BY <1>4, StoreMounted
<1>5. CASE \E d \in Digests : Drop(d)
  BY <1>5, DropMounted
<1>6. CASE \E d \in Digests : SelectForDemotion(d) \/ CopyForDemotion(d) \/ UnlinkForDemotion(d)
  BY <1>6, SelectForDemotionMounted, CopyForDemotionMounted, UnlinkForDemotionMounted
<1>7. CASE ReadQueue \/ RemoveQueued \/ \E entry \in drain.todo : UnlinkQueued(entry)
  BY <1>7, DrainMounted
<1>8. ~NextPhase /\ \A d \in Digests : ~(CleanQueued(d) \/ CleanPromoted(d) \/ CleanGarbage(d))
  BY DEF NextPhase, CleanQueued, CleanPromoted, CleanGarbage, Cleaning, Mounted
<1>9. CASE \E d \in Digests : CopyUpFile(d) \/ CopyUpProbe(d) \/ CopyUpCommit(d)
  BY <1>9, CopyUpMounted
<1>10. ASSUME NEW r \in Readers, NEW d \in Digests,
              \/ Plan(r, d) \/ ReadPreferred(r, d) \/ ReadSelected(r, d)
              \/ DecideUnavailable(r, d) \/ DecideMissing(r, d)
              \/ ProbeHot(r, d) \/ ProbeCold(r, d) \/ RepairRow(r, d)
       PROVE  Mounted'
  BY <1>10, PlanMounted, ReadFileMounted, DecideUnavailableMounted, DecideMissingMounted,
    ProbesMounted, RepairRowMounted
<1>11. ASSUME NEW r \in Readers, ReturnError(r) PROVE Mounted'
  BY <1>11, ReturnErrorMounted
<1>12. CASE \E t \in Tiers : Outage(t)
  BY <1>12, OutageMounted
<1>13. CASE UNCHANGED vars
  <2>1. \A r \in Readers : ReaderSafe(readers'[r], rows', files', up')
    BY <1>13 DEF vars, Mounted
  <2>2. DemotionSafe' /\ CopyUpsBacked'
    BY <1>13 DEF vars, Mounted, DemotionSafe, CopyUpsBacked
  <2> QED
    BY <1>13, <2>1, <2>2 DEF vars, Mounted
<1> QED
  BY <1>1, <1>2, <1>3, <1>4, <1>5, <1>6, <1>7, <1>8, <1>9, <1>10, <1>11, <1>12, <1>13 DEF Next

\* Both are inductive in a mounted process.
LEMMA MountedInvariant == ASSUME MountedOnly PROVE Spec => [](Typed /\ Mounted)
<1>1. Init => Typed /\ Mounted
  BY InitTyped, InitMounted
<1>2. Typed /\ Mounted /\ [Next]_vars => Typed' /\ Mounted'
  BY NextTyped, NextMounted
<1> QED
  BY <1>1, <1>2, PTL DEF Spec

\* As long as no cleanup runs, no tier goes within the demotion of one block and no block
\* is stored again while its deletion is queued (MountedOnly), a row that claims a cold copy
\* has one, over all crashes, rollbacks and other outages, truncations in the middle of a
\* read, and late corrections (demote_cold_blocks, _copy_up_cold_block, record_block_presence).
THEOREM TieringColdIndexTruthful == ASSUME MountedOnly PROVE Spec => []ColdIndexTruthful
<1>1. Mounted => ColdIndexTruthful
  BY DEF Mounted, TableSafe, ColdBacked, ClaimsCold, ColdIndexTruthful
<1> QED
  BY <1>1, MountedInvariant, PTL

\* Under the same hypothesis, and as long as a content is stored in one encoding only
\* (OneEncoding), the payload of a referenced block is never lost: a demotion, a drained
\* deletion or a crash between two of their steps leaves one copy, in the encoding the row
\* states (demote_cold_blocks, drain_pending_deletions, apply_block_refcount_deltas).
THEOREM TieringPayloadSurvives ==
  ASSUME MountedOnly, OneEncoding PROVE Spec => []ReferencedPayloadSurvives
<1>1. Typed /\ Mounted => ReferencedPayloadSurvives
  <2> SUFFICES ASSUME Typed, Mounted, NEW d \in Digests, RowRefs(rows[d]) > 0
               PROVE  \E t \in Tiers : files[t][d] = rows[d].enc
    BY DEF ReferencedPayloadSurvives
  <2>1. rows[d] # NoRow /\ rows[d].enc \in Encodings
    BY RowsTyped DEF RowRefs, MaybeRow, Row
  <2>2. files[1][d] # NoFile \/ files[2][d] # NoFile
    BY <2>1 DEF Mounted, TableSafe, HasPayload
  <2>3. files[1][d] = rows[d].enc \/ files[2][d] = rows[d].enc
    BY <2>1, <2>2, RowsTyped DEF OneEncoding
  <2> QED
    BY <2>3 DEF Tiers
<1> QED
  BY <1>1, MountedInvariant, PTL

(***************************************************************************)
(* Late corrections.                                                       *)
(***************************************************************************)
\* RepairsFit, for rows that still claim the cold copy they claimed when they were read.
RepairsFitUnlessTakenBack ==
  \A r \in Readers : \A d \in readers[r].digests :
    /\ readers[r].pc = "repair" /\ txn.kind = "none" /\ rows[d] # NoRow
    /\ readers[r].row.cold => rows[d].cold
    => CheckConstraint(Repaired(rows[d], readers[r].repair))

\* Under the same hypothesis, with any number of readers, the CHECK refuses no correction of
\* a row that a read has found, however late it is written, unless the row has ceased to
\* claim the cold copy it claimed when it was read (record_block_presence after
\* _probe_all_tiers_for_repair).
THEOREM TieringRepairsFitUnlessTakenBack ==
  ASSUME MountedOnly PROVE Spec => []RepairsFitUnlessTakenBack
<1>1. Typed /\ Mounted => RepairsFitUnlessTakenBack
  BY RepairFits DEF RepairsFitUnlessTakenBack
<1> QED
  BY <1>1, MountedInvariant, PTL

\* No transaction takes a cold claim back, and what a reader's row claims, the table claims.
KeepsClaims(table, new) == \A d \in Digests : ClaimsCold(table[d]) => ClaimsCold(new[d])
ClaimsStand ==
  /\ txn.kind # "none" => KeepsClaims(rows, txn.rows)
  /\ \A r \in Readers : \A d \in readers[r].digests :
       ClaimsCold(readers[r].row) => ClaimsCold(rows[d])

\* The row a reader remembers is the one it has read.
LEMMA ReaderRowKept ==
  ASSUME Typed, Mounted, MountedOnly, [Next]_vars, NEW r \in Readers
  PROVE  \/ readers'[r].digests = {}
         \/ readers'[r].row = readers[r].row /\ readers'[r].digests = readers[r].digests
         \/ \E d \in Digests : readers'[r].row = rows[d] /\ readers'[r].digests = {d} /\ rows' = rows
<1>1. readers \in [Readers -> ReaderStates] /\ readers[r] \in ReaderStates
  BY MountedTypes
<1>2. CASE Commit
  BY <1>2, CommitReaders
<1>3. CASE Crash
  BY <1>3, RestingTyped DEF Crash
<1>4. CASE \E t \in Tiers : Outage(t)
  <2>1. readers'[r] = [readers[r] EXCEPT !.outage = InRead(r)]
    BY <1>4 DEF Outage
  <2> QED
    BY <1>1, <2>1 DEF ReaderStates
<1>5. ASSUME NEW o \in Readers, NEW d \in Digests, Plan(o, d)
      PROVE  \/ readers'[r] = readers[r]
             \/ readers'[r].row = rows[d] /\ readers'[r].digests = {d} /\ rows' = rows
  <2>1. rows' = rows
    BY <1>5 DEF Plan, ReadOnly
  <2>2. PICK x \in ReaderStates : Becomes(o, x) /\ x.row = rows[d] /\ x.digests = {d}
    BY <1>5, PlanStep
  <2> QED
    BY <2>1, <2>2 DEF Becomes
<1>6. ASSUME NEW o \in Readers, NEW d \in Digests, RepairRow(o, d) \/ ReturnError(o)
      PROVE  readers'[r] = readers[r] \/ readers'[r].digests = {}
  BY <1>1, <1>6, RestingTyped DEF RepairRow, ReturnError
<1>7. ASSUME NEW o \in Readers, NEW d \in Digests,
             \/ ReadPreferred(o, d) \/ ReadSelected(o, d) \/ DecideUnavailable(o, d)
             \/ DecideMissing(o, d) \/ ProbeHot(o, d) \/ ProbeCold(o, d)
      PROVE  \/ readers'[r].digests = {}
             \/ readers'[r].row = readers[r].row /\ readers'[r].digests = readers[r].digests
  <2>1. ASSUME NEW pc, MoveTo(o, pc)
        PROVE  readers'[r].row = readers[r].row /\ readers'[r].digests = readers[r].digests
    BY <1>1, <2>1 DEF MoveTo, ReaderStates
  <2>2. ASSUME NEW tier, NEW repair, Select(o, tier, repair)
        PROVE  readers'[r].row = readers[r].row /\ readers'[r].digests = readers[r].digests
    BY <1>1, <2>2 DEF Select, ReaderStates
  <2>3. CASE Deliver(o, d)
    BY <2>3, DeliverStep, RestingTyped DEF Becomes
  <2>4. CASE ProbeHot(o, d)
    BY <1>1, <2>4 DEF ProbeHot, ReaderStates
  <2> QED
    BY <1>7, <2>1, <2>2, <2>3, <2>4 DEF ReadPreferred, ReadSelected, DecideUnavailable, DecideMissing, ProbeCold
<1>8. CASE UNCHANGED readers
  BY <1>8
<1>9. ASSUME NEW d \in Digests,
             \/ \E e \in Encodings : Store(d, e)
             \/ Drop(d) \/ SelectForDemotion(d) \/ CopyForDemotion(d) \/ UnlinkForDemotion(d)
             \/ CleanQueued(d) \/ CleanPromoted(d) \/ CleanGarbage(d)
             \/ CopyUpFile(d) \/ CopyUpProbe(d) \/ CopyUpCommit(d)
      PROVE  UNCHANGED readers
  BY <1>9 DEF Store, Drop, SelectForDemotion, CopyForDemotion, UnlinkForDemotion, CleanQueued,
    CleanPromoted, CleanGarbage, UnlinkCold, CopyUpFile, CopyUpProbe, CopyUpCommit
<1>10. ASSUME \/ Begin("write", "begin", {}) \/ Begin("demote", "select", {}) \/ BeginCleanup
              \/ Rollback \/ ReadQueue \/ RemoveQueued \/ NextPhase \/ UNCHANGED vars
              \/ \E entry \in drain.todo : UnlinkQueued(entry)
       PROVE  UNCHANGED readers
  BY <1>10 DEF Begin, BeginCleanup, Rollback, ReadQueue, RemoveQueued, NextPhase, UnlinkQueued, vars
<1>11. ASSUME NEW o \in Readers, ReturnError(o)
       PROVE  readers'[r] = readers[r] \/ readers'[r].digests = {}
  BY <1>1, <1>11, RestingTyped DEF ReturnError
<1> QED
  BY <1>2, <1>3, <1>4, <1>5, <1>6, <1>7, <1>8, <1>9, <1>10, <1>11 DEF Next

\* One row of the uncommitted table changes, and keeps its claim.
LEMMA ClaimKeptInTxn ==
  ASSUME Typed, KeepsClaims(rows, txn.rows), NEW d \in Digests, NEW row,
         ClaimsCold(txn.rows[d]) => ClaimsCold(row),
         txn'.rows = [txn.rows EXCEPT ![d] = row], UNCHANGED rows
  PROVE  KeepsClaims(rows', txn'.rows)
<1>1. txn.rows \in Table
  BY MountedTypes
<1> QED
  BY <1>1 DEF KeepsClaims, Table

\* Only a correction takes a cold claim from the table.
LEMMA ClaimsKept ==
  ASSUME Typed, Mounted, MountedOnly, txn.kind # "none" => KeepsClaims(rows, txn.rows), [Next]_vars
  PROVE  /\ txn'.kind # "none" => KeepsClaims(rows', txn'.rows)
         /\ KeepsClaims(rows, rows') \/ \E r \in Readers, d \in Digests : RepairRow(r, d)
<1>1. /\ rows \in Table /\ txn \in TxnStates /\ txn.rows \in Table
  BY MountedTypes
<1>2. Idle.kind = "none" /\ KeepsClaims(rows, rows)
  BY DEF Idle, KeepsClaims
<1>3. CASE UNCHANGED <<rows, txn>>
  BY <1>2, <1>3
<1>4. ASSUME NEW kind, NEW step, Begin(kind, step, {})
      PROVE  rows' = rows /\ txn'.rows = rows'
  BY <1>4 DEF Begin
<1>5. CASE Commit
  BY <1>2, <1>5 DEF Commit, CommitReady
<1>6. CASE Rollback
  BY <1>2, <1>6 DEF Rollback
<1>7. CASE Crash
  <2>1. rows' = rows /\ (txn' = txn \/ txn' = Idle)
    BY <1>7 DEF Crash
  <2> QED
    BY <1>2, <2>1
<1>8. ASSUME NEW d \in Digests, NEW e \in Encodings, Store(d, e)
      PROVE  rows' = rows /\ (txn'.kind # "none" => KeepsClaims(rows', txn'.rows))
  <2> DEFINE new == AppliedDelta(EnsuredRow(txn.rows[d], "tiered", e), 1)
  <2>1. txn.kind = "write" /\ txn'.rows = [txn.rows EXCEPT ![d] = new] /\ UNCHANGED rows
    BY <1>1, <1>8 DEF Store, StepTxn, Writing, TxnStates
  <2>2. ClaimsCold(txn.rows[d]) => ClaimsCold(new)
    BY RowsTyped, StoredRow
  <2> HIDE DEF new
  <2> QED
    BY <2>1, <2>2, ClaimKeptInTxn
<1>9. ASSUME NEW d \in Digests, Drop(d)
      PROVE  rows' = rows /\ (txn'.kind # "none" => KeepsClaims(rows', txn'.rows))
  <2> DEFINE new == AppliedDelta(txn.rows[d], -1)
  <2>1. /\ txn.kind = "write" /\ txn.step \in {"begin", "stored"} /\ RowRefs(rows[d]) > 0
        /\ txn'.rows = [txn.rows EXCEPT ![d] = new] /\ UNCHANGED rows
    BY <1>1, <1>9 DEF Drop, Writing, TxnStates
  <2>2. RowRefs(txn.rows[d]) > 0
    BY <2>1, RowsTyped DEF Typed, TxnShape
  <2>3. ClaimsCold(txn.rows[d]) => ClaimsCold(new)
    BY <2>2, RowsTyped, DroppedRow
  <2> HIDE DEF new
  <2> QED
    BY <2>1, <2>3, ClaimKeptInTxn
<1>10. ASSUME NEW d \in Digests, SelectForDemotion(d) \/ CopyForDemotion(d)
       PROVE  rows' = rows /\ txn'.rows = txn.rows /\ txn.kind = "demote"
  BY <1>1, <1>10 DEF SelectForDemotion, CopyForDemotion, StepTxn, Demoting, TxnStates
<1>11. ASSUME NEW d \in Digests, UnlinkForDemotion(d)
       PROVE  rows' = rows /\ (txn'.kind # "none" => KeepsClaims(rows', txn'.rows))
  <2>1. /\ txn.kind = "demote" /\ txn.step = "unlink" /\ d \in txn.targets /\ UNCHANGED rows
        /\ \/ txn'.rows = [txn.rows EXCEPT ![d] = Demoted(txn.rows[d])]
           \/ txn'.rows = txn.rows
    BY <1>1, <1>11 DEF UnlinkForDemotion, StepTxn, Demoting, TxnStates
  <2>2. txn.rows[d] # NoRow
    BY <2>1 DEF Typed, TxnShape
  <2>3. ClaimsCold(Demoted(txn.rows[d]))
    BY <2>2, RowsTyped, MovedRow DEF MaybeRow
  <2> QED
    BY <2>1, <2>3, ClaimKeptInTxn
<1>12. ASSUME NEW d \in Digests, CopyUpCommit(d)
       PROVE  txn'.kind = "none" /\ KeepsClaims(rows, rows')
  <2>1. txn.kind = "none" /\ UNCHANGED txn
        /\ rows' = [rows EXCEPT ![d] = IF rows[d] = NoRow THEN NoRow ELSE PromotedByCopyUp(rows[d])]
    BY <1>12 DEF CopyUpCommit
  <2>2. rows[d] # NoRow => ClaimsCold(PromotedByCopyUp(rows[d]))
    BY RowsTyped, MovedRow DEF MaybeRow
  <2> QED
    BY <1>1, <2>1, <2>2 DEF KeepsClaims, ClaimsCold, Table
<1>13. ASSUME NEW r \in Readers, NEW d \in Digests, RepairRow(r, d) PROVE txn'.kind = "none"
  BY <1>13 DEF RepairRow
<1>14. ASSUME NEW r \in Readers, NEW d \in Digests,
              \/ Plan(r, d) \/ ReadPreferred(r, d) \/ ReadSelected(r, d)
              \/ DecideUnavailable(r, d) \/ DecideMissing(r, d)
              \/ ProbeHot(r, d) \/ ProbeCold(r, d)
       PROVE  UNCHANGED <<rows, txn>>
  BY <1>14 DEF Plan, ReadPreferred, ReadSelected, DecideUnavailable, DecideMissing, ProbeHot,
    ProbeCold, ReadOnly
<1>15. ASSUME NEW d \in Digests, CopyUpFile(d) \/ CopyUpProbe(d) PROVE UNCHANGED <<rows, txn>>
  BY <1>15 DEF CopyUpFile, CopyUpProbe
<1>16. ASSUME \/ ReadQueue \/ RemoveQueued \/ UNCHANGED vars
              \/ \E entry \in drain.todo : UnlinkQueued(entry)
              \/ \E r \in Readers : ReturnError(r)
              \/ \E t \in Tiers : Outage(t)
       PROVE  UNCHANGED <<rows, txn>>
  BY <1>16 DEF ReadQueue, RemoveQueued, UnlinkQueued, ReturnError, ReadOnly, Outage, vars
<1>17. ~BeginCleanup /\ ~NextPhase
       /\ \A d \in Digests : ~(CleanQueued(d) \/ CleanPromoted(d) \/ CleanGarbage(d))
  BY DEF BeginCleanup, MountedOnly, NextPhase, CleanQueued, CleanPromoted, CleanGarbage, Cleaning,
    Mounted
<1> QED
  BY <1>2, <1>3, <1>4, <1>5, <1>6, <1>7, <1>8, <1>9, <1>10, <1>11, <1>12, <1>13, <1>14, <1>15,
    <1>16, <1>17 DEF Next

\* Under the same hypothesis, and with one reader, the CHECK refuses no correction a read has
\* computed, however late it is written: nobody else takes back the cold copy it relies on
\* (record_block_presence after _probe_all_tiers_for_repair).
THEOREM TieringRepairsFit ==
  ASSUME MountedOnly, \A r, s \in Readers : r = s PROVE Spec => []RepairsFit
<1>1. Init => ClaimsStand
  BY DEF Init, ClaimsStand, Idle, Resting
<1>2. Typed /\ Mounted /\ ClaimsStand /\ [Next]_vars => ClaimsStand'
  <2> SUFFICES ASSUME Typed, Mounted, ClaimsStand, [Next]_vars PROVE ClaimsStand'
    OBVIOUS
  <2>1. /\ txn'.kind # "none" => KeepsClaims(rows', txn'.rows)
        /\ KeepsClaims(rows, rows') \/ \E r \in Readers, d \in Digests : RepairRow(r, d)
    BY ClaimsKept DEF ClaimsStand
  <2>2. ASSUME NEW r \in Readers, NEW d \in readers'[r].digests, ClaimsCold(readers'[r].row)
        PROVE  ClaimsCold(rows'[d])
    <3>1. readers \in [Readers -> ReaderStates]
      BY MountedTypes
    <3>2. readers[r].digests \in SUBSET Digests
      BY <3>1 DEF ReaderStates
    <3>3. CASE KeepsClaims(rows, rows')
      BY <2>2, <3>2, <3>3, ReaderRowKept DEF ClaimsStand, KeepsClaims
    <3>4. ASSUME NEW s \in Readers, NEW x \in Digests, RepairRow(s, x) PROVE FALSE
      <4>1. readers'[r] = Resting
        BY <3>1, <3>4 DEF RepairRow
      <4> QED
        BY <2>2, <4>1, RestingTyped
    <3> QED
      BY <2>1, <3>3, <3>4
  <2> QED
    BY <2>1, <2>2 DEF ClaimsStand
<1>3. Typed /\ Mounted /\ ClaimsStand => RepairsFit
  <2> SUFFICES ASSUME Typed, Mounted, ClaimsStand, NEW r \in Readers, NEW d \in readers[r].digests,
                      readers[r].pc = "repair", rows[d] # NoRow
               PROVE  CheckConstraint(Repaired(rows[d], readers[r].repair))
    BY DEF RepairsFit
  <2>1. d \in Digests /\ readers[r] \in ReaderStates
    BY MountedTypes DEF ReaderStates
  <2>2. readers[r].row # NoRow
    BY <2>1, ReaderFacts DEF Knows
  <2>3. readers[r].row.cold => rows[d].cold
    BY <2>2 DEF ClaimsStand, ClaimsCold
  <2> QED
    BY <2>3, RepairFits
<1> QED
  BY <1>1, <1>2, <1>3, MountedInvariant, PTL DEF Spec

\* A reader fails in one of these steps.
LEMMA FailingStep ==
  ASSUME Typed, Mounted, Next, NEW r \in Readers, readers[r].pc # "failed", readers'[r].pc = "failed"
  PROVE  \E d \in Digests :
           \/ ReadPreferred(r, d) \/ ReadSelected(r, d) \/ DecideUnavailable(r, d)
           \/ DecideMissing(r, d) \/ ProbeCold(r, d)
<1>1. readers \in [Readers -> ReaderStates]
  BY MountedTypes
<1>2. readers' # readers
  OBVIOUS
<1>3. CASE Crash
  BY <1>3, RestingTyped DEF Crash
<1>4. CASE \E t \in Tiers : Outage(t)
  <2>1. readers'[r] = [readers[r] EXCEPT !.outage = InRead(r)]
    BY <1>4 DEF Outage
  <2> QED
    BY <1>1, <2>1 DEF ReaderStates
<1>5. ASSUME NEW o \in Readers, NEW d \in Digests, Plan(o, d) \/ ProbeHot(o, d) \/ RepairRow(o, d) \/ ReturnError(o)
      PROVE  FALSE
  <2>1. CASE Plan(o, d)
    BY <1>1, <2>1, PlanStep DEF Becomes
  <2>2. CASE RepairRow(o, d) \/ ReturnError(o)
    BY <1>1, <2>2, RestingTyped DEF RepairRow, ReturnError
  <2>3. CASE ProbeHot(o, d)
    BY <1>1, <2>3 DEF ProbeHot, ReaderStates
  <2> QED
    BY <1>5, <2>1, <2>2, <2>3
<1>6. ASSUME NEW o \in Readers, ReturnError(o) PROVE FALSE
  BY <1>1, <1>6, RestingTyped DEF ReturnError
<1>7. ASSUME NEW o \in Readers, NEW d \in Digests,
             \/ ReadPreferred(o, d) \/ ReadSelected(o, d) \/ DecideUnavailable(o, d)
             \/ DecideMissing(o, d) \/ ProbeCold(o, d)
      PROVE  o = r
  <2>1. ASSUME NEW pc, MoveTo(o, pc) PROVE o = r
    BY <1>1, <2>1 DEF MoveTo
  <2>2. ASSUME NEW tier, NEW repair, Select(o, tier, repair) PROVE o = r
    BY <1>1, <2>2 DEF Select
  <2>3. ASSUME Deliver(o, d) PROVE o = r
    BY <1>1, <2>1, <2>3 DEF Deliver
  <2> QED
    BY <1>7, <2>1, <2>2, <2>3 DEF ReadPreferred, ReadSelected, DecideUnavailable, DecideMissing, ProbeCold
<1>8. ~(\/ Begin("write", "begin", {}) \/ Begin("demote", "select", {}) \/ BeginCleanup
        \/ Rollback \/ ReadQueue \/ RemoveQueued \/ NextPhase
        \/ \E entry \in drain.todo : UnlinkQueued(entry))
  BY <1>2 DEF Begin, BeginCleanup, Rollback, ReadQueue, RemoveQueued, NextPhase, UnlinkQueued
<1>10. ~Commit
  BY CommitReaders
<1>9. ASSUME NEW d \in Digests
      PROVE  ~(\/ \E e \in Encodings : Store(d, e)
               \/ Drop(d) \/ SelectForDemotion(d) \/ CopyForDemotion(d) \/ UnlinkForDemotion(d)
               \/ CleanQueued(d) \/ CleanPromoted(d) \/ CleanGarbage(d)
               \/ CopyUpFile(d) \/ CopyUpProbe(d) \/ CopyUpCommit(d))
  BY <1>2 DEF Store, Drop, SelectForDemotion, CopyForDemotion, UnlinkForDemotion, CleanQueued,
    CleanPromoted, CleanGarbage, UnlinkCold, CopyUpFile, CopyUpProbe, CopyUpCommit
<1> QED
  BY <1>3, <1>4, <1>5, <1>6, <1>7, <1>8, <1>9, <1>10 DEF Next

\* Why the reader fails there.
LEMMA FailureExplained ==
  ASSUME Typed, Mounted, OneEncoding, NEW r \in Readers, NEW d \in Digests,
         readers[r].pc # "failed", readers'[r].pc = "failed", ~readers[r].outage,
         \/ ReadPreferred(r, d) \/ ReadSelected(r, d) \/ DecideUnavailable(r, d)
         \/ DecideMissing(r, d) \/ ProbeCold(r, d)
  PROVE  \/ readers[r].released /\ \A e \in readers[r].digests : files[2][e] = NoFile
         \/ readers[r].pc = "selected" /\ readers[r].tier = 1 /\ readers[r].hotSeen
<1> DEFINE me == readers[r]
<1>1. d \in me.digests /\ Active(me)
  BY DEF ReadPreferred, ReadSelected, DecideUnavailable, DecideMissing, ProbeCold, Reading, Active
<1>2. /\ readers \in [Readers -> ReaderStates] /\ me \in ReaderStates /\ me.digests = {d}
      /\ Knows(me, files[2][d] # NoFile) /\ up = Tiers
  BY <1>1, ReaderFacts
<1>3. me.tier \in Tiers /\ me.row.enc \in Encodings /\ me.row # NoRow
  BY <1>2 DEF Knows, ReaderStates, MaybeRow, Row
<1>4. ASSUME NEW pc, MoveTo(r, pc) PROVE pc = "failed"
  BY <1>2, <1>4 DEF MoveTo, ReaderStates
<1>5. ASSUME NEW tier, NEW repair, Select(r, tier, repair) PROVE FALSE
  BY <1>2, <1>5 DEF Select, ReaderStates
<1>6. ASSUME Present(me.tier, d), Deliver(r, d) PROVE FALSE
  <2>1. files[me.tier][d] = me.row.enc
    BY <1>3, <1>6, RowsTyped DEF Present, OneEncoding, Tiers
  <2> QED
    BY <2>1, <1>6, DeliverStep, RestingTyped DEF Becomes
<1>7. CASE ReadPreferred(r, d)
  BY <1>2, <1>3, <1>4, <1>6, <1>7 DEF ReadPreferred
<1>8. CASE ReadSelected(r, d)
  <2>1. ~Present(me.tier, d) /\ me.pc = "selected"
    BY <1>6, <1>8 DEF ReadSelected, Reading
  <2>2. me.tier # 2
    BY <1>2, <2>1 DEF Knows, Present, Tiers
  <2>3. me.tier = 1
    BY <1>3, <2>2 DEF Tiers
  <2> QED
    BY <1>2, <2>1, <2>3 DEF Knows
<1>9. CASE DecideUnavailable(r, d)
  BY <1>2, <1>9 DEF Knows, DecideUnavailable, Reading
<1>10. CASE DecideMissing(r, d)
  <2>1. Other(me.tier) \in Tiers
    BY <1>3 DEF Other, Tiers
  <2>2. Present(Other(me.tier), d) \/ Missing(Other(me.tier), d)
    BY <1>2, <2>1 DEF Present, Missing
  <2> QED
    BY <1>4, <1>5, <1>10, <2>2 DEF DecideMissing
<1>11. CASE ProbeCold(r, d)
  <2>1. ~Present(2, d)
    BY <1>5, <1>11 DEF ProbeCold
  <2>2. files[2][d] = NoFile
    BY <1>2, <2>1 DEF Present, Tiers
  <2> QED
    BY <1>2, <1>11, <2>2 DEF Knows, ProbeCold, Reading
<1> QED
  BY <1>7, <1>8, <1>9, <1>10, <1>11

\* Under both hypotheses a read without an outage fails in two cases only: its block has
\* lost all references meanwhile and had no cold copy, or a second demotion unlinks the hot
\* file that a probe has just seen (read_block, _probe_all_tiers_for_repair).
THEOREM TieringReadFailsOnlyIfOvertaken ==
  ASSUME MountedOnly, OneEncoding PROVE Spec => ReadFailsOnlyIfOvertaken
<1> DEFINE Explained(r) ==
      readers[r].pc # "failed" /\ readers'[r].pc = "failed" /\ ~readers[r].outage =>
        \/ readers[r].released /\ \A d \in readers[r].digests : files[2][d] = NoFile
        \/ readers[r].pc = "selected" /\ readers[r].tier = 1 /\ readers[r].hotSeen
<1>1. Typed /\ Mounted /\ [Next]_vars => [\A r \in Readers : Explained(r)]_vars
  <2> SUFFICES ASSUME Typed, Mounted, Next, NEW r \in Readers,
                      readers[r].pc # "failed", readers'[r].pc = "failed", ~readers[r].outage
               PROVE  \/ readers[r].released /\ \A d \in readers[r].digests : files[2][d] = NoFile
                      \/ readers[r].pc = "selected" /\ readers[r].tier = 1 /\ readers[r].hotSeen
    OBVIOUS
  <2>1. PICK d \in Digests :
          \/ ReadPreferred(r, d) \/ ReadSelected(r, d) \/ DecideUnavailable(r, d)
          \/ DecideMissing(r, d) \/ ProbeCold(r, d)
    BY FailingStep
  <2> QED
    BY <2>1, FailureExplained
<1> QED
  BY <1>1, MountedInvariant, PTL DEF Spec, ReadFailsOnlyIfOvertaken

(***************************************************************************)
(* No hot file is forgotten, beside a cleanup of the unmounted file system. *)
(***************************************************************************)
\* Nobody reads, so that nothing is copied up or corrected, nothing fails, and `cleanup`
\* runs only while the file system is unmounted.
OfflineCleanup == Readers = {} /\ Environment \subseteq {"maintenance", "rewrite"}

ClaimsHot(row) == row # NoRow /\ row.hot

\* Every hot file is queued or claimed by a row, and no row without references claims one.
Accounted(table, q, fs) ==
  \A d \in Digests : fs[1][d] # NoFile => d \in Queued(q) \/ ClaimsHot(table[d])
HotReferenced(table) == \A d \in Digests : ClaimsHot(table[d]) => RowRefs(table[d]) > 0
DistinctIds(q) == \A a, b \in q : a.id = b.id => a = b

\* A write stores before it commits: the file of a new block is known to its own rows only.
StoresAccounted ==
  /\ \A d \in Digests : files[1][d] # NoFile =>
       d \in Queued(queue) \/ ClaimsHot(rows[d]) \/ ClaimsHot(txn.rows[d])
  /\ txn.step \in {"begin", "stored"} => \A d \in Digests : ClaimsHot(txn.rows[d]) =>
       ClaimsHot(rows[d]) \/ RowRefs(txn.rows[d]) > RowRefs(rows[d])

\* What the drain remembers is still queued, and what it has unlinked is gone.
DrainQueued ==
  /\ txn.kind = "cleanup" => drain = NoDrain
  /\ drain.todo \subseteq queue /\ drain.done \subseteq queue
  /\ \A entry \in drain.done : files[1][entry.digest] = NoFile

TxnAccounted ==
  /\ Accounted(txn.rows, txn.queue, files) /\ HotReferenced(txn.rows) /\ DistinctIds(txn.queue)
  /\ txn.kind \in {"write", "demote"} => queue \subseteq txn.queue

\* The inductive invariant, beside Typed.
HotAccounted ==
  /\ up = Tiers /\ \A d \in Digests : copyup[d] = "idle"
  /\ HotReferenced(rows) /\ DistinctIds(queue)
  /\ txn.kind # "write" => Accounted(rows, queue, files)
  /\ txn.kind = "write" => StoresAccounted
  /\ txn.kind # "none" => TxnAccounted
  /\ DrainQueued

LEMMA StoredRowHot ==
  ASSUME NEW row \in MaybeRow, TieredRow(row), NEW e \in Encodings
  PROVE  ClaimsHot(AppliedDelta(EnsuredRow(row, "tiered", e), 1))
<1> DEFINE mid == EnsuredRow(row, "tiered", e)
<1>1. mid \in Row /\ mid # NoRow
  BY EnsuredRowSound, NoRowIsNoRow DEF TieredRow, MaybeRow, Kinds, SoundRow
<1>2. mid.hot
  <2>1. CASE row = NoRow
    BY <2>1 DEF EnsuredRow, InsertedRow
  <2>2. CASE row # NoRow
    BY <2>2 DEF EnsuredRow, PromotedByWrite, TieredRow, MaybeRow, Row
  <2> QED
    BY <2>1, <2>2
<1> HIDE DEF mid
<1>3. AppliedDelta(mid, 1) = [mid EXCEPT !.refs = mid.refs + 1, !.garbage = FALSE]
  BY <1>1 DEF AppliedDelta
<1>4. AppliedDelta(mid, 1).hot
  BY <1>1, <1>2, <1>3 DEF Row
<1>5. AppliedDelta(mid, 1) # NoRow
  BY <1>1, StoredRow DEF mid
<1> QED
  BY <1>4, <1>5 DEF ClaimsHot, mid

\* A released row claims no hot file, and the one it claimed is queued; any other row
\* keeps what it claims.
LEMMA DroppedRowHot ==
  ASSUME NEW row \in MaybeRow, TieredRow(row), RowRefs(row) > 0
  PROVE  LET out == AppliedDelta(row, -1)
         IN  \/ RowRefs(row) = 1 /\ ~ClaimsHot(out) /\ (ClaimsHot(row) => QueuesHotFile(row, -1))
             \/ RowRefs(row) > 1 /\ (ClaimsHot(out) <=> ClaimsHot(row)) /\ ~QueuesHotFile(row, -1)
<1> DEFINE out == AppliedDelta(row, -1)
<1>1. row # NoRow /\ row \in Row /\ row.kind = "tiered" /\ row.refs \in Nat /\ row.refs > 0
      /\ RowRefs(row) = row.refs
  BY DEF RowRefs, MaybeRow, TieredRow, Row
<1>2. CASE row.refs # 1
  <2>1. out = [row EXCEPT !.refs = row.refs + (-1)] /\ ~QueuesHotFile(row, -1)
    BY <1>1, <1>2 DEF AppliedDelta, Released, QueuesHotFile
  <2>2. out.hot = row.hot /\ out \in Row
    BY <1>1, <2>1 DEF Row
  <2> QED
    BY <1>1, <1>2, <2>1, <2>2, NoRowIsNoRow DEF ClaimsHot
<1>3. CASE row.refs = 1
  <2>1. out = ColdGarbage(row) \/ out = NoRow
    BY <1>1, <1>3 DEF AppliedDelta, Released
  <2>2. ~ClaimsHot(out)
    BY <1>1, <2>1 DEF ClaimsHot, ColdGarbage, Row
  <2>3. ClaimsHot(row) => QueuesHotFile(row, -1)
    BY <1>1, <1>3 DEF QueuesHotFile, ClaimsHot, Released
  <2> QED
    BY <1>1, <1>3, <2>2, <2>3
<1> QED
  BY <1>2, <1>3

\* The new id is larger than every id in the table, so ids stay distinct.
LEMMA EnqueuedKept ==
  ASSUME NEW q \in SUBSET Entry, NEW d \in Digests, DistinctIds(q)
  PROVE  /\ q \subseteq Enqueued(q, d) /\ d \in Queued(Enqueued(q, d))
         /\ DistinctIds(Enqueued(q, d))
<1> DEFINE new == [id |-> NewId(q), digest |-> d]
<1>1. CASE d \in Queued(q)
  BY <1>1 DEF Enqueued
<1>2. CASE d \notin Queued(q)
  <2>1. Enqueued(q, d) = q \cup {new}
    BY <1>2 DEF Enqueued
  <2>2. \A entry \in q : entry.id # new.id
    <3> DEFINE S == {0} \cup {entry.id : entry \in q}
    <3>1. S \in SUBSET (0..MaxId) /\ S # {}
      BY BoundsAssumption DEF Entry
    <3> HIDE DEF S
    <3>2. Max(S) \in S /\ \A j \in S : Max(S) >= j
      BY <3>1, LargestExists, BoundsAssumption
    <3>3. Max(S) \in 0..MaxId
      BY <3>1, <3>2
    <3>4. new.id = Max(S) + 1
      BY DEF NewId, S
    <3>5. \A entry \in q : entry.id \in S
      BY DEF S
    <3> TAKE entry \in q
    <3>6. Max(S) >= entry.id /\ entry.id \in 0..MaxId
      BY <3>1, <3>2, <3>5
    <3> QED
      BY <3>3, <3>4, <3>6, BoundsAssumption
  <2>3. DistinctIds(q \cup {new})
    BY <2>2 DEF DistinctIds
  <2>4. new \in q \cup {new} /\ new.digest = d
    OBVIOUS
  <2>5. d \in Queued(q \cup {new})
    BY <2>4, Zenon DEF Queued
  <2> QED
    BY <2>1, <2>3, <2>5
<1> QED
  BY <1>1, <1>2

LEMMA InitAccounted == Init => HotAccounted
<1> SUFFICES ASSUME Init PROVE HotAccounted
  OBVIOUS
<1>1. txn.kind = "none" /\ drain.todo = {} /\ drain.done = {} /\ queue = {} /\ up = Tiers
  BY EmptyTableTyped DEF Init, NoDrain
<1>2. \A d \in Digests : rows[d] = NoRow /\ files[1][d] = NoFile /\ copyup[d] = "idle"
  BY DEF Init, EmptyTable, Tiers
<1> QED
  BY <1>1, <1>2 DEF HotAccounted, Accounted, HotReferenced, ClaimsHot, DistinctIds, DrainQueued

LEMMA BeginAccounted ==
  ASSUME Typed, HotAccounted, NEW kind \in TxnKinds, NEW step \in Steps,
         NEW targets \in SUBSET Digests, kind # "none", kind = "cleanup" => drain = NoDrain,
         Begin(kind, step, targets)
  PROVE  HotAccounted'
<1>1. /\ txn.kind = "none" /\ txn'.kind = kind /\ txn'.step = step /\ txn'.rows = rows
      /\ txn'.queue = queue /\ UNCHANGED <<rows, queue, files, up, drain, copyup>>
  BY DEF Begin
<1>2. Accounted(rows, queue, files) /\ HotReferenced(rows) /\ DistinctIds(queue)
  BY <1>1 DEF HotAccounted
<1>3. StoresAccounted'
  BY <1>1, <1>2 DEF StoresAccounted, Accounted
<1>4. TxnAccounted'
  BY <1>1, <1>2 DEF TxnAccounted
<1>5. DrainQueued'
  BY <1>1 DEF DrainQueued, HotAccounted
<1> QED
  BY <1>1, <1>2, <1>3, <1>4, <1>5 DEF HotAccounted

LEMMA CommitAccounted == ASSUME Typed, HotAccounted, Commit PROVE HotAccounted'
<1>1. /\ txn.kind # "none" /\ rows' = txn.rows /\ queue' = txn.queue /\ txn'.kind = "none"
      /\ UNCHANGED <<files, up, drain, copyup>>
  BY EmptyTableTyped DEF Commit, CommitReady
<1>2. TxnAccounted
  BY <1>1 DEF HotAccounted
<1>3. DrainQueued'
  <2>1. CASE txn.kind = "cleanup"
    BY <1>1, <2>1 DEF DrainQueued, HotAccounted, NoDrain
  <2>2. CASE txn.kind # "cleanup"
    <3>1. txn.kind \in TxnKinds
      BY TypeParts DEF Typed, TxnStates
    <3>2. queue \subseteq queue'
      BY <1>1, <1>2, <2>2, <3>1 DEF TxnAccounted, TxnKinds
    <3> QED
      BY <1>1, <3>2 DEF DrainQueued, HotAccounted
  <2> QED
    BY <2>1, <2>2
<1> QED
  BY <1>1, <1>2, <1>3 DEF HotAccounted, TxnAccounted

\* Nothing fails: no write is rolled back.
LEMMA NothingFails ==
  ASSUME OfflineCleanup, Typed, HotAccounted
  PROVE  /\ ~Rollback /\ ~Crash /\ \A t \in Tiers : ~Outage(t)
         /\ \A d \in Digests : ~(CopyUpFile(d) \/ CopyUpProbe(d) \/ CopyUpCommit(d))
BY DEF OfflineCleanup, HotAccounted, Rollback, Crash, Outage, CopyUpFile, CopyUpProbe,
  CopyUpCommit, Tiers

LEMMA StoreAccounted ==
  ASSUME OfflineCleanup, Typed, HotAccounted, NEW d \in Digests, NEW e \in Encodings, Store(d, e)
  PROVE  HotAccounted'
<1>1. PICK row \in MaybeRow :
           /\ RowRefs(row) = RowRefs(txn.rows[d]) + 1
           /\ txn' \in TxnStates /\ txn'.kind = "write" /\ txn'.queue = txn.queue
           /\ txn'.step \in {"stored", "both"}
           /\ txn'.step = "stored" => txn.step = "begin"
           /\ txn'.rows[d] = row
           /\ \A x \in Digests \ {d} : txn'.rows[x] = txn.rows[x]
  BY StoreStep
<1>2. /\ txn.kind = "write" /\ d \notin Excluded
      /\ UNCHANGED <<rows, queue, up, drain, copyup>>
  BY DEF Store, Writing
<1>3. \A x \in Digests \ {d} : files'[1][x] = files[1][x]
  BY FileUpdate, RowsTyped DEF Store, FileTable, Tiers
<1>4. ClaimsHot(txn'.rows[d])
  <2>1. txn' = [txn EXCEPT !.step = IF txn.step = "begin" THEN "stored" ELSE "both",
                           !.rows = [txn.rows EXCEPT
                             ![d] = AppliedDelta(EnsuredRow(txn.rows[d], "tiered", e), 1)]]
    BY DEF Store, StepTxn
  <2>2. txn'.rows[d] = AppliedDelta(EnsuredRow(txn.rows[d], "tiered", e), 1)
    BY <2>1, RowsTyped DEF TxnStates, Table
  <2> QED
    BY <2>2, StoredRowHot, RowsTyped
<1>5. StoresAccounted /\ TxnAccounted /\ DrainQueued
  BY <1>2 DEF HotAccounted
<1>6. \A x \in Digests : RowRefs(rows[x]) \in Nat /\ RowRefs(txn.rows[x]) \in Nat
                         /\ RowRefs(txn.rows[x]) >= 0
  BY RowsTyped
<1>7. StoresAccounted'
  <2>1. ASSUME NEW x \in Digests, files'[1][x] # NoFile
        PROVE  x \in Queued(queue') \/ ClaimsHot(rows'[x]) \/ ClaimsHot(txn'.rows[x])
    BY <1>1, <1>2, <1>3, <1>4, <1>5, <2>1 DEF StoresAccounted
  <2>2. ASSUME NEW x \in Digests, txn'.step \in {"begin", "stored"}, ClaimsHot(txn'.rows[x])
        PROVE  ClaimsHot(rows'[x]) \/ RowRefs(txn'.rows[x]) > RowRefs(rows'[x])
    <3>1. txn.step = "begin" /\ txn'.step = "stored"
      BY <1>1, <2>2
    <3>2. RowRefs(txn.rows[d]) >= RowRefs(rows[d])
      BY <1>2, <3>1 DEF Typed, TxnShape
    <3>3. CASE x = d
      BY <1>1, <1>2, <1>6, <3>2, <3>3
    <3>4. CASE x # d
      BY <1>1, <1>2, <1>5, <2>2, <3>1, <3>4 DEF StoresAccounted
    <3> QED
      BY <3>3, <3>4
  <2> QED
    BY <2>1, <2>2 DEF StoresAccounted
<1>8. TxnAccounted'
  <2>1. Accounted(txn'.rows, txn'.queue, files')
    BY <1>1, <1>3, <1>4, <1>5 DEF TxnAccounted, Accounted
  <2>2. HotReferenced(txn'.rows)
    BY <1>1, <1>5, <1>6 DEF TxnAccounted, HotReferenced
  <2> QED
    BY <1>1, <1>2, <1>5, <2>1, <2>2 DEF TxnAccounted
<1>9. DrainQueued'
  <2>1. d \notin Queued(queue)
    <3>1. queue \subseteq txn.queue
      BY <1>2, <1>5 DEF TxnAccounted
    <3>2. Excluded = Queued(drain.todo \cup queue) \/ Excluded = Queued(drain.todo \cup txn.queue)
      BY DEF Excluded, OfflineCleanup
    <3> QED
      BY <1>2, <3>1, <3>2 DEF Queued
  <2>2. \A entry \in drain.done : entry.digest \in Digests \ {d}
    <3>1. drain.done \subseteq queue /\ queue \in SUBSET Entry
      BY <1>5, TypeParts DEF DrainQueued, Typed
    <3> QED
      BY <2>1, <3>1 DEF Queued, Entry
  <2> QED
    BY <1>1, <1>2, <1>3, <1>5, <2>2 DEF DrainQueued
<1> QED
  BY <1>1, <1>2, <1>7, <1>8, <1>9 DEF HotAccounted

LEMMA DropAccounted ==
  ASSUME OfflineCleanup, Typed, HotAccounted, NEW d \in Digests, Drop(d) PROVE HotAccounted'
<1> DEFINE row == txn.rows[d]
<1> DEFINE q == IF QueuesHotFile(row, -1) THEN Enqueued(txn.queue, d) ELSE txn.queue
<1>1. PICK new \in MaybeRow :
           /\ RowRefs(row) > 0
           /\ txn' \in TxnStates /\ txn'.kind = "write" /\ txn'.step \in {"dropped", "both"}
           /\ txn'.rows[d] = new
           /\ \A x \in Digests \ {d} : txn'.rows[x] = txn.rows[x]
           /\ RowRefs(new) = RowRefs(row) - 1
  BY DropStep
<1>2. /\ txn.kind = "write" /\ txn.step \in {"begin", "stored"}
      /\ UNCHANGED <<rows, queue, files, up, drain, copyup>>
      /\ RowRefs(rows[d]) > 0
  BY DEF Drop, Writing
<1>3. /\ row \in MaybeRow /\ TieredRow(row)
      /\ RowRefs(row) \in Nat /\ RowRefs(rows[d]) \in Nat
  BY RowsTyped
<1>4. RowRefs(row) > 0 /\ RowRefs(rows[d]) > 0
  BY <1>1, <1>2, <1>3
<1>5. txn'.rows[d] = AppliedDelta(row, -1) /\ txn'.queue = q
  BY RowsTyped DEF Drop, TxnStates, Table
<1>6. \/ RowRefs(row) = 1 /\ ~ClaimsHot(new) /\ (ClaimsHot(row) => QueuesHotFile(row, -1))
      \/ RowRefs(row) > 1 /\ (ClaimsHot(new) <=> ClaimsHot(row)) /\ ~QueuesHotFile(row, -1)
  BY <1>1, <1>3, <1>4, <1>5, DroppedRowHot
<1>7. StoresAccounted /\ TxnAccounted /\ DrainQueued
  BY <1>2 DEF HotAccounted
<1>8. txn.queue \subseteq q /\ DistinctIds(q) /\ (QueuesHotFile(row, -1) => d \in Queued(q))
  <2>1. DistinctIds(txn.queue) /\ txn.queue \in SUBSET Entry
    BY <1>7, RowsTyped DEF TxnAccounted
  <2> QED
    BY <2>1, EnqueuedKept
<1> HIDE DEF row, q
<1>9. StoresAccounted'
  <2>1. CASE ClaimsHot(new) <=> ClaimsHot(row)
    BY <1>1, <1>2, <1>7, <2>1 DEF StoresAccounted, row
  <2>2. CASE RowRefs(row) = 1
    <3>1. ClaimsHot(row) => ClaimsHot(rows[d])
      BY <1>2, <1>3, <1>4, <1>7, <2>2 DEF StoresAccounted, row
    <3> QED
      BY <1>1, <1>2, <1>7, <3>1 DEF StoresAccounted, row
  <2> QED
    BY <1>6, <2>1, <2>2
<1>10. TxnAccounted'
  <2>1. \A x \in Digests : x \in Queued(txn.queue) => x \in Queued(q)
    BY <1>8 DEF Queued
  <2>2. Accounted(txn'.rows, txn'.queue, files')
    <3> SUFFICES ASSUME NEW x \in Digests, files[1][x] # NoFile
                 PROVE  x \in Queued(q) \/ ClaimsHot(txn'.rows[x])
      BY <1>2, <1>5 DEF Accounted
    <3>1. x \in Queued(txn.queue) \/ ClaimsHot(txn.rows[x])
      BY <1>7 DEF TxnAccounted, Accounted
    <3>2. CASE x # d
      BY <1>1, <2>1, <3>1, <3>2
    <3>3. CASE x = d
      BY <1>1, <1>6, <1>8, <2>1, <3>1, <3>3 DEF row
    <3> QED
      BY <3>2, <3>3
  <2>3. HotReferenced(txn'.rows)
    <3>1. ClaimsHot(new) => RowRefs(new) > 0
      BY <1>1, <1>3, <1>6
    <3> QED
      BY <1>1, <1>7, <3>1 DEF TxnAccounted, HotReferenced
  <2> QED
    BY <1>1, <1>2, <1>5, <1>7, <1>8, <2>2, <2>3 DEF TxnAccounted
<1>11. DrainQueued'
  BY <1>1, <1>2, <1>7 DEF DrainQueued
<1> QED
  BY <1>1, <1>2, <1>9, <1>10, <1>11 DEF HotAccounted

\* A step of a demotion or a cleanup, which may only remove hot files.
LEMMA InsideAccounted ==
  ASSUME HotAccounted, txn.kind \notin {"none", "write"}, txn'.kind = txn.kind,
         UNCHANGED <<rows, queue, up, drain, copyup>>,
         \A x \in Digests : files'[1][x] = files[1][x] \/ files'[1][x] = NoFile,
         \A entry \in drain.done : entry.digest \in Digests,
         Accounted(txn.rows, txn.queue, files)', HotReferenced(txn.rows)',
         DistinctIds(txn.queue)', txn.kind = "demote" => queue \subseteq txn'.queue
  PROVE  HotAccounted'
<1>1. Accounted(rows, queue, files) /\ DrainQueued
  BY DEF HotAccounted
<1>2. Accounted(rows, queue, files)'
  BY <1>1 DEF Accounted
<1>3. TxnAccounted'
  BY DEF TxnAccounted
<1>4. DrainQueued'
  BY <1>1 DEF DrainQueued
<1> QED
  BY <1>2, <1>3, <1>4 DEF HotAccounted

LEMMA DrainedTyped ==
  ASSUME Typed
  PROVE  /\ queue \in SUBSET Entry /\ drain.todo \in SUBSET Entry /\ drain.done \in SUBSET Entry
         /\ \A entry \in queue \cup drain.todo \cup drain.done : entry.digest \in Digests
<1>1. queue \in SUBSET Entry /\ drain.todo \in SUBSET Entry /\ drain.done \in SUBSET Entry
  BY TypeParts DEF Typed, DrainStates
<1> QED
  BY <1>1 DEF Entry

LEMMA UnlinkedFile ==
  ASSUME Typed, NEW t \in Tiers, NEW d \in Digests
  PROVE  LET new == [files EXCEPT ![t][d] = NoFile]
         IN  /\ new \in FileTable /\ new[t][d] = NoFile
             /\ \A u \in Tiers, x \in Digests : u # t \/ x # d => new[u][x] = files[u][x]
             /\ t = 1 => new[1][d] = NoFile /\ \A x \in Digests \ {d} : new[1][x] = files[1][x]
             /\ t = 2 => \A x \in Digests : new[1][x] = files[1][x]
<1>1. files \in FileTable /\ 1 \in Tiers /\ 2 \in Tiers
  BY RowsTyped DEF Tiers
<1> QED
  BY <1>1, FileUpdate

\* What a demotion leaves of a hot claim, when it unlinks the file.
LEMMA DemotedRowHot ==
  ASSUME Typed, NEW d \in Digests, UnlinkForDemotion(d)
  PROVE  /\ ClaimsHot(txn'.rows[d]) => ClaimsHot(txn.rows[d])
         /\ 1 \in up => ~ClaimsHot(txn'.rows[d])
<1>1. txn \in TxnStates /\ txn.rows \in Table
  BY RowsTyped
<1>2. \/ txn' = [txn EXCEPT !.step = "select", !.rows = [txn.rows EXCEPT ![d] = Demoted(@)]]
      \/ 1 \notin up /\ txn' = [txn EXCEPT !.step = "end", !.rows = txn.rows]
  BY DEF UnlinkForDemotion, StepTxn
<1>3. txn'.rows[d] = Demoted(txn.rows[d]) \/ (1 \notin up /\ txn'.rows[d] = txn.rows[d])
  BY <1>1, <1>2 DEF TxnStates, Table
<1>4. txn.rows[d] \in Row
  BY RowsTyped DEF UnlinkForDemotion, Demoting, Typed, TxnShape, MaybeRow
<1>5. ~Demoted(txn.rows[d]).hot
  BY <1>4 DEF Demoted, Row
<1> QED
  BY <1>3, <1>5 DEF ClaimsHot

LEMMA DemotionAccounted ==
  ASSUME Typed, HotAccounted, NEW d \in Digests,
         SelectForDemotion(d) \/ CopyForDemotion(d) \/ UnlinkForDemotion(d)
  PROVE  HotAccounted'
<1>1. /\ txn.kind = "demote" /\ UNCHANGED <<rows, queue, up, drain, copyup>>
  BY DEF SelectForDemotion, CopyForDemotion, UnlinkForDemotion, Demoting
<1>2. TxnAccounted
  BY <1>1 DEF HotAccounted
<1>3. CASE SelectForDemotion(d) \/ CopyForDemotion(d)
  <2>1. txn'.kind = txn.kind /\ txn'.rows = txn.rows /\ txn'.queue = txn.queue
    BY <1>3, SelectForDemotionStep, CopyForDemotionStep
  <2>2. \A x \in Digests : files'[1][x] = files[1][x]
    BY <1>3, CopiedFile, RowsTyped DEF SelectForDemotion, CopyForDemotion, Tiers
  <2>3. Accounted(txn.rows, txn.queue, files)'
    BY <1>2, <2>1, <2>2 DEF TxnAccounted, Accounted
  <2> QED
    BY <1>1, <1>2, <2>1, <2>2, <2>3, InsideAccounted, DrainedTyped DEF TxnAccounted
<1>4. CASE UnlinkForDemotion(d)
  <2>1. /\ txn'.kind = "demote" /\ txn'.queue = txn.queue
        /\ \A x \in Digests \ {d} : txn'.rows[x] = txn.rows[x]
        /\ \/ /\ files' = [files EXCEPT ![1][d] = NoFile]
              /\ RowRefs(txn'.rows[d]) = RowRefs(txn.rows[d])
           \/ UNCHANGED files /\ txn'.rows[d] = txn.rows[d]
    BY <1>4, UnlinkForDemotionStep
  <2>0. 1 \in Tiers
    BY DEF Tiers
  <2>2. \A x \in Digests \ {d} : files'[1][x] = files[1][x]
    <3>1. CASE UNCHANGED files
      BY <3>1
    <3>2. CASE files' = [files EXCEPT ![1][d] = NoFile]
      BY <2>0, <3>2, UnlinkedFile
    <3> QED
      BY <2>1, <3>1, <3>2
  <2>3. files'[1][d] = NoFile \/ (files'[1][d] = files[1][d] /\ txn'.rows[d] = txn.rows[d])
    <3>1. CASE files' = [files EXCEPT ![1][d] = NoFile]
      BY <2>0, <3>1, UnlinkedFile
    <3>2. CASE UNCHANGED files /\ txn'.rows[d] = txn.rows[d]
      BY <3>2
    <3> QED
      BY <2>1, <3>1, <3>2
  <2>4. Accounted(txn.rows, txn.queue, files)'
    <3> SUFFICES ASSUME NEW x \in Digests, files'[1][x] # NoFile
                 PROVE  x \in Queued(txn'.queue) \/ ClaimsHot(txn'.rows[x])
      BY DEF Accounted
    <3>1. files'[1][x] = files[1][x] /\ txn'.rows[x] = txn.rows[x]
      <4>1. CASE x = d
        BY <2>3, <4>1
      <4>2. CASE x # d
        BY <2>1, <2>2, <4>2
      <4> QED
        BY <4>1, <4>2
    <3>2. x \in Queued(txn.queue) \/ ClaimsHot(txn.rows[x])
      BY <1>2, <3>1 DEF TxnAccounted, Accounted
    <3>3. txn'.queue = txn.queue
      BY <2>1
    <3> QED
      BY <3>1, <3>2, <3>3
  <2>5. HotReferenced(txn.rows)'
    <3>1. ClaimsHot(txn'.rows[d]) => ClaimsHot(txn.rows[d])
      BY <1>4, DemotedRowHot
    <3> QED
      BY <1>2, <2>1, <3>1 DEF TxnAccounted, HotReferenced
  <2> QED
    BY <1>1, <1>2, <2>1, <2>2, <2>3, <2>4, <2>5, InsideAccounted, DrainedTyped DEF TxnAccounted
<1> QED
  BY <1>3, <1>4

LEMMA DrainAccounted ==
  ASSUME OfflineCleanup, Typed, HotAccounted,
         ReadQueue \/ RemoveQueued \/ \E entry \in drain.todo : UnlinkQueued(entry)
  PROVE  HotAccounted'
<1>1. CASE ReadQueue
  <2>1. txn.kind # "cleanup" /\ drain'.todo = queue /\ drain'.done = {}
        /\ UNCHANGED <<rows, queue, files, up, txn, copyup>>
    BY <1>1 DEF ReadQueue, MayRead, OfflineCleanup
  <2>2. DrainQueued'
    BY <2>1 DEF DrainQueued
  <2> QED
    BY <2>1, <2>2 DEF HotAccounted, TxnAccounted, StoresAccounted
<1>2. CASE RemoveQueued
  <2>1. /\ txn.kind = "none" /\ queue' = Dequeued(queue, drain.done) /\ drain' = NoDrain
        /\ UNCHANGED <<rows, files, up, txn, copyup>>
    BY <1>2 DEF RemoveQueued
  <2>2. DistinctIds(queue) /\ DrainQueued /\ Accounted(rows, queue, files)
    BY <2>1 DEF HotAccounted
  <2>3. queue' = queue \ drain.done
    BY <2>1, <2>2 DEF Dequeued, DrainQueued, DistinctIds
  <2>4. Accounted(rows, queue, files)'
    <3> SUFFICES ASSUME NEW x \in Digests, files[1][x] # NoFile, ~ClaimsHot(rows[x])
                 PROVE  x \in Queued(queue')
      BY <2>1 DEF Accounted
    <3>1. PICK entry \in queue : entry.digest = x
      BY <2>2 DEF Accounted, Queued
    <3>2. entry \notin drain.done
      BY <2>2, <3>1 DEF DrainQueued
    <3> QED
      BY <2>3, <3>1, <3>2 DEF Queued
  <2>5. DrainQueued' /\ DistinctIds(queue)'
    BY <2>1, <2>2, <2>3 DEF DrainQueued, DistinctIds, NoDrain
  <2> QED
    BY <2>1, <2>4, <2>5 DEF HotAccounted
<1>3. ASSUME NEW entry \in drain.todo, UnlinkQueued(entry) PROVE HotAccounted'
  <2>1. 1 \in up /\ 1 \in Tiers /\ entry.digest \in Digests /\ entry \in queue
    BY DrainedTyped DEF HotAccounted, Tiers, DrainQueued
  <2>2. /\ drain' = [todo |-> drain.todo \ {entry}, done |-> drain.done \cup {entry}]
        /\ files' = [files EXCEPT ![1][entry.digest] = NoFile]
        /\ UNCHANGED <<rows, queue, up, txn, copyup>>
    BY <1>3, <2>1 DEF UnlinkQueued
  <2>3. /\ files'[1][entry.digest] = NoFile
        /\ \A x \in Digests \ {entry.digest} : files'[1][x] = files[1][x]
    BY <2>1, <2>2, UnlinkedFile
  <2>4. \A other \in drain.done : other.digest \in Digests
    BY DrainedTyped
  <2>5. DrainQueued'
    <3>1. drain # NoDrain
      BY DEF NoDrain
    <3>2. drain'.todo \subseteq drain.todo /\ drain'.done = drain.done \cup {entry}
      BY <2>2
    <3>3. txn.kind # "cleanup" /\ DrainQueued
      BY <3>1 DEF HotAccounted, DrainQueued
    <3> QED
      BY <2>1, <2>2, <2>3, <2>4, <3>2, <3>3 DEF DrainQueued
  <2>6. \A x \in Digests : files'[1][x] # NoFile => files[1][x] # NoFile
    BY <2>3
  <2>7. \A table, q : Accounted(table, q, files) => Accounted(table, q, files')
    BY <2>6 DEF Accounted
  <2>8. TxnAccounted => TxnAccounted'
    BY <2>2, <2>7 DEF TxnAccounted
  <2>9. StoresAccounted => StoresAccounted'
    BY <2>2, <2>6 DEF StoresAccounted
  <2> QED
    BY <2>2, <2>5, <2>7, <2>8, <2>9 DEF HotAccounted
<1> QED
  BY <1>1, <1>2, <1>3

\* What the later phases of the cleanup make of a row.
CleanedRow(d, new) ==
  \/ new = [txn.rows[d] EXCEPT !.cold = FALSE] /\ PromotedColdCopy(txn.rows[d])
  \/ new = NoRow /\ CollectableGarbage(txn.rows[d])

LEMMA CleaningStep ==
  ASSUME Typed, NEW d \in Digests, CleanPromoted(d) \/ CleanGarbage(d)
  PROVE  \E new, step : CleanedRow(d, new) /\ step \in {"promoted", "garbage"}
           /\ txn' = [txn EXCEPT !.step = step, !.rows = [txn.rows EXCEPT ![d] = new]]
<1>1. CASE CleanPromoted(d)
  <2>1. [txn.rows EXCEPT ![d].cold = FALSE] = [txn.rows EXCEPT ![d] = [txn.rows[d] EXCEPT !.cold = FALSE]]
    BY RowsTyped DEF Table
  <2> QED
    BY <1>1, <2>1 DEF CleanPromoted, StepTxn, CleanedRow
<1>2. CASE CleanGarbage(d)
  BY <1>2 DEF CleanGarbage, StepTxn, CleanedRow
<1> QED
  BY <1>1, <1>2

LEMMA CleanedRowClaims ==
  ASSUME Typed, NEW d \in Digests, NEW new, CleanedRow(d, new)
  PROVE  /\ RowRefs(new) = RowRefs(txn.rows[d]) /\ ~ClaimsCold(new)
         /\ ClaimsHot(new) => ClaimsHot(txn.rows[d])
         /\ ClaimsHot(txn.rows[d]) => ClaimsHot(new) \/ RowRefs(txn.rows[d]) = 0
<1>1. txn.rows[d] \in MaybeRow
  BY RowsTyped
<1>2. CASE new = [txn.rows[d] EXCEPT !.cold = FALSE] /\ PromotedColdCopy(txn.rows[d])
  <2>1. txn.rows[d] \in Row /\ new # NoRow /\ RowRefs(new) = RowRefs(txn.rows[d])
    BY <1>1, <1>2, UncooledRow, RowsTyped, NoRowIsNoRow, RowUpdates DEF PromotedColdCopy, MaybeRow
  <2>2. new.hot = txn.rows[d].hot /\ ~new.cold
    BY <1>2, <2>1 DEF Row
  <2> QED
    BY <2>1, <2>2, <1>2 DEF ClaimsHot, ClaimsCold, PromotedColdCopy
<1>3. CASE new = NoRow /\ CollectableGarbage(txn.rows[d])
  BY <1>3 DEF CollectableGarbage, RowRefs, ClaimsHot, ClaimsCold
<1> QED
  BY <1>2, <1>3 DEF CleanedRow

LEMMA CleanupAccounted ==
  ASSUME Typed, HotAccounted,
         NextPhase \/ \E d \in Digests : CleanQueued(d) \/ CleanPromoted(d) \/ CleanGarbage(d)
  PROVE  HotAccounted'
<1>1. /\ txn.kind = "cleanup" /\ UNCHANGED <<rows, queue, up, drain, copyup>>
  BY DEF NextPhase, CleanQueued, CleanPromoted, CleanGarbage, Cleaning, UnlinkCold
<1>2. TxnAccounted /\ txn \in TxnStates /\ txn.rows \in Table /\ 1 \in Tiers /\ 2 \in Tiers /\ 1 \in up
  <2>1. TxnAccounted /\ 1 \in Tiers /\ 2 \in Tiers /\ 1 \in up
    BY <1>1 DEF HotAccounted, Tiers
  <2>2. txn \in TxnStates /\ txn.rows \in Table
    BY TypeParts DEF Typed, TxnStates
  <2> QED
    BY <2>1, <2>2
<1>3. SUFFICES /\ txn'.kind = "cleanup"
               /\ \A x \in Digests : files'[1][x] = files[1][x] \/ files'[1][x] = NoFile
               /\ Accounted(txn.rows, txn.queue, files)'
               /\ HotReferenced(txn.rows)' /\ DistinctIds(txn.queue)'
  BY <1>1, InsideAccounted, DrainedTyped
<1>4. CASE NextPhase
  <2>1. PICK step \in Steps : txn' = [txn EXCEPT !.step = step, !.rows = txn.rows]
    BY <1>4 DEF NextPhase, StepTxn, Steps
  <2>2. txn'.kind = "cleanup" /\ txn'.rows = txn.rows /\ txn'.queue = txn.queue
    BY <1>1, <1>2, <2>1 DEF TxnStates
  <2>3. UNCHANGED files
    BY <1>4 DEF NextPhase
  <2> QED
    BY <1>2, <2>2, <2>3 DEF TxnAccounted, Accounted
<1>5. ASSUME NEW d \in Digests, CleanQueued(d)
      PROVE  /\ txn'.kind = "cleanup"
             /\ \A x \in Digests : files'[1][x] = files[1][x] \/ files'[1][x] = NoFile
             /\ Accounted(txn.rows, txn.queue, files)'
             /\ HotReferenced(txn.rows)' /\ DistinctIds(txn.queue)'
  <2>1. /\ txn' = [txn EXCEPT !.targets = @ \ {d},
                              !.queue = {entry \in txn.queue : entry.digest # d}]
        /\ files' = [files EXCEPT ![1][d] = NoFile]
    BY <1>2, <1>5 DEF CleanQueued
  <2>2. txn'.kind = "cleanup" /\ txn'.rows = txn.rows
        /\ txn'.queue = {entry \in txn.queue : entry.digest # d}
    BY <1>1, <1>2, <2>1 DEF TxnStates
  <2>3. files'[1][d] = NoFile /\ \A x \in Digests \ {d} : files'[1][x] = files[1][x]
    BY <1>2, <2>1, UnlinkedFile
  <2>4. \A x \in Digests \ {d} : x \in Queued(txn.queue) => x \in Queued(txn'.queue)
    BY <2>2 DEF Queued
  <2>5. Accounted(txn.rows, txn.queue, files)'
    BY <1>2, <2>2, <2>3, <2>4 DEF TxnAccounted, Accounted
  <2> QED
    BY <1>2, <2>2, <2>3, <2>5 DEF TxnAccounted, DistinctIds
<1>6. ASSUME NEW d \in Digests, CleanPromoted(d) \/ CleanGarbage(d)
      PROVE  /\ txn'.kind = "cleanup"
             /\ \A x \in Digests : files'[1][x] = files[1][x] \/ files'[1][x] = NoFile
             /\ Accounted(txn.rows, txn.queue, files)'
             /\ HotReferenced(txn.rows)' /\ DistinctIds(txn.queue)'
  <2>0. files' = [files EXCEPT ![2][d] = NoFile]
    BY <1>6 DEF CleanPromoted, CleanGarbage, UnlinkCold
  <2>1. \A x \in Digests : files'[1][x] = files[1][x]
    BY <1>2, <2>0, UnlinkedFile
  <2>2. PICK new, step : CleanedRow(d, new)
          /\ txn' = [txn EXCEPT !.step = step, !.rows = [txn.rows EXCEPT ![d] = new]]
    BY <1>6, CleaningStep
  <2>3. /\ txn'.kind = "cleanup" /\ txn'.queue = txn.queue /\ txn'.rows[d] = new
        /\ \A x \in Digests \ {d} : txn'.rows[x] = txn.rows[x]
    BY <1>1, <1>2, <2>2 DEF TxnStates, Table
  <2>4. (ClaimsHot(txn.rows[d]) => RowRefs(txn.rows[d]) > 0) /\ RowRefs(txn.rows[d]) \in Nat
    BY <1>2, RowsTyped DEF TxnAccounted, HotReferenced
  <2>5. (ClaimsHot(new) <=> ClaimsHot(txn.rows[d])) /\ RowRefs(new) = RowRefs(txn.rows[d])
    BY <2>2, <2>4, CleanedRowClaims
  <2>6. Accounted(txn.rows, txn.queue, files)'
    BY <1>2, <2>1, <2>3, <2>5 DEF TxnAccounted, Accounted
  <2>7. HotReferenced(txn.rows)'
    BY <1>2, <2>3, <2>5 DEF TxnAccounted, HotReferenced
  <2> QED
    BY <1>2, <2>1, <2>3, <2>6, <2>7 DEF TxnAccounted
<1> QED
  BY <1>4, <1>5, <1>6

LEMMA NextAccounted == OfflineCleanup /\ Typed /\ HotAccounted /\ [Next]_vars => HotAccounted'
<1> SUFFICES ASSUME OfflineCleanup, Typed, HotAccounted, [Next]_vars PROVE HotAccounted'
  OBVIOUS
<1>1. CASE Begin("write", "begin", {}) \/ Begin("demote", "select", {})
  BY <1>1, BeginAccounted DEF TxnKinds, Steps
<1>2. CASE BeginCleanup
  <2>1. Queued(queue) \in SUBSET Digests
    BY DrainedTyped DEF Queued
  <2>2. drain = NoDrain
    BY <1>2 DEF BeginCleanup, Unmounted, OfflineCleanup
  <2> QED
    BY <1>2, <2>1, <2>2, BeginAccounted DEF BeginCleanup, TxnKinds, Steps
<1>3. CASE Commit
  BY <1>3, CommitAccounted
<1>4. /\ ~Rollback /\ ~Crash /\ \A t \in Tiers : ~Outage(t)
      /\ \A d \in Digests : ~(CopyUpFile(d) \/ CopyUpProbe(d) \/ CopyUpCommit(d))
  BY NothingFails
<1>5. CASE \E d \in Digests, e \in Encodings : Store(d, e)
  BY <1>5, StoreAccounted
<1>6. CASE \E d \in Digests : Drop(d)
  BY <1>6, DropAccounted
<1>7. CASE \E d \in Digests : SelectForDemotion(d) \/ CopyForDemotion(d) \/ UnlinkForDemotion(d)
  BY <1>7, DemotionAccounted
<1>8. CASE ReadQueue \/ RemoveQueued \/ \E entry \in drain.todo : UnlinkQueued(entry)
  BY <1>8, DrainAccounted
<1>9. CASE NextPhase \/ \E d \in Digests : CleanQueued(d) \/ CleanPromoted(d) \/ CleanGarbage(d)
  BY <1>9, CleanupAccounted
<1>10. Readers = {}
  BY DEF OfflineCleanup
<1>11. CASE UNCHANGED vars
  BY <1>11 DEF vars, HotAccounted, TxnAccounted, StoresAccounted, DrainQueued
<1> QED
  BY <1>1, <1>2, <1>3, <1>4, <1>5, <1>6, <1>7, <1>8, <1>9, <1>10, <1>11 DEF Next

\* Where nothing fails and nobody reads, no hot file is forgotten, although `cleanup` and the
\* drain remove entries and files in several steps: a file is a row's, queued, or of the write
\* under way (drain_pending_deletions, _cleanup_pending, apply_block_refcount_deltas).
THEOREM TieringHotFileAccounted == ASSUME OfflineCleanup PROVE Spec => []HotFileAccounted
<1>1. Init => Typed /\ HotAccounted
  BY InitTyped, InitAccounted
<1>2. Typed /\ HotAccounted /\ [Next]_vars => Typed' /\ HotAccounted'
  BY NextTyped, NextAccounted
<1>3. HotAccounted => HotFileAccounted
  BY DEF HotAccounted, HotFileAccounted, StoresAccounted, Accounted, ClaimsHot
<1> QED
  BY <1>1, <1>2, <1>3, PTL DEF Spec

(***************************************************************************)
(* A cleanup of the unmounted file system removes no copy that is needed.  *)
(***************************************************************************)
\* Nobody reads, tiers may become unavailable outside a demotion, and `cleanup` runs only
\* while the file system is unmounted.
OfflineOutages == Readers = {} /\ Environment \subseteq {"maintenance", "outage"}

\* A tier that a row claims has its file, and what is queued is not referenced.
Backed(table, q, fs) ==
  \A d \in Digests :
    /\ ClaimsHot(table[d]) => fs[1][d] # NoFile /\ RowRefs(table[d]) > 0
    /\ ClaimsCold(table[d]) => fs[2][d] # NoFile
    /\ d \in Queued(q) => RowRefs(table[d]) = 0

\* The drain unlinks what it has read, which only committed entries of unreferenced
\* blocks are.
DrainHarmless ==
  /\ txn.kind = "cleanup" => drain = NoDrain
  /\ drain.todo \subseteq queue
  /\ \A d \in Queued(queue) : RowRefs(rows[d]) = 0

\* What a demotion has copied or is about to copy.
Demotable ==
  /\ \A d \in Digests : ClaimsCold(rows[d]) => ClaimsCold(txn.rows[d])
  /\ \A d, e \in txn.targets : d = e
  /\ txn.step = "copy" => 2 \in up /\ \A d \in txn.targets : ClaimsHot(txn.rows[d])
  /\ txn.step = "unlink" /\ 1 \in up => \A d \in txn.targets : files[2][d] # NoFile

\* The inductive invariant, beside Typed.
Kept ==
  /\ \A d \in Digests : copyup[d] = "idle"
  /\ DrainHarmless
  /\ txn.kind \in {"none", "write"} => Backed(rows, queue, files)
  /\ txn.kind # "none" => Backed(txn.rows, txn.queue, files)
  /\ txn.kind \in {"write", "demote"} => queue \subseteq txn.queue
  /\ txn.kind \in {"demote", "cleanup"} =>
       \A d \in Digests : RowRefs(rows[d]) = RowRefs(txn.rows[d])
  /\ txn.kind = "demote" => Demotable
  /\ txn.kind = "cleanup" /\ txn.step = "pending" => txn.targets \subseteq Queued(txn.queue)

LEMMA InitKept == Init => Kept
<1> SUFFICES ASSUME Init PROVE Kept
  OBVIOUS
<1>1. txn.kind = "none" /\ drain.todo = {} /\ queue = {}
  BY EmptyTableTyped DEF Init, NoDrain
<1>2. \A d \in Digests : rows[d] = NoRow /\ copyup[d] = "idle"
  BY DEF Init, EmptyTable
<1> QED
  BY <1>1, <1>2 DEF Kept, Backed, ClaimsHot, ClaimsCold, Queued, DrainHarmless

LEMMA BeginKept ==
  ASSUME Typed, Kept, NEW kind \in TxnKinds, NEW step \in Steps, NEW targets \in SUBSET Digests,
         kind # "none", kind = "demote" => step = "select" /\ targets = {},
         kind = "cleanup" => drain = NoDrain /\ targets = Queued(queue),
         Begin(kind, step, targets)
  PROVE  Kept'
<1>1. /\ txn.kind = "none" /\ txn'.kind = kind /\ txn'.step = step /\ txn'.rows = rows
      /\ txn'.queue = queue /\ txn'.targets = targets
      /\ UNCHANGED <<rows, queue, files, up, drain, copyup>>
  BY DEF Begin
<1>2. Backed(rows, queue, files) /\ DrainHarmless
  BY <1>1 DEF Kept
<1>3. DrainHarmless'
  BY <1>1, <1>2 DEF DrainHarmless
<1>4. kind = "demote" => Demotable'
  BY <1>1 DEF Demotable
<1> QED
  BY <1>1, <1>2, <1>3, <1>4 DEF Kept

LEMMA CommitKept == ASSUME Typed, Kept, Commit PROVE Kept'
<1>1. /\ txn.kind # "none" /\ rows' = txn.rows /\ queue' = txn.queue /\ txn'.kind = "none"
      /\ UNCHANGED <<files, up, drain, copyup>>
  BY EmptyTableTyped DEF Commit, CommitReady
<1>2. Backed(txn.rows, txn.queue, files)
  BY <1>1 DEF Kept
<1>3. drain.todo \subseteq queue'
  <2>1. CASE txn.kind = "cleanup"
    BY <2>1 DEF DrainHarmless, Kept, NoDrain
  <2>2. CASE txn.kind # "cleanup"
    <3>1. txn.kind \in {"write", "demote"}
      BY <1>1, <2>2, TypeParts DEF Typed, TxnStates, TxnKinds
    <3> QED
      BY <1>1, <3>1 DEF DrainHarmless, Kept
  <2> QED
    BY <2>1, <2>2
<1>4. \A d \in Queued(txn.queue) : d \in Digests
  BY TypeParts DEF Typed, TxnStates, Queued, Entry
<1>5. DrainHarmless'
  BY <1>1, <1>2, <1>3, <1>4 DEF DrainHarmless, Backed
<1> QED
  BY <1>1, <1>2, <1>5 DEF Kept

LEMMA RollbackKept == ASSUME OfflineOutages, Typed, Kept, Rollback PROVE Kept'
<1>1. txn.kind = "write" /\ txn'.kind = "none" /\ UNCHANGED <<rows, queue, files, up, drain, copyup>>
  BY EmptyTableTyped DEF Rollback, OfflineOutages
<1> QED
  BY <1>1 DEF Kept, DrainHarmless

LEMMA OutageKept ==
  ASSUME OfflineOutages, Typed, Kept, NEW t \in Tiers, Outage(t) PROVE Kept'
<1>1. txn.kind # "demote" /\ UNCHANGED <<rows, queue, files, txn, drain, copyup>>
  BY DEF Outage, OfflineOutages
<1> QED
  BY <1>1 DEF Kept, DrainHarmless

LEMMA StoreKept ==
  ASSUME OfflineOutages, Typed, Kept, NEW d \in Digests, NEW e \in Encodings, Store(d, e)
  PROVE  Kept'
<1>1. PICK row \in MaybeRow :
           /\ RowRefs(row) = RowRefs(txn.rows[d]) + 1
           /\ ClaimsCold(row) <=> ClaimsCold(txn.rows[d])
           /\ txn' \in TxnStates /\ txn'.kind = "write" /\ txn'.queue = txn.queue
           /\ txn'.rows[d] = row
           /\ \A x \in Digests \ {d} : txn'.rows[x] = txn.rows[x]
  BY StoreStep
<1>2. /\ txn.kind = "write" /\ d \notin Queued(txn.queue)
      /\ UNCHANGED <<rows, queue, up, drain, copyup>>
  <2>1. Excluded = Queued(drain.todo \cup txn.queue)
    BY DEF Excluded, OfflineOutages
  <2> QED
    BY <2>1 DEF Store, Writing, Queued
<1>3. Backed(rows, queue, files) /\ Backed(txn.rows, txn.queue, files) /\ DrainHarmless
  BY <1>2 DEF Kept
<1>4. 1 \in Tiers /\ StoredEncoding(txn.rows[d], e) \in Encodings \cup {NoFile}
      /\ StoredEncoding(txn.rows[d], e) # NoFile
  BY RowsTyped, NoFileAssumption DEF StoredEncoding, MaybeRow, Row, Tiers
<1>5. \A u \in Tiers, x \in Digests : files[u][x] # NoFile => files'[u][x] # NoFile
  <2>1. CASE UNCHANGED files
    BY <2>1
  <2>2. CASE files' = [files EXCEPT ![1][d] = StoredEncoding(txn.rows[d], e)]
    BY <1>4, <2>2, FileUpdate, RowsTyped
  <2> QED
    BY <2>1, <2>2 DEF Store
<1>6. files'[1][d] # NoFile
  <2>1. CASE txn.rows[d] = NoRow \/ ~txn.rows[d].hot
    <3>1. CASE files[1][d] = NoFile
      <4>1. files' = [files EXCEPT ![1][d] = StoredEncoding(txn.rows[d], e)]
        BY <2>1, <3>1 DEF Store
      <4> QED
        BY <1>4, <4>1, FileUpdate, RowsTyped
    <3>2. CASE files[1][d] # NoFile
      BY <1>4, <1>5, <3>2
    <3> QED
      BY <3>1, <3>2
  <2>2. CASE ClaimsHot(txn.rows[d])
    BY <1>3, <1>4, <1>5, <2>2 DEF Backed
  <2> QED
    BY <2>1, <2>2 DEF ClaimsHot
<1>7. Backed(rows, queue, files')
  BY <1>3, <1>5 DEF Backed, Tiers
<1>8. Backed(txn'.rows, txn'.queue, files')
  <2>1. RowRefs(row) > 0
    BY <1>1, RowsTyped
  <2>2. \A x \in Digests \ {d} :
          /\ ClaimsHot(txn'.rows[x]) => files'[1][x] # NoFile /\ RowRefs(txn'.rows[x]) > 0
          /\ ClaimsCold(txn'.rows[x]) => files'[2][x] # NoFile
          /\ x \in Queued(txn'.queue) => RowRefs(txn'.rows[x]) = 0
    BY <1>1, <1>3, <1>5 DEF Backed, Tiers
  <2>3. ClaimsCold(txn'.rows[d]) => files'[2][d] # NoFile
    BY <1>1, <1>3, <1>5 DEF Backed, Tiers
  <2> QED
    BY <1>1, <1>2, <1>6, <2>1, <2>2, <2>3 DEF Backed
<1> QED
  BY <1>1, <1>2, <1>3, <1>7, <1>8 DEF Kept, DrainHarmless

LEMMA DropKept == ASSUME Typed, Kept, NEW d \in Digests, Drop(d) PROVE Kept'
<1> DEFINE row == txn.rows[d]
<1> DEFINE q == IF QueuesHotFile(row, -1) THEN Enqueued(txn.queue, d) ELSE txn.queue
<1>1. PICK new \in MaybeRow :
           /\ RowRefs(row) > 0
           /\ RowRefs(new) = RowRefs(row) - 1
           /\ ClaimsCold(new) <=> ClaimsCold(row)
           /\ txn' \in TxnStates /\ txn'.kind = "write"
           /\ txn'.rows[d] = new
           /\ \A x \in Digests \ {d} : txn'.rows[x] = txn.rows[x]
  BY DropStep
<1>2. /\ txn.kind = "write" /\ UNCHANGED <<rows, queue, files, up, drain, copyup>>
  BY DEF Drop, Writing
<1>3. row \in MaybeRow /\ TieredRow(row) /\ RowRefs(row) \in Nat /\ RowRefs(row) > 0
  BY <1>1, RowsTyped
<1>4. txn'.rows[d] = AppliedDelta(row, -1) /\ txn'.queue = q
  BY RowsTyped DEF Drop, TxnStates, Table
<1>5. \/ RowRefs(row) = 1 /\ ~ClaimsHot(new)
      \/ RowRefs(row) > 1 /\ (ClaimsHot(new) <=> ClaimsHot(row)) /\ ~QueuesHotFile(row, -1)
  BY <1>1, <1>3, <1>4, DroppedRowHot
<1>6. Backed(rows, queue, files) /\ Backed(txn.rows, txn.queue, files) /\ DrainHarmless
      /\ queue \subseteq txn.queue
  BY <1>2 DEF Kept
<1>7. txn.queue \subseteq q /\ \A x \in Queued(q) : x \in Queued(txn.queue) \/ (x = d /\ QueuesHotFile(row, -1))
  <2>1. txn.queue \subseteq Enqueued(txn.queue, d)
    BY DEF Enqueued
  <2>2. \A x \in Queued(Enqueued(txn.queue, d)) : x \in Queued(txn.queue) \/ x = d
    BY DEF Enqueued, Queued
  <2> QED
    BY <2>1, <2>2
<1>8. d \notin Queued(txn.queue)
  BY <1>3, <1>6 DEF Backed
<1> HIDE DEF q
<1>9. Backed(txn'.rows, txn'.queue, files')
  <2>1. \A x \in Digests \ {d} :
          /\ ClaimsHot(txn'.rows[x]) => files'[1][x] # NoFile /\ RowRefs(txn'.rows[x]) > 0
          /\ ClaimsCold(txn'.rows[x]) => files'[2][x] # NoFile
          /\ x \in Queued(txn'.queue) => RowRefs(txn'.rows[x]) = 0
    BY <1>1, <1>2, <1>4, <1>6, <1>7 DEF Backed
  <2>2. ClaimsHot(new) => files[1][d] # NoFile /\ RowRefs(new) > 0
    BY <1>1, <1>3, <1>5, <1>6 DEF Backed
  <2>3. ClaimsCold(new) => files[2][d] # NoFile
    BY <1>1, <1>6 DEF Backed
  <2>4. d \in Queued(q) => RowRefs(new) = 0
    BY <1>1, <1>3, <1>5, <1>7, <1>8
  <2> QED
    BY <1>1, <1>2, <1>4, <2>1, <2>2, <2>3, <2>4 DEF Backed
<1> QED
  BY <1>1, <1>2, <1>4, <1>6, <1>7, <1>9 DEF Kept, DrainHarmless

LEMMA DemotionKept ==
  ASSUME OfflineOutages, Typed, Kept, NEW d \in Digests,
         SelectForDemotion(d) \/ CopyForDemotion(d) \/ UnlinkForDemotion(d)
  PROVE  Kept'
<1>1. txn.kind = "demote" /\ UNCHANGED <<rows, queue, up, drain, copyup>> /\ 1 \in Tiers /\ 2 \in Tiers
  BY DEF SelectForDemotion, CopyForDemotion, UnlinkForDemotion, Demoting, Tiers
<1>2. Backed(txn.rows, txn.queue, files) /\ Demotable /\ DrainHarmless /\ queue \subseteq txn.queue
  BY <1>1 DEF Kept
<1>3. SUFFICES /\ txn'.kind = "demote" /\ txn'.queue = txn.queue /\ Backed(txn.rows, txn.queue, files)'
               /\ Demotable' /\ \A x \in Digests : RowRefs(txn'.rows[x]) = RowRefs(txn.rows[x])
  BY <1>1, <1>2 DEF Kept, DrainHarmless
<1>4. CASE SelectForDemotion(d)
  <2>1. /\ txn'.kind = txn.kind /\ txn'.rows = txn.rows /\ txn'.queue = txn.queue /\ txn'.targets = {d}
        /\ txn'.step = IF txn.rows[d].cold THEN "unlink" ELSE IF 2 \in up THEN "copy" ELSE "end"
    BY <1>4, SelectForDemotionStep
  <2>2. ClaimsHot(txn.rows[d]) /\ UNCHANGED files
    BY <1>4 DEF SelectForDemotion, MayDemote, ClaimsHot
  <2>3. txn.rows[d].cold => files[2][d] # NoFile
    BY <1>2, <2>2 DEF Backed, ClaimsCold, ClaimsHot
  <2>4. Demotable'
    BY <1>1, <1>2, <2>1, <2>2, <2>3 DEF Demotable
  <2> QED
    BY <1>1, <1>2, <2>1, <2>2, <2>4
<1>5. CASE CopyForDemotion(d)
  <2>1. /\ txn.step = "copy" /\ d \in txn.targets /\ txn'.kind = txn.kind /\ txn'.rows = txn.rows
        /\ txn'.queue = txn.queue /\ txn'.targets = txn.targets /\ txn'.step = "unlink"
    BY <1>5, CopyForDemotionStep
  <2>2. files' = Copied(d, 1, 2)
    BY <1>5 DEF CopyForDemotion
  <2>3. \A u \in Tiers, x \in Digests : files[u][x] # NoFile => files'[u][x] # NoFile
    BY <1>1, <2>2, CopiedFile, RowsTyped
  <2>4. 1 \in up => files'[2][d] # NoFile
    BY <1>1, <1>2, <2>1, <2>2, CopiedFile, RowsTyped DEF Demotable, Backed, Present
  <2>6. Demotable'
    BY <1>1, <1>2, <2>1, <2>4 DEF Demotable
  <2>7. Backed(txn.rows, txn.queue, files)'
    BY <1>1, <1>2, <2>1, <2>3 DEF Backed
  <2> QED
    BY <1>1, <2>1, <2>6, <2>7
<1>6. CASE UnlinkForDemotion(d)
  <2>1. /\ txn.step = "unlink" /\ d \in txn.targets /\ txn'.kind = "demote" /\ txn'.queue = txn.queue
        /\ txn'.step \in {"select", "end"} /\ txn'.targets = txn.targets
        /\ \A x \in Digests \ {d} : txn'.rows[x] = txn.rows[x]
        /\ \/ /\ 1 \in up /\ files' = [files EXCEPT ![1][d] = NoFile]
              /\ ClaimsCold(txn'.rows[d]) /\ RowRefs(txn'.rows[d]) = RowRefs(txn.rows[d])
           \/ UNCHANGED files /\ txn'.rows[d] = txn.rows[d]
    <3>1. txn'.targets = txn.targets
      BY <1>6, RowsTyped DEF UnlinkForDemotion, StepTxn, TxnStates
    <3> QED
      BY <1>6, <3>1, UnlinkForDemotionStep
  <2>2. CASE UNCHANGED files /\ txn'.rows[d] = txn.rows[d]
    <3>1. \A x \in Digests : txn'.rows[x] = txn.rows[x]
      BY <2>1, <2>2
    <3>2. Backed(txn.rows, txn.queue, files)' /\ Demotable'
      BY <1>1, <1>2, <2>1, <2>2, <3>1 DEF Backed, Demotable
    <3> QED
      BY <2>1, <3>1, <3>2
  <2>3. CASE /\ 1 \in up /\ files' = [files EXCEPT ![1][d] = NoFile]
             /\ ClaimsCold(txn'.rows[d]) /\ RowRefs(txn'.rows[d]) = RowRefs(txn.rows[d])
    <3>1. /\ \A x \in Digests \ {d} : files'[1][x] = files[1][x]
          /\ \A x \in Digests : files'[2][x] = files[2][x]
      BY <1>1, <2>3, UnlinkedFile
    <3>2. files[2][d] # NoFile
      BY <1>2, <2>1, <2>3 DEF Demotable
    <3>3. ~ClaimsHot(txn'.rows[d])
      BY <1>6, <2>3, DemotedRowHot
    <3>4. Backed(txn.rows, txn.queue, files)'
      BY <1>2, <2>1, <2>3, <3>1, <3>2, <3>3 DEF Backed
    <3>5. Demotable'
      BY <1>1, <1>2, <2>1, <2>3 DEF Demotable
    <3> QED
      BY <2>1, <2>3, <3>4, <3>5
  <2> QED
    BY <2>1, <2>2, <2>3
<1> QED
  BY <1>4, <1>5, <1>6

LEMMA DrainKept ==
  ASSUME OfflineOutages, Typed, Kept,
         ReadQueue \/ RemoveQueued \/ \E entry \in drain.todo : UnlinkQueued(entry)
  PROVE  Kept'
<1>1. CASE ReadQueue
  <2>1. txn.kind # "cleanup" /\ drain'.todo = queue
        /\ UNCHANGED <<rows, queue, files, up, txn, copyup>>
    BY <1>1 DEF ReadQueue, MayRead, OfflineOutages
  <2> QED
    BY <2>1 DEF Kept, DrainHarmless, Demotable
<1>2. CASE RemoveQueued
  <2>1. /\ txn.kind = "none" /\ queue' \subseteq queue /\ drain'.todo = {}
        /\ UNCHANGED <<rows, files, up, txn, copyup>>
    BY <1>2 DEF RemoveQueued, Dequeued, NoDrain
  <2>2. \A x \in Queued(queue') : x \in Queued(queue)
    BY <2>1 DEF Queued
  <2>3. Backed(rows, queue', files) /\ DrainHarmless'
    BY <2>1, <2>2 DEF Kept, Backed, DrainHarmless
  <2> QED
    BY <2>1, <2>3 DEF Kept
<1>3. ASSUME NEW entry \in drain.todo, UnlinkQueued(entry) PROVE Kept'
  <2> DEFINE x == entry.digest
  <2>1. entry \in queue /\ x \in Digests /\ x \in Queued(queue) /\ 1 \in Tiers /\ txn.kind # "cleanup"
    BY DrainedTyped DEF Kept, DrainHarmless, Queued, NoDrain, Tiers
  <2>2. drain'.todo \subseteq drain.todo /\ UNCHANGED <<rows, queue, up, txn, copyup>>
    BY <1>3 DEF UnlinkQueued
  <2>3. /\ \A y \in Digests \ {x} : files'[1][y] = files[1][y]
        /\ \A y \in Digests : files'[2][y] = files[2][y]
    <3>1. CASE UNCHANGED files
      BY <3>1
    <3>2. CASE files' = [files EXCEPT ![1][x] = NoFile]
      BY <2>1, <3>2, FileUpdate, RowsTyped DEF Tiers
    <3> QED
      BY <1>3, <3>1, <3>2 DEF UnlinkQueued
  <2>4. \A table, q : Backed(table, q, files) /\ RowRefs(table[x]) = 0 => Backed(table, q, files')
    BY <2>3 DEF Backed
  <2>5. RowRefs(rows[x]) = 0
    BY <2>1 DEF Kept, DrainHarmless
  <2>6. txn.kind # "none" => RowRefs(txn.rows[x]) = 0
    <3>1. CASE txn.kind \in {"write", "demote"}
      BY <2>1, <3>1 DEF Kept, Backed, Queued
    <3> QED
      BY <2>1, <3>1, TypeParts DEF Typed, TxnStates, TxnKinds
  <2>7. txn.kind = "demote" => Demotable'
    <3>1. \A y \in txn.targets : y \in Digests
      BY TypeParts DEF Typed, TxnStates
    <3> QED
      BY <2>2, <2>3, <3>1 DEF Kept, Demotable
  <2> QED
    BY <2>1, <2>2, <2>4, <2>5, <2>6, <2>7 DEF Kept, DrainHarmless
<1> QED
  BY <1>1, <1>2, <1>3

LEMMA CleanupKept ==
  ASSUME Typed, Kept,
         NextPhase \/ \E d \in Digests : CleanQueued(d) \/ CleanPromoted(d) \/ CleanGarbage(d)
  PROVE  Kept'
<1>1. txn.kind = "cleanup" /\ UNCHANGED <<rows, queue, up, drain, copyup>> /\ 1 \in Tiers /\ 2 \in Tiers
  BY DEF NextPhase, CleanQueued, CleanPromoted, CleanGarbage, Cleaning, UnlinkCold, Tiers
<1>2. Backed(txn.rows, txn.queue, files) /\ DrainHarmless
  BY <1>1 DEF Kept
<1>3. txn \in TxnStates /\ txn.rows \in Table /\ txn.targets \in SUBSET Digests
  BY TypeParts DEF Typed, TxnStates
<1>4. SUFFICES /\ txn'.kind = "cleanup" /\ Backed(txn.rows, txn.queue, files)'
               /\ \A x \in Digests : RowRefs(txn'.rows[x]) = RowRefs(txn.rows[x])
               /\ txn'.step = "pending" => txn'.targets \subseteq Queued(txn'.queue)
  BY <1>1, <1>2 DEF Kept, DrainHarmless
<1>5. CASE NextPhase
  <2>1. PICK step \in {"promoted", "garbage"} : txn' = [txn EXCEPT !.step = step, !.rows = txn.rows]
    BY <1>5 DEF NextPhase, StepTxn
  <2>2. txn'.kind = "cleanup" /\ txn'.rows = txn.rows /\ txn'.queue = txn.queue /\ txn'.step = step
    BY <1>1, <1>3, <2>1 DEF TxnStates
  <2>3. UNCHANGED files
    BY <1>5 DEF NextPhase
  <2> QED
    BY <1>2, <2>2, <2>3
<1>6. ASSUME NEW d \in Digests, CleanQueued(d)
      PROVE  /\ txn'.kind = "cleanup" /\ Backed(txn.rows, txn.queue, files)'
             /\ \A x \in Digests : RowRefs(txn'.rows[x]) = RowRefs(txn.rows[x])
             /\ txn'.step = "pending" => txn'.targets \subseteq Queued(txn'.queue)
  <2>1. txn.step = "pending" /\ d \in txn.targets /\ txn.targets \subseteq Queued(txn.queue)
    BY <1>1, <1>6 DEF CleanQueued, Cleaning, Kept
  <2>2. CASE 1 \notin up
    <3>1. txn' = [txn EXCEPT !.targets = txn.targets \ {d}] /\ UNCHANGED files
      BY <1>6, <2>2 DEF CleanQueued
    <3>2. txn'.kind = "cleanup" /\ txn'.rows = txn.rows /\ txn'.queue = txn.queue
          /\ txn'.targets = txn.targets \ {d}
      BY <1>1, <1>3, <3>1 DEF TxnStates
    <3> QED
      BY <1>2, <2>1, <3>1, <3>2
  <2>3. CASE 1 \in up
    <3>1. /\ txn' = [txn EXCEPT !.targets = txn.targets \ {d},
                                !.queue = {entry \in txn.queue : entry.digest # d}]
          /\ files' = [files EXCEPT ![1][d] = NoFile]
      BY <1>6, <2>3 DEF CleanQueued
    <3>2. txn'.kind = "cleanup" /\ txn'.rows = txn.rows /\ txn'.targets = txn.targets \ {d}
          /\ txn'.queue = {entry \in txn.queue : entry.digest # d}
      BY <1>1, <1>3, <3>1 DEF TxnStates
    <3>3. \A x : x # d => (x \in Queued(txn.queue) <=> x \in Queued(txn'.queue))
      BY <3>2 DEF Queued
    <3>4. d \notin Queued(txn'.queue)
      BY <3>2 DEF Queued
    <3>5. /\ \A x \in Digests \ {d} : files'[1][x] = files[1][x]
          /\ \A x \in Digests : files'[2][x] = files[2][x]
      BY <1>1, <3>1, UnlinkedFile
    <3>6. ~ClaimsHot(txn.rows[d])
      BY <1>2, <2>1 DEF Backed
    <3>7. Backed(txn.rows, txn.queue, files)'
      BY <1>2, <3>2, <3>3, <3>4, <3>5, <3>6 DEF Backed
    <3> QED
      BY <2>1, <3>2, <3>3, <3>7
  <2> QED
    BY <2>2, <2>3
<1>7. ASSUME NEW d \in Digests, CleanPromoted(d) \/ CleanGarbage(d)
      PROVE  /\ txn'.kind = "cleanup" /\ Backed(txn.rows, txn.queue, files)'
             /\ \A x \in Digests : RowRefs(txn'.rows[x]) = RowRefs(txn.rows[x])
             /\ txn'.step = "pending" => txn'.targets \subseteq Queued(txn'.queue)
  <2>1. files' = [files EXCEPT ![2][d] = NoFile]
    BY <1>7 DEF CleanPromoted, CleanGarbage, UnlinkCold
  <2>2. /\ \A x \in Digests : files'[1][x] = files[1][x]
        /\ \A x \in Digests \ {d} : files'[2][x] = files[2][x]
    BY <1>1, <2>1, UnlinkedFile
  <2>3. PICK new, step : CleanedRow(d, new) /\ step \in {"promoted", "garbage"}
                   /\ txn' = [txn EXCEPT !.step = step, !.rows = [txn.rows EXCEPT ![d] = new]]
    BY <1>7, CleaningStep
  <2>4. /\ txn'.kind = "cleanup" /\ txn'.queue = txn.queue /\ txn'.rows[d] = new /\ txn'.step = step
        /\ \A x \in Digests \ {d} : txn'.rows[x] = txn.rows[x]
    BY <1>1, <1>3, <2>3 DEF TxnStates, Table
  <2>5. RowRefs(new) = RowRefs(txn.rows[d]) /\ ~ClaimsCold(new)
        /\ (ClaimsHot(new) => ClaimsHot(txn.rows[d]))
    BY <2>3, CleanedRowClaims
  <2>6. Backed(txn.rows, txn.queue, files)'
    BY <1>2, <2>2, <2>4, <2>5 DEF Backed
  <2> QED
    BY <2>3, <2>4, <2>5, <2>6
<1> QED
  BY <1>5, <1>6, <1>7

LEMMA NextKept == OfflineOutages /\ Typed /\ Kept /\ [Next]_vars => Kept'
<1> SUFFICES ASSUME OfflineOutages, Typed, Kept, [Next]_vars PROVE Kept'
  OBVIOUS
<1>1. CASE Begin("write", "begin", {}) \/ Begin("demote", "select", {})
  BY <1>1, BeginKept DEF TxnKinds, Steps
<1>2. CASE BeginCleanup
  <2>1. Queued(queue) \in SUBSET Digests
    BY DrainedTyped DEF Queued
  <2>2. drain = NoDrain
    BY <1>2 DEF BeginCleanup, Unmounted, OfflineOutages
  <2> QED
    BY <1>2, <2>1, <2>2, BeginKept DEF BeginCleanup, TxnKinds, Steps
<1>3. CASE Commit \/ Rollback
  BY <1>3, CommitKept, RollbackKept
<1>4. /\ ~Crash /\ \A d \in Digests : ~(CopyUpFile(d) \/ CopyUpProbe(d) \/ CopyUpCommit(d))
  BY DEF OfflineOutages, Kept, Crash, CopyUpFile, CopyUpProbe, CopyUpCommit
<1>5. CASE \E d \in Digests, e \in Encodings : Store(d, e)
  BY <1>5, StoreKept
<1>6. CASE \E d \in Digests : Drop(d)
  BY <1>6, DropKept
<1>7. CASE \E d \in Digests : SelectForDemotion(d) \/ CopyForDemotion(d) \/ UnlinkForDemotion(d)
  BY <1>7, DemotionKept
<1>8. CASE ReadQueue \/ RemoveQueued \/ \E entry \in drain.todo : UnlinkQueued(entry)
  BY <1>8, DrainKept
<1>9. CASE NextPhase \/ \E d \in Digests : CleanQueued(d) \/ CleanPromoted(d) \/ CleanGarbage(d)
  BY <1>9, CleanupKept
<1>10. Readers = {}
  BY DEF OfflineOutages
<1>11. CASE \E t \in Tiers : Outage(t)
  BY <1>11, OutageKept
<1>12. CASE UNCHANGED vars
  BY <1>12 DEF vars, Kept, DrainHarmless, Demotable
<1> QED
  BY <1>1, <1>2, <1>3, <1>4, <1>5, <1>6, <1>7, <1>8, <1>9, <1>10, <1>11, <1>12 DEF Next

LEMMA KeptInvariant == ASSUME OfflineOutages PROVE Spec => [](Typed /\ Kept)
<1>1. Init => Typed /\ Kept
  BY InitTyped, InitKept
<1>2. Typed /\ Kept /\ [Next]_vars => Typed' /\ Kept'
  BY NextTyped, NextKept
<1> QED
  BY <1>1, <1>2, PTL DEF Spec

\* A cleanup of the unmounted file system, whatever its limits and whatever tier is away,
\* takes no payload from a referenced block, in the middle of its transaction or after it
\* (_cleanup_promoted_cold_copies, _cleanup_cold_garbage beside demotions and drains).
THEOREM TieringCleanupKeepsPayload ==
  ASSUME OfflineOutages, OneEncoding PROVE Spec => []ReferencedPayloadSurvives
<1>1. Typed /\ Kept => ReferencedPayloadSurvives
  <2> SUFFICES ASSUME Typed, Kept, NEW d \in Digests, RowRefs(rows[d]) > 0
               PROVE  \E t \in Tiers : files[t][d] = rows[d].enc
    BY DEF ReferencedPayloadSurvives
  <2>1. rows[d] # NoRow /\ rows[d].enc \in Encodings
    BY RowsTyped DEF RowRefs, MaybeRow, Row
  <2>2. \A row \in MaybeRow : TieredRow(row) /\ RowRefs(row) > 0 => ClaimsHot(row) \/ ClaimsCold(row)
    BY DEF TieredRow, SoundRow, CheckConstraint, RowRefs, ClaimsHot, ClaimsCold, MaybeRow
  <2>3. files[1][d] # NoFile \/ files[2][d] # NoFile
    <3>1. CASE txn.kind \in {"none", "write"}
      <4>1. Backed(rows, queue, files)
        BY <3>1 DEF Kept
      <4> QED
        BY <2>2, <4>1, RowsTyped DEF Backed
    <3>2. CASE txn.kind \in {"demote", "cleanup"}
      <4>1. Backed(txn.rows, txn.queue, files) /\ RowRefs(txn.rows[d]) > 0
        BY <3>2 DEF Kept
      <4> QED
        BY <2>2, <4>1, RowsTyped DEF Backed
    <3> QED
      BY <3>1, <3>2, TypeParts DEF Typed, TxnStates, TxnKinds
  <2>4. files[1][d] = rows[d].enc \/ files[2][d] = rows[d].enc
    BY <2>1, <2>3, RowsTyped DEF OneEncoding
  <2> QED
    BY <2>4 DEF Tiers
<1> QED
  BY <1>1, KeptInvariant, PTL

\* Such a cleanup leaves every claim of a cold copy true (_cleanup_promoted_cold_copies
\* clears cold_present in the transaction that unlinks the copy).
THEOREM TieringCleanupKeepsIndex == ASSUME OfflineOutages PROVE Spec => []ColdIndexTruthful
<1>1. Typed /\ Kept => ColdIndexTruthful
  <2> SUFFICES ASSUME Typed, Kept, txn.kind # "cleanup", NEW d \in Digests, ClaimsCold(rows[d])
               PROVE  files[2][d] # NoFile
    BY DEF ColdIndexTruthful, ClaimsCold
  <2>1. CASE txn.kind \in {"none", "write"}
    BY <2>1 DEF Kept, Backed
  <2>2. CASE txn.kind = "demote"
    BY <2>2 DEF Kept, Demotable, Backed
  <2> QED
    BY <2>1, <2>2, TypeParts DEF Typed, TxnStates, TxnKinds
<1> QED
  BY <1>1, KeptInvariant, PTL
=============================================================================
