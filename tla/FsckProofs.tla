----------------------------- MODULE FsckProofs -----------------------------
(***************************************************************************)
(* Proofs about Fsck: the types, that no step deletes the last good file   *)
(* of a referenced tiered block or takes a claim to a cold copy while the  *)
(* cold tier is away, that two undisturbed runs repair everything, and     *)
(* that only an outage gets a run refused.                                 *)
(*                                                                         *)
(* The deletions of a run rest on rows that it read at its start.  What    *)
(* makes them safe is that a run never changes the kind of a block: a row  *)
(* there is now was there at the start, with the same kind (KindsKept).    *)
(***************************************************************************)
EXTENDS Fsck, BlockRowsProofs

\* The rows to return to are legal, so a rollback leads to legal rows.
SeenLegal == \A d \in Digests : run.seen[d] # NoRow => CheckConstraint(run.seen[d])

KindsKept ==
  \A d \in Digests : rows[d] # NoRow =>
    run.seen[d] # NoRow /\ rows[d].kind = run.seen[d].kind

\* Records are checked and scrubbed for rows there were at the start.
TodoSeen ==
  run.phase \in {"records", "scrub"} => \A d \in run.todo : run.seen[d] # NoRow

IInv == TypeOK /\ SeenLegal /\ KindsKept /\ TodoSeen

Runs == [phase : Phases, todo : SUBSET Digests, seen : [Digests -> Row \cup {NoRow}],
         disk : [Digests -> SUBSET Tiers], scrub : BOOLEAN, cold : BOOLEAN]

\* Deleting files leaves a table of files.
LEMMA WithoutFilesType ==
  ASSUME files \in [Tiers \X Digests -> Payloads], NEW d, NEW ts
  PROVE  WithoutFiles(d, ts) \in [Tiers \X Digests -> Payloads]
  BY DEF WithoutFiles, Payloads

\* A checked record is a row of the same kind, or deleted if nothing refers
\* to the block.
LEMMA CheckedRowSound ==
  ASSUME NEW d \in Digests, NEW seen \in Row, refs[d] \in Nat
  PROVE  /\ CheckedRow(seen, d) \in Row \cup {NoRow}
         /\ CheckedRow(seen, d) # NoRow => CheckedRow(seen, d).kind = seen.kind
<1> DEFINE hot == Present(1, d)
           cold == Present(2, d)
<1>0. hot \in BOOLEAN /\ cold \in BOOLEAN /\ PreferredAfterCheck(seen, d) \in 0 .. 2
  BY DEF Present, PreferredAfterCheck
<1>1. CheckedGarbage(seen, d) \in Row \cup {NoRow}
      /\ (CheckedGarbage(seen, d) # NoRow => CheckedGarbage(seen, d).kind = seen.kind)
  <2>1. CASE ~ColdUnavailable(seen, d) /\ ~Present(2, d)
    BY <2>1 DEF CheckedGarbage
  <2>2. CASE ~(~ColdUnavailable(seen, d) /\ ~Present(2, d))
    <3>1. CheckedGarbage(seen, d) = [[seen EXCEPT !.refs = 0] EXCEPT !.hot = hot]
      BY <2>2 DEF CheckedGarbage
    <3>2. PICK r1 \in Row : r1 = [seen EXCEPT !.refs = 0]
      BY RowUpdates
    <3>3. PICK r2 \in Row : r2 = [r1 EXCEPT !.hot = hot]
      BY <1>0, RowUpdates
    <3>4. r1.kind = seen.kind /\ r2.kind = r1.kind
      BY <3>2, <3>3 DEF Row
    <3> QED BY <3>1, <3>2, <3>3, <3>4
  <2> QED BY <2>1, <2>2
<1>2. CheckedTiered(seen, d) \in Row /\ CheckedTiered(seen, d).kind = seen.kind
  <2>1. PICK counted \in Row : counted = [seen EXCEPT !.refs = refs[d]]
    BY RowUpdates
  <2>2. counted.kind = seen.kind
    BY <2>1 DEF Row
  <2>3. PICK r2 \in Row : r2 = [counted EXCEPT !.hot = hot]
    BY <1>0, RowUpdates
  <2>4. PICK r3 \in Row : r3 = [r2 EXCEPT !.cold = cold]
    BY <1>0, RowUpdates
  <2>5. PICK r4 \in Row : r4 = [r3 EXCEPT !.pref = PreferredAfterCheck(seen, d)]
    BY <1>0, RowUpdates
  <2>6. r2.kind = counted.kind /\ r3.kind = r2.kind /\ r4.kind = r3.kind
    BY <2>3, <2>4, <2>5 DEF Row
  <2>7. CheckedTiered(seen, d) \in {counted, r2, r4}
    BY <2>1, <2>3, <2>4, <2>5 DEF CheckedTiered
  <2> QED BY <2>2, <2>6, <2>7
<1>3. \A n \in Nat : [seen EXCEPT !.refs = n] \in Row /\ [seen EXCEPT !.refs = n].kind = seen.kind
  BY DEF Row
<1>4. [seen EXCEPT !.refs = 0] \in Row /\ [seen EXCEPT !.refs = 0].kind = seen.kind
  BY <1>3
<1>5. [seen EXCEPT !.refs = refs[d]] \in Row /\ [seen EXCEPT !.refs = refs[d]].kind = seen.kind
  BY <1>3
<1>6. CheckedRow(seen, d) \in
        {CheckedGarbage(seen, d), [seen EXCEPT !.refs = 0], NoRow,
         [seen EXCEPT !.refs = refs[d]], CheckedTiered(seen, d)}
  BY DEF CheckedRow
<1> QED BY <1>1, <1>2, <1>4, <1>5, <1>6

\* Removing copies from a row leaves a row of the same kind.
LEMMA WithoutCopiesSound ==
  ASSUME NEW row \in Row, NEW bad \in SUBSET Tiers
  PROVE  WithoutCopies(row, bad) \in Row /\ WithoutCopies(row, bad).kind = row.kind
<1>1. PICK h \in BOOLEAN : h = (row.hot /\ 1 \notin bad)
  OBVIOUS
<1>2. PICK c \in BOOLEAN : c = (row.cold /\ 2 \notin bad)
  OBVIOUS
<1>3. PICK p \in 0 .. 2 : p = IF row.pref \in bad THEN Other(row.pref) ELSE row.pref
  BY DEF Row, Other, Tiers
<1>4. PICK r1 \in Row : r1 = [row EXCEPT !.hot = h]
  BY RowUpdates
<1>5. PICK r2 \in Row : r2 = [r1 EXCEPT !.cold = c]
  BY RowUpdates
<1>6. PICK r3 \in Row : r3 = [r2 EXCEPT !.pref = p]
  BY RowUpdates
<1>7. r1.kind = row.kind /\ r2.kind = r1.kind /\ r3.kind = r2.kind
  BY <1>4, <1>5, <1>6 DEF Row
<1>8. WithoutCopies(row, bad) = r3
  BY <1>1, <1>2, <1>3, <1>4, <1>5, <1>6 DEF WithoutCopies, Row
<1> QED BY <1>7, <1>8

\* A statement on one row, applied or refused, preserves the invariant.
LEMMA ApplyKeepsIInv ==
  ASSUME IInv, NEW d \in Digests, NEW row \in Row \cup {NoRow},
         row # NoRow => run.seen[d] # NoRow /\ row.kind = run.seen[d].kind,
         Apply(d, row), UNCHANGED <<refs, up, history>>,
         files' \in [Tiers \X Digests -> Payloads]
  PROVE  IInv'
<1> USE DEF IInv
<1>1. run \in Runs
  BY DEF TypeOK, Runs
<1>2. CASE Legal(row)
  <2>1. rows' = [rows EXCEPT ![d] = row] /\ run' = [run EXCEPT !.todo = @ \ {d}]
    BY <1>2 DEF Apply
  <2>2. /\ run'.phase = run.phase /\ run'.seen = run.seen
        /\ run'.todo \subseteq run.todo /\ run' \in Runs
    BY <1>1, <2>1 DEF Runs
  <2>3. \A e \in Digests : rows'[e] = IF e = d THEN row ELSE rows[e]
    BY <2>1 DEF TypeOK
  <2>4. TypeOK'
    <3>1. rows' \in [Digests -> Row \cup {NoRow}]
      BY <2>1 DEF TypeOK
    <3>2. \A e \in Digests : rows'[e] # NoRow => CheckConstraint(rows'[e])
      BY <1>2, <2>3 DEF TypeOK, Legal
    <3> QED BY <2>2, <3>1, <3>2 DEF TypeOK, Runs
  <2>5. SeenLegal' BY <2>2 DEF SeenLegal
  <2>6. KindsKept' BY <2>2, <2>3 DEF KindsKept
  <2>7. TodoSeen' BY <2>2 DEF TodoSeen
  <2> QED BY <2>4, <2>5, <2>6, <2>7
<1>3. CASE ~Legal(row)
  <2>1. rows' = run.seen /\ run' = [run EXCEPT !.phase = "refused", !.todo = {}]
    BY <1>3 DEF Apply
  <2>2. /\ run'.phase = "refused" /\ run'.seen = run.seen /\ run' \in Runs
    BY <1>1, <2>1 DEF Runs, Phases
  <2>3. TypeOK'
    <3>1. rows' \in [Digests -> Row \cup {NoRow}]
      BY <1>1, <2>1 DEF Runs
    <3>2. \A e \in Digests : rows'[e] # NoRow => CheckConstraint(rows'[e])
      BY <2>1 DEF SeenLegal
    <3> QED BY <2>2, <3>1, <3>2 DEF TypeOK, Runs
  <2>4. SeenLegal' /\ KindsKept' /\ TodoSeen'
    BY <2>1, <2>2 DEF SeenLegal, KindsKept, TodoSeen
  <2> QED BY <2>3, <2>4
<1> QED BY <1>2, <1>3

LEMMA InitIInv == Init => IInv
<1> SUFFICES ASSUME Init PROVE IInv
  OBVIOUS
<1>1. DamagedRows \subseteq Row \cup {NoRow}
  <2>1. 0 .. MaxRefs \subseteq Nat
    BY MaxRefsAssumption
  <2>2. \A row \in DamagedRows : row = NoRow \/
          row \in [refs : 0 .. MaxRefs, kind : Kinds, hot : BOOLEAN, cold : BOOLEAN,
                  pref : 0 .. 2, enc : Encodings, promoted : {FALSE}, garbage : BOOLEAN]
    BY DEF DamagedRows
  <2> QED BY <2>1, <2>2 DEF Row
<1>2. \A row \in DamagedRows : row # NoRow => CheckConstraint(row)
  BY DEF DamagedRows
<1>3. run \in Runs
  <2>1. rows \in [Digests -> Row \cup {NoRow}]
    BY <1>1 DEF Init
  <2> QED BY <2>1 DEF Init, Runs, Phases
<1>4. history \in [disturbed : BOOLEAN, clean : 0 .. 2]
  BY DEF Init
<1>5. TypeOK
  BY <1>1, <1>2, <1>3, <1>4 DEF Init, TypeOK, Runs
<1>6. run.seen = rows /\ run.phase = "idle"
  BY DEF Init
<1>7. SeenLegal
  BY <1>2, <1>6 DEF Init, SeenLegal
<1>8. KindsKept /\ TodoSeen
  BY <1>6 DEF KindsKept, TodoSeen
<1> QED BY <1>5, <1>7, <1>8 DEF IInv

LEMMA NextIInv == IInv /\ [Next]_vars => IInv'
<1> SUFFICES ASSUME IInv, [Next]_vars PROVE IInv'
  OBVIOUS
<1>0. /\ rows \in [Digests -> Row \cup {NoRow}]
      /\ run \in Runs
      /\ refs \in [Digests -> Nat]
      /\ files \in [Tiers \X Digests -> Payloads]
      /\ history \in [disturbed : BOOLEAN, clean : 0 .. 2]
  BY MaxRefsAssumption DEF IInv, TypeOK, Runs
<1>1. ASSUME NEW scrub \in BOOLEAN, NEW cold \in BOOLEAN, Begin(scrub, cold)
      PROVE  IInv'
  <2>1. run'.seen = rows /\ run'.phase = "records" /\ run' \in Runs
        /\ run'.todo = {d \in Digests : rows[d] # NoRow}
    BY <1>0, <1>1 DEF Begin, Runs, Phases
  <2>2. history' \in [disturbed : BOOLEAN, clean : 0 .. 2]
    BY <1>0, <1>1 DEF Begin
  <2>3. TypeOK'
    BY <1>1, <2>1, <2>2 DEF Begin, IInv, TypeOK, Runs
  <2>4. SeenLegal' /\ KindsKept' /\ TodoSeen'
    BY <1>1, <2>1 DEF Begin, IInv, TypeOK, SeenLegal, KindsKept, TodoSeen
  <2> QED BY <2>3, <2>4 DEF IInv
<1>2. ASSUME NEW d \in Digests, CheckRecord(d) PROVE IInv'
  <2> DEFINE row == CheckedRow(run.seen[d], d)
  <2>1. run.seen[d] \in Row
    BY <1>0, <1>2 DEF CheckRecord, IInv, TodoSeen, Runs
  <2>2. row \in Row \cup {NoRow} /\ (row # NoRow => row.kind = run.seen[d].kind)
    BY <1>0, <2>1, CheckedRowSound
  <2>3. files' \in [Tiers \X Digests -> Payloads]
    BY <1>0, <1>2, WithoutFilesType DEF CheckRecord
  <2>4. run.seen[d] # NoRow
    BY <2>1, NoRowIsNoRow
  <2>5. Apply(d, row) /\ UNCHANGED <<refs, up, history>>
    BY <1>2 DEF CheckRecord
  <2> QED BY <2>2, <2>3, <2>4, <2>5, ApplyKeepsIInv
<1>3. ASSUME NEW d \in Digests, CheckOrphan(d) PROVE IInv'
  <2>1. run' \in Runs /\ run'.phase = "orphans" /\ run'.seen = run.seen
    BY <1>0, <1>3 DEF CheckOrphan, Runs
  <2>2. files' \in [Tiers \X Digests -> Payloads]
    BY <1>0, <1>3, WithoutFilesType DEF CheckOrphan
  <2>3. TypeOK'
    BY <1>3, <2>1, <2>2 DEF CheckOrphan, IInv, TypeOK, Runs
  <2> QED BY <1>3, <2>1, <2>3 DEF CheckOrphan, IInv, SeenLegal, KindsKept, TodoSeen
<1>4. ASSUME NEW d \in Digests, Scrub(d) PROVE IInv'
  <2> DEFINE bad == IF run.seen[d].kind = "tiered" THEN BadCopies(d) ELSE {}
             row == IF rows[d] = NoRow THEN NoRow ELSE WithoutCopies(rows[d], bad)
  <2>1. bad \in SUBSET Tiers
    BY DEF BadCopies, ReadTiers
  <2>2. row \in Row \cup {NoRow} /\ (row # NoRow => rows[d] # NoRow /\ row.kind = rows[d].kind)
    <3>1. CASE rows[d] = NoRow
      BY <3>1
    <3>2. CASE rows[d] # NoRow
      <4>1. rows[d] \in Row
        BY <1>0, <3>2
      <4> QED BY <2>1, <3>2, <4>1, WithoutCopiesSound
    <3> QED BY <3>1, <3>2
  <2>3. row # NoRow => run.seen[d] # NoRow /\ row.kind = run.seen[d].kind
    BY <2>2 DEF IInv, KindsKept
  <2>4. files' \in [Tiers \X Digests -> Payloads]
    BY <1>0, <1>4, WithoutFilesType DEF Scrub
  <2>5. Apply(d, row) /\ UNCHANGED <<refs, up, history>>
    BY <1>4 DEF Scrub
  <2> HIDE DEF row
  <2> QED BY <2>2, <2>3, <2>4, <2>5, ApplyKeepsIInv
<1>5. CASE NextPhase
  <2>1. run' \in Runs /\ run'.seen = run.seen
        /\ run'.phase \in {"orphans", "scrub"}
        /\ (run'.phase = "scrub" => run'.todo = RecordsRead)
    <3>0. ASSUME NEW phase \in {"orphans", "scrub"}, NEW todo \in SUBSET Digests,
                 run' = [run EXCEPT !.phase = phase, !.todo = todo]
          PROVE  /\ run' \in Runs /\ run'.seen = run.seen
                 /\ run'.phase = phase /\ run'.todo = todo
      <4>1. phase \in Phases
        BY DEF Phases
      <4> QED BY <1>0, <3>0, <4>1 DEF Runs
    <3>1. CASE run.phase = "records"
      <4>1. run' = [run EXCEPT !.phase = "orphans", !.todo = {d \in Digests : run.disk[d] # {}}]
        BY <1>5, <3>1 DEF NextPhase
      <4>2. {d \in Digests : run.disk[d] # {}} \in SUBSET Digests
        OBVIOUS
      <4> HIDE DEF IInv
      <4> QED BY <3>0, <4>1, <4>2
    <3>2. CASE run.phase = "orphans"
      <4>1. RecordsRead \in SUBSET Digests
        BY DEF RecordsRead
      <4>2. run' = [run EXCEPT !.phase = "scrub", !.todo = RecordsRead]
        BY <1>5, <3>2 DEF NextPhase
      <4> QED BY <3>0, <4>1, <4>2
    <3>3. run.phase = "records" \/ run.phase = "orphans"
      BY <1>5 DEF NextPhase
    <3> QED BY <3>1, <3>2, <3>3
  <2>2. TypeOK'
    BY <1>5, <2>1 DEF NextPhase, IInv, TypeOK, Runs
  <2>3. TodoSeen'
    BY <2>1 DEF TodoSeen, RecordsRead
  <2> QED BY <1>5, <2>1, <2>2, <2>3 DEF NextPhase, IInv, SeenLegal, KindsKept
<1>6. CASE Commit
  <2>1. run' \in Runs /\ run'.seen = run.seen /\ run'.phase = "idle"
    BY <1>0, <1>6 DEF Commit, Runs, Phases
  <2>2. history' \in [disturbed : BOOLEAN, clean : 0 .. 2]
    BY <1>0, <1>6 DEF Commit
  <2>3. TypeOK'
    BY <1>6, <2>1, <2>2 DEF Commit, IInv, TypeOK, Runs
  <2> QED BY <1>6, <2>1, <2>3 DEF Commit, IInv, SeenLegal, KindsKept, TodoSeen
<1>7. CASE Kill
  <2>1. run' \in Runs /\ run'.seen = run.seen /\ run'.phase = "idle" /\ rows' = run.seen
    BY <1>0, <1>7 DEF Kill, Runs, Phases
  <2>2. history' \in [disturbed : BOOLEAN, clean : 0 .. 2]
    BY <1>0, <1>7 DEF Kill
  <2>3. TypeOK'
    BY <1>7, <2>1, <2>2 DEF Kill, IInv, TypeOK, SeenLegal, Runs
  <2> QED BY <2>1, <2>3 DEF IInv, SeenLegal, KindsKept, TodoSeen
<1>8. CASE Retry
  <2>1. run' \in Runs /\ run'.seen = run.seen /\ run'.phase = "idle"
    BY <1>0, <1>8 DEF Retry, Runs, Phases
  <2>2. history' \in [disturbed : BOOLEAN, clean : 0 .. 2]
    BY <1>0, <1>8 DEF Retry
  <2>3. TypeOK'
    BY <1>8, <2>1, <2>2 DEF Retry, IInv, TypeOK, Runs
  <2> QED BY <1>8, <2>1, <2>3 DEF Retry, IInv, SeenLegal, KindsKept, TodoSeen
<1>9. ASSUME NEW t \in Tiers, Outage(t) PROVE IInv'
  <2>1. history' \in [disturbed : BOOLEAN, clean : 0 .. 2] /\ up' \subseteq Tiers
    BY <1>0, <1>9 DEF Outage, IInv, TypeOK
  <2> QED BY <1>9, <2>1 DEF Outage, IInv, TypeOK, SeenLegal, KindsKept, TodoSeen
<1>10. CASE UNCHANGED vars
  BY <1>10 DEF vars, IInv, TypeOK, SeenLegal, KindsKept, TodoSeen
<1> QED
  BY <1>1, <1>2, <1>3, <1>4, <1>5, <1>6, <1>7, <1>8, <1>9, <1>10 DEF Next

\* The tables of rows and files and the state of a run keep their types, and
\* no statement leaves a row that breaks the CHECK constraint (checker.py).
THEOREM FsckTypeOK == Spec => []TypeOK
<1>1. IInv => TypeOK
  BY DEF IInv
<1> QED BY <1>1, InitIInv, NextIInv, PTL DEF Spec

(***************************************************************************)
(* The last good copy.                                                     *)
(***************************************************************************)
\* No step of the run takes a good file of a referenced tiered block, unless
\* a repair of the records found that nothing refers to the block.
LEMMA StepKeepsLastGood ==
  ASSUME IInv, [Next]_vars, NEW d \in Digests,
         refs[d] > 0, rows[d] # NoRow, rows[d].kind = "tiered"
  PROVE  Good(d) \subseteq Good(d)'
<1>1. run.seen[d] # NoRow /\ run.seen[d].kind = "tiered"
  BY DEF IInv, KindsKept
<1>2. \A e, ts : e # d => \A t \in Tiers : WithoutFiles(e, ts)[<<t, d>>] = files[<<t, d>>]
  BY DEF WithoutFiles
<1>3. ASSUME NEW e \in Digests, CheckRecord(e) PROVE Good(d) \subseteq Good(d)'
  <2>1. refs[d] \in Nat
    BY MaxRefsAssumption DEF IInv, TypeOK
  <2>2. ~Unreferenced(run.seen[d], d)
    BY <2>1 DEF Unreferenced
  <2>3. files' = files \/ (e # d /\ files' = WithoutFiles(e, Tiers))
    BY <1>3, <2>2 DEF CheckRecord
  <2> QED BY <1>2, <2>3 DEF Good
<1>4. ASSUME NEW e \in Digests, CheckOrphan(e) PROVE Good(d) \subseteq Good(d)'
  <2>1. ~Orphan(d)
    BY <1>1 DEF Orphan
  <2>2. files' = files \/ (e # d /\ files' = WithoutFiles(e, run.disk[e]))
    BY <1>4, <2>1 DEF CheckOrphan
  <2> QED BY <1>2, <2>2 DEF Good
<1>5. ASSUME NEW e \in Digests, Scrub(e) PROVE Good(d) \subseteq Good(d)'
  <2>1. PICK bad : bad \subseteq BadCopies(e) /\ files' = WithoutFiles(e, bad)
    BY <1>5 DEF Scrub
  <2>2. \A t \in Tiers : files[<<t, d>>] = "good" => files'[<<t, d>>] = "good"
    BY <2>1 DEF WithoutFiles, BadCopies
  <2> QED BY <2>2 DEF Good
<1>6. CASE files' = files
  BY <1>6 DEF Good
<1> QED
  BY <1>3, <1>4, <1>5, <1>6 DEF Next, Begin, NextPhase, Commit, Kill, Retry, Outage, vars

\* No repair of fsck or scrub deletes the last good file of a block that some
\* chunk refers to, for any digests, outages, kills and initial damage.
THEOREM FsckLastGoodCopyKept == Spec => LastGoodCopyKept
<1>1. IInv /\ [Next]_vars =>
        [\A d \in Digests :
           refs[d] > 0 /\ rows[d] # NoRow /\ rows[d].kind = "tiered" /\ Good(d) # {}
             => Good(d)' # {}]_vars
  <2> SUFFICES ASSUME IInv, [Next]_vars, NEW d \in Digests, refs[d] > 0, rows[d] # NoRow,
                      rows[d].kind = "tiered", Good(d) # {}
               PROVE  Good(d)' # {}
    OBVIOUS
  <2> QED BY StepKeepsLastGood
<1> QED BY <1>1, InitIInv, NextIInv, PTL DEF Spec, LastGoodCopyKept
(***************************************************************************)
(* What the runs repair.                                                   *)
(*                                                                         *)
(* A run that no outage disturbed leaves every digest Settled, whatever    *)
(* the rows and the files were: what is still wrong is a row or a hot file *)
(* that the next run removes.  A run of the same kind from there leaves    *)
(* every digest Consistent.  Repairing says how far a run has come: what   *)
(* holds of a digest whose record is still to be checked, and what holds   *)
(* once it is checked, until its files are looked at and its payloads      *)
(* scrubbed.                                                               *)
(***************************************************************************)
\* A record that is still to be checked is the one that was read.
RecordsUnread ==
  run.phase = "records" => \A d \in run.todo : rows[d] = run.seen[d]

Active == run.phase \in {"records", "orphans", "scrub"}

HasFile(d) == \E t \in Tiers : files[<<t, d>>] # "none"

\* One copy is good and the other is not: a scrub of both tiers removes it.
BadBesideGood(d) ==
  \E t \in Tiers : files[<<t, d>>] = "bad" /\ files[<<Other(t), d>>] = "good"

\* What one run cannot end by itself: a row kept as the index of a cold copy
\* that is not there, or that the scrub is about to remove.
Settled(d) ==
  rows[d] # NoRow /\ IsColdGarbage(rows[d], d) =>
    /\ files[<<2, d>>] # "none"
    /\ run.scrub /\ run.cold => ~BadBesideGood(d)

\* The columns of a checked row say what there is.
RowExact(d) ==
  LET row == rows[d]
  IN  row # NoRow =>
        /\ row.refs = refs[d]
        /\ row.kind = "inline" => refs[d] > 0
        /\ row.kind = "tiered" /\ ~HasFile(d) => refs[d] > 0
        /\ row.kind = "tiered" /\ HasFile(d) =>
             /\ row.hot = (files[<<1, d>>] # "none")
             /\ row.cold = (files[<<2, d>>] # "none")
             /\ refs[d] > 0 => files[<<row.pref, d>>] # "none"

\* The scrub has read the payloads of the digest.
Scrubbed(d) == run.phase = "scrub" /\ d \notin run.todo

\* A row that nothing refers to indexes a cold copy, or the scrub of a first
\* run has just removed that copy.
IndexExact(d) ==
  rows[d] # NoRow /\ rows[d].kind = "tiered" /\ refs[d] = 0 =>
    rows[d].garbage /\ (rows[d].cold \/ (Scrubbed(d) /\ history.clean = 0))

\* Files of no tiered row are gone, or the run still comes to them, or they
\* are left for the next one.
OrphansLeft(d) ==
  (rows[d] = NoRow \/ rows[d].kind = "inline") /\ HasFile(d) =>
    IF Orphan(d)
    THEN run.phase = "records" \/ (run.phase = "orphans" /\ d \in run.todo)
    ELSE rows[d] = NoRow /\ history.clean = 0

ScrubExact(d) ==
  rows[d] # NoRow /\ rows[d].kind = "tiered" /\ run.scrub /\ run.cold
    /\ (Scrubbed(d) \/ (refs[d] = 0 /\ history.clean > 0)) => ~BadBesideGood(d)

Checked(d) == RowExact(d) /\ IndexExact(d) /\ OrphansLeft(d) /\ ScrubExact(d)

\* The scan found every file there is.
Scanned(d) == \A t \in Tiers : files[<<t, d>>] # "none" => t \in run.disk[d]

Repairing(d) ==
  /\ Scanned(d)
  /\ IF run.phase = "records" /\ d \in run.todo
     THEN history.clean > 0 => Settled(d)
     ELSE Checked(d)

Undisturbed == Active /\ ~history.disturbed =>
                 up = Tiers /\ \A d \in Digests : Repairing(d)

Between == run.phase = "idle" =>
  \A d \in Digests : /\ history.clean > 0 => Settled(d)
                     /\ history.clean = 2 => Consistent(d)

\* Only a run that was asked to scrub does.
ScrubAsked == run.phase = "scrub" => run.scrub

RInv ==
  IInv /\ RecordsUnread /\ ScrubAsked /\ Undisturbed /\ Between /\ RefusedOnlyInOutage

\* With both tiers there a checked record is legal, its columns say what there
\* is, and a deleted one was unused or indexed a cold copy that is gone.
LEMMA CheckedRowExact ==
  ASSUME NEW d \in Digests, NEW seen \in Row, CheckConstraint(seen), up = Tiers,
         refs[d] \in Nat
  PROVE  /\ Legal(CheckedRow(seen, d))
         /\ CheckedRow(seen, d) # NoRow =>
              LET row == CheckedRow(seen, d)
              IN  /\ ~Unreferenced(seen, d)
                  /\ row.kind = seen.kind
                  /\ row.refs = refs[d]
                  /\ row.kind = "inline" => refs[d] > 0
                  /\ row.kind = "tiered" /\ ~HasFile(d) => refs[d] > 0
                  /\ row.kind = "tiered" /\ HasFile(d) =>
                       /\ row.hot = (files[<<1, d>>] # "none")
                       /\ row.cold = (files[<<2, d>>] # "none")
                       /\ refs[d] > 0 => files[<<row.pref, d>>] # "none"
                  /\ row.kind = "tiered" /\ refs[d] = 0 => row.garbage /\ row.cold
         /\ CheckedRow(seen, d) = NoRow /\ ~Unreferenced(seen, d) =>
              IsColdGarbage(seen, d) /\ files[<<2, d>>] = "none"
<1> DEFINE hot == Present(1, d)
           cold == Present(2, d)
           pref == PreferredAfterCheck(seen, d)
<1>1. /\ hot = (files[<<1, d>>] # "none") /\ cold = (files[<<2, d>>] # "none")
      /\ hot \in BOOLEAN /\ cold \in BOOLEAN /\ pref \in 0 .. 2
  BY DEF Present, PreferredAfterCheck, Tiers
<1>2. ~ColdUnavailable(seen, d)
  BY DEF ColdUnavailable, Tiers
<1>3. HasFile(d) <=> hot \/ cold
  BY <1>1 DEF HasFile, Tiers
<1>4. CASE IsColdGarbage(seen, d)
  <2>1. /\ refs[d] = 0 /\ seen.kind = "tiered" /\ seen.cold /\ seen.garbage
        /\ ~Unreferenced(seen, d) /\ CheckedRow(seen, d) = CheckedGarbage(seen, d)
    BY <1>4 DEF IsColdGarbage, Unreferenced, CheckedRow
  <2>2. CASE ~cold
    BY <1>1, <1>2, <1>4, <2>1, <2>2 DEF CheckedGarbage, Legal
  <2>3. CASE cold
    <3>1. PICK r1 \in Row : r1 = [seen EXCEPT !.refs = 0]
      BY RowUpdates
    <3>2. PICK r2 \in Row : r2 = [r1 EXCEPT !.hot = hot]
      BY <1>1, RowUpdates
    <3>3. CheckedRow(seen, d) = r2
      BY <1>2, <2>1, <2>3, <3>1, <3>2 DEF CheckedGarbage
    <3>4. /\ r2.refs = 0 /\ r2.kind = "tiered" /\ r2.cold = TRUE /\ r2.garbage
          /\ r2.pref = seen.pref /\ r2.hot = hot
      BY <2>1, <3>1, <3>2 DEF Row
    <3>5. CheckConstraint(r2)
      BY <2>1, <3>4 DEF CheckConstraint
    <3>6. Legal(r2) /\ r2.kind = seen.kind /\ r2.refs = refs[d]
      BY <2>1, <3>4, <3>5 DEF Legal
    <3> HIDE DEF hot, cold
    <3>7. /\ r2.hot = (files[<<1, d>>] # "none")
          /\ r2.cold = (files[<<2, d>>] # "none")
      BY <1>1, <2>3, <3>4
    <3>8. HasFile(d) /\ ~(refs[d] > 0) /\ r2.kind # "inline" /\ r2 # NoRow
      BY <1>3, <2>1, <2>3, <3>4, NoRowIsNoRow
    <3> QED BY <2>1, <3>3, <3>4, <3>6, <3>7, <3>8
  <2> QED BY <2>2, <2>3
<1>5. CASE Unreferenced(seen, d)
  <2>1. CheckedRow(seen, d) = NoRow
    BY <1>2, <1>5 DEF CheckedRow, Unreferenced
  <2> QED BY <1>5, <2>1 DEF Legal
<1>6. CASE ~IsColdGarbage(seen, d) /\ ~Unreferenced(seen, d)
  <2>1. refs[d] > 0
    BY <1>6 DEF Unreferenced
  <2>2. PICK r1 \in Row : r1 = [seen EXCEPT !.refs = refs[d]]
    BY RowUpdates
  <2>3. /\ r1.refs = refs[d] /\ r1.kind = seen.kind /\ r1.hot = seen.hot
        /\ r1.cold = seen.cold /\ r1.pref = seen.pref
    BY <2>2 DEF Row
  <2>4. r1 # NoRow /\ CheckConstraint(r1)
    BY <2>2, <2>3, NoRowIsNoRow DEF CheckConstraint
  <2>5. CASE seen.kind = "inline"
    <3>1. CheckedRow(seen, d) = r1
      BY <1>6, <2>2, <2>5 DEF CheckedRow
    <3> QED BY <1>6, <2>1, <2>3, <2>4, <2>5, <3>1 DEF Legal
  <2>6. CASE seen.kind = "tiered"
    <3>1. CheckedRow(seen, d) = CheckedTiered(seen, d)
      BY <1>6, <2>6 DEF CheckedRow
    <3>2. CASE ~hot /\ ~cold
      <4>1. CheckedTiered(seen, d) = r1
        BY <1>2, <2>2, <3>2 DEF CheckedTiered
      <4> QED BY <1>3, <1>6, <2>1, <2>3, <2>4, <2>6, <3>1, <3>2, <4>1 DEF Legal
    <3>3. CASE hot \/ cold
      <4>1. PICK r2 \in Row : r2 = [r1 EXCEPT !.hot = hot]
        BY <1>1, RowUpdates
      <4>2. PICK r3 \in Row : r3 = [r2 EXCEPT !.cold = cold]
        BY <1>1, RowUpdates
      <4>3. PICK r4 \in Row : r4 = [r3 EXCEPT !.pref = pref]
        BY <1>1, RowUpdates
      <4>4. CheckedTiered(seen, d) = r4
        BY <1>2, <2>2, <3>3, <4>1, <4>2, <4>3 DEF CheckedTiered
      <4>5. /\ r4.refs = refs[d] /\ r4.kind = "tiered" /\ r4.hot = hot
            /\ r4.cold = cold /\ r4.pref = pref
        BY <2>3, <2>6, <4>1, <4>2, <4>3 DEF Row
      <4>6. pref \in Tiers /\ (pref = 1 => hot) /\ (pref = 2 => cold)
        BY <3>3 DEF PreferredAfterCheck, Tiers
      <4>7. r4 # NoRow /\ CheckConstraint(r4)
        BY <3>3, <4>3, <4>5, <4>6, NoRowIsNoRow DEF CheckConstraint
      <4>8. files[<<r4.pref, d>>] # "none"
        BY <1>1, <4>5, <4>6 DEF Tiers
      <4> QED BY <1>1, <1>6, <2>1, <2>6, <3>1, <4>4, <4>5, <4>7, <4>8 DEF Legal
    <3> QED BY <3>2, <3>3
  <2> QED BY <2>5, <2>6 DEF Row, Kinds
<1> QED BY <1>4, <1>5, <1>6


\* The repair of one digest leaves what is known of the others.
LEMMA OtherDigestKept ==
  ASSUME IInv, NEW d \in Digests, Repairing(d), rows'[d] = rows[d], UNCHANGED <<refs, history>>,
         \A t \in Tiers : files'[<<t, d>>] = files[<<t, d>>],
         run'.phase = run.phase, run'.seen = run.seen, run'.disk = run.disk,
         run'.scrub = run.scrub, run'.cold = run.cold, d \in run'.todo <=> d \in run.todo
  PROVE  Repairing(d)'
<1>1. HasFile(d)' = HasFile(d) /\ BadBesideGood(d)' = BadBesideGood(d)
  BY DEF HasFile, BadBesideGood, Tiers, Other
<1>2. Scanned(d)' = Scanned(d) /\ Settled(d)' = Settled(d)
  BY <1>1 DEF Scanned, Settled, IsColdGarbage, Tiers
<1>3. \A t \in 1 .. 2 : files'[<<t, d>>] = files[<<t, d>>]
  BY DEF Tiers
<1>4. RowExact(d) => RowExact(d)'
  <2>1. rows[d] # NoRow /\ rows[d].kind = "tiered" => rows[d].pref \in Tiers
    BY DEF IInv, TypeOK, CheckConstraint
  <2> QED BY <1>1, <1>3, <2>1 DEF RowExact, Tiers
<1>5. /\ IndexExact(d) => IndexExact(d)'
      /\ OrphansLeft(d) => OrphansLeft(d)'
      /\ ScrubExact(d) => ScrubExact(d)'
  BY <1>1 DEF IndexExact, OrphansLeft, ScrubExact, Scrubbed, Orphan
<1> QED BY <1>2, <1>4, <1>5 DEF Repairing, Checked

LEMMA FilesGone ==
  ASSUME NEW d, NEW ts
  PROVE  \A t \in Tiers : \A e \in Digests :
           WithoutFiles(d, ts)[<<t, e>>] =
             IF e = d /\ t \in ts \cap up THEN "none" ELSE files[<<t, e>>]
  BY DEF WithoutFiles

\* An undisturbed check of a record is not refused, and repairs its digest.
LEMMA CheckRecordRepairs ==
  ASSUME RInv, Active, ~history.disturbed, NEW d \in Digests, CheckRecord(d)
  PROVE  /\ run'.phase = "records"
         /\ \A e \in Digests : Repairing(e)'
<1> DEFINE seen == run.seen[d]
           row == CheckedRow(seen, d)
<1>1. /\ run \in Runs /\ rows \in [Digests -> Row \cup {NoRow}]
      /\ refs[d] \in Nat /\ files \in [Tiers \X Digests -> Payloads]
  BY MaxRefsAssumption DEF RInv, IInv, TypeOK, Runs
<1>2. run.phase = "records" /\ d \in run.todo /\ Apply(d, row) /\ UNCHANGED <<refs, up, history>>
  BY DEF CheckRecord
<1>3. /\ seen \in Row /\ seen # NoRow /\ CheckConstraint(seen) /\ rows[d] = seen
      /\ up = Tiers /\ Repairing(d) /\ \A e \in Digests : Repairing(e)
  BY <1>1, <1>2, NoRowIsNoRow
     DEF RInv, IInv, TodoSeen, SeenLegal, RecordsUnread, Undisturbed, Runs
<1>4. Legal(row)
  BY <1>1, <1>3, CheckedRowExact
<1>5. rows' = [rows EXCEPT ![d] = row] /\ run' = [run EXCEPT !.todo = @ \ {d}]
  BY <1>2, <1>4 DEF Apply
<1>6. /\ run'.phase = "records" /\ run'.seen = run.seen /\ run'.disk = run.disk
      /\ run'.scrub = run.scrub /\ run'.cold = run.cold /\ run'.todo = run.todo \ {d}
  BY <1>1, <1>2, <1>5 DEF Runs
<1>7. rows'[d] = row /\ \A e \in Digests : e # d => rows'[e] = rows[e]
  BY <1>1, <1>5
<1>8. \/ Unreferenced(seen, d) /\ row = NoRow /\ \A t \in Tiers : files'[<<t, d>>] = "none"
      \/ ~(Unreferenced(seen, d) /\ row = NoRow) /\ files' = files
  BY <1>3, FilesGone DEF CheckRecord
<1>9. ASSUME NEW e \in Digests, e # d PROVE Repairing(e)'
  <2>1. \A t \in Tiers : files'[<<t, e>>] = files[<<t, e>>]
    BY <1>9, FilesGone DEF CheckRecord
  <2>2. Repairing(e) /\ rows'[e] = rows[e] /\ (e \in run'.todo <=> e \in run.todo)
    BY <1>3, <1>6, <1>7, <1>9
  <2>3. UNCHANGED <<refs, history>> /\ run'.phase = run.phase /\ IInv
    BY <1>2, <1>6 DEF RInv
  <2> QED BY <1>6, <2>1, <2>2, <2>3, OtherDigestKept
<1>10. Repairing(d)'
  <2>1. Scanned(d) /\ (history.clean > 0 => Settled(d))
    BY <1>2, <1>3 DEF Repairing
  <2>2. Scanned(d)'
    BY <1>6, <1>8, <2>1 DEF Scanned
  <2>3. CASE row = NoRow
    <3>1. RowExact(d)' /\ IndexExact(d)' /\ ScrubExact(d)'
      BY <1>7, <2>3 DEF RowExact, IndexExact, ScrubExact
    <3>2. OrphansLeft(d)'
      <4>1. CASE Unreferenced(seen, d)
        <5>1. ~HasFile(d)'
          BY <1>8, <2>3, <4>1 DEF HasFile
        <5> QED BY <5>1 DEF OrphansLeft
      <4>2. CASE ~Unreferenced(seen, d)
        <5>1. IsColdGarbage(seen, d) /\ files[<<2, d>>] = "none"
          BY <1>1, <1>3, <2>3, <4>2, CheckedRowExact
        <5>2. ~(history.clean > 0)
          BY <1>3, <2>1, <5>1 DEF Settled
        <5>3. history.clean \in 0 .. 2
          BY DEF RInv, IInv, TypeOK
        <5>4. history'.clean = 0
          BY <1>2, <5>2, <5>3
        <5>5. run'.phase = "records"
          BY <1>6
        <5> QED BY <1>7, <2>3, <5>4, <5>5 DEF OrphansLeft
      <4> QED BY <4>1, <4>2
    <3> QED BY <1>6, <2>2, <3>1, <3>2 DEF Repairing, Checked
  <2>4. CASE row # NoRow
    <3>1. /\ row.kind = seen.kind /\ row.refs = refs[d]
          /\ row.kind = "inline" => refs[d] > 0
          /\ row.kind = "tiered" /\ ~HasFile(d) => refs[d] > 0
          /\ row.kind = "tiered" /\ HasFile(d) =>
               /\ row.hot = (files[<<1, d>>] # "none")
               /\ row.cold = (files[<<2, d>>] # "none")
               /\ refs[d] > 0 => files[<<row.pref, d>>] # "none"
          /\ row.kind = "tiered" /\ refs[d] = 0 => row.garbage /\ row.cold
          /\ ~Unreferenced(seen, d)
      BY <1>1, <1>3, <2>4, CheckedRowExact
    <3> HIDE DEF row, seen
    <3>2. files' = files /\ refs' = refs /\ history' = history
      BY <1>2, <1>8, <2>4
    <3>3. HasFile(d)' = HasFile(d) /\ BadBesideGood(d)' = BadBesideGood(d)
      BY <3>2 DEF HasFile, BadBesideGood
    <3>4. RowExact(d)'
      BY <1>7, <3>1, <3>2, <3>3 DEF RowExact
    <3>5. IndexExact(d)'
      BY <1>7, <3>1, <3>2 DEF IndexExact
    <3>6. OrphansLeft(d)'
      <4>1. CASE seen.kind = "tiered"
        <5>1. rows'[d] # NoRow /\ rows'[d].kind # "inline"
          BY <1>7, <2>4, <3>1, <4>1
        <5> QED BY <5>1 DEF OrphansLeft
      <4>2. CASE seen.kind # "tiered"
        <5>1. Orphan(d)'
          BY <1>6, <4>2 DEF Orphan, seen
        <5> QED BY <1>6, <5>1 DEF OrphansLeft
      <4> QED BY <4>1, <4>2
    <3>7. ScrubExact(d)'
      <4>1. ~Scrubbed(d)'
        BY <1>6 DEF Scrubbed
      <4>2. CASE refs[d] = 0 /\ history.clean > 0 /\ row.kind = "tiered" /\ run.scrub /\ run.cold
        <5>1. IsColdGarbage(seen, d)
          BY <3>1, <4>2 DEF Unreferenced
        <5>2. ~BadBesideGood(d)
          BY <1>3, <2>1, <4>2, <5>1 DEF Settled, seen
        <5> QED BY <3>3, <5>2 DEF ScrubExact
      <4> QED BY <1>6, <1>7, <3>2, <4>1, <4>2 DEF ScrubExact
    <3> QED BY <1>6, <2>2, <3>4, <3>5, <3>6, <3>7 DEF Repairing, Checked
  <2> QED BY <2>3, <2>4
<1> QED BY <1>6, <1>9, <1>10

\* An undisturbed look at the files of a digest leaves none without a row.
LEMMA CheckOrphanRepairs ==
  ASSUME RInv, Active, ~history.disturbed, NEW d \in Digests, CheckOrphan(d)
  PROVE  /\ run'.phase = "orphans"
         /\ \A e \in Digests : Repairing(e)'
<1>1. run \in Runs
  BY DEF RInv, IInv, TypeOK, Runs
<1>2. /\ run.phase = "orphans" /\ d \in run.todo /\ UNCHANGED <<rows, refs, up, history>>
      /\ run' = [run EXCEPT !.todo = @ \ {d}]
  BY DEF CheckOrphan
<1>3. /\ run'.phase = "orphans" /\ run'.seen = run.seen /\ run'.disk = run.disk
      /\ run'.scrub = run.scrub /\ run'.cold = run.cold /\ run'.todo = run.todo \ {d}
  BY <1>1, <1>2 DEF Runs
<1>4. up = Tiers /\ \A e \in Digests : Repairing(e)
  BY DEF RInv, Undisturbed
<1>5. ASSUME NEW e \in Digests, e # d PROVE Repairing(e)'
  <2>1. \A t \in Tiers : files'[<<t, e>>] = files[<<t, e>>]
    BY <1>5 DEF CheckOrphan, WithoutFiles
  <2>2. Repairing(e) /\ rows'[e] = rows[e] /\ (e \in run'.todo <=> e \in run.todo)
    BY <1>2, <1>3, <1>4, <1>5
  <2>3. UNCHANGED <<refs, history>> /\ run'.phase = run.phase /\ IInv
    BY <1>2, <1>3 DEF RInv
  <2> QED BY <1>3, <2>1, <2>2, <2>3, OtherDigestKept
<1>6. Repairing(d)'
  <2>1. Scanned(d) /\ Checked(d)
    BY <1>2, <1>4 DEF Repairing
  <2>2. CASE Orphan(d)
    <3>1. \A t \in Tiers : files'[<<t, d>>] = "none"
      <4> SUFFICES ASSUME NEW t \in Tiers PROVE files'[<<t, d>>] = "none"
        OBVIOUS
      <4>1. files'[<<t, d>>] = IF t \in run.disk[d] \cap up THEN "none" ELSE files[<<t, d>>]
        BY <2>2 DEF CheckOrphan, WithoutFiles
      <4>2. files[<<t, d>>] = "none" \/ t \in run.disk[d] \cap up
        BY <1>4, <2>1 DEF Scanned
      <4> QED BY <4>1, <4>2
    <3>2. ~HasFile(d)' /\ ~BadBesideGood(d)'
      BY <3>1 DEF HasFile, BadBesideGood
    <3>3. rows[d] = NoRow \/ rows[d].kind # "tiered"
      BY <2>2 DEF Orphan, RInv, IInv, KindsKept
    <3>4. Scanned(d)'
      BY <3>1 DEF Scanned
    <3>5. RowExact(d)'
      BY <1>2, <2>1, <3>3 DEF Checked, RowExact
    <3>6. IndexExact(d)' /\ OrphansLeft(d)' /\ ScrubExact(d)'
      BY <1>2, <3>2, <3>3 DEF IndexExact, OrphansLeft, ScrubExact
    <3> QED BY <1>3, <3>4, <3>5, <3>6 DEF Repairing, Checked
  <2>3. CASE ~Orphan(d)
    <3>1. files' = files
      BY <2>3 DEF CheckOrphan
    <3>2. HasFile(d)' = HasFile(d) /\ BadBesideGood(d)' = BadBesideGood(d) /\ Orphan(d)' = Orphan(d)
      BY <1>3, <3>1 DEF HasFile, BadBesideGood, Orphan
    <3>3. Scanned(d)' /\ RowExact(d)'
      BY <1>2, <1>3, <2>1, <3>1, <3>2 DEF Scanned, Checked, RowExact
    <3>4. IndexExact(d)' /\ ScrubExact(d)'
      BY <1>2, <1>3, <2>1, <3>2 DEF Checked, IndexExact, ScrubExact, Scrubbed
    <3>5. OrphansLeft(d)'
      BY <1>2, <2>1, <2>3, <3>2 DEF Checked, OrphansLeft
    <3> QED BY <1>3, <3>3, <3>4, <3>5 DEF Repairing, Checked
  <2> QED BY <2>2, <2>3
<1> QED BY <1>3, <1>5, <1>6

\* From one phase to the next, what is known of each digest suffices.
LEMMA NextPhaseRepairs ==
  ASSUME RInv, Active, ~history.disturbed, NextPhase
  PROVE  /\ run'.phase \in {"orphans", "scrub"}
         /\ \A e \in Digests : Repairing(e)'
<1>1. run \in Runs
  BY DEF RInv, IInv, TypeOK, Runs
<1>2. run.todo = {} /\ UNCHANGED <<rows, refs, files, up, history>>
  BY DEF NextPhase
<1>3. \A e \in Digests : Scanned(e) /\ Checked(e)
  BY <1>2 DEF RInv, Undisturbed, Repairing
<1>4. \A e \in Digests : HasFile(e)' = HasFile(e) /\ BadBesideGood(e)' = BadBesideGood(e)
  BY <1>2 DEF HasFile, BadBesideGood
<1>5. CASE run.phase = "records"
  <2>1. run' = [run EXCEPT !.phase = "orphans", !.todo = {e \in Digests : run.disk[e] # {}}]
    BY <1>5 DEF NextPhase
  <2>2. /\ run'.phase = "orphans" /\ run'.seen = run.seen /\ run'.disk = run.disk
        /\ run'.scrub = run.scrub /\ run'.cold = run.cold
        /\ run'.todo = {e \in Digests : run.disk[e] # {}}
    BY <1>1, <2>1 DEF Runs
  <2>3. ASSUME NEW e \in Digests PROVE Repairing(e)'
    <3>1. Scanned(e)' /\ RowExact(e)' /\ IndexExact(e)'
      BY <1>2, <1>3, <1>4, <1>5, <2>2 DEF Scanned, Checked, RowExact, IndexExact, Scrubbed
    <3>2. ScrubExact(e)'
      BY <1>2, <1>3, <1>4, <2>2 DEF Checked, ScrubExact, Scrubbed
    <3>3. OrphansLeft(e)'
      <4>1. HasFile(e) => e \in run'.todo
        BY <1>3, <2>2 DEF HasFile, Scanned
      <4>2. Orphan(e)' = Orphan(e)
        BY <2>2 DEF Orphan
      <4> QED BY <1>2, <1>3, <1>4, <2>2, <4>1, <4>2 DEF Checked, OrphansLeft
    <3> QED BY <2>2, <3>1, <3>2, <3>3 DEF Repairing, Checked
  <2> QED BY <2>2, <2>3
<1>6. CASE run.phase = "orphans"
  <2>1. run' = [run EXCEPT !.phase = "scrub", !.todo = RecordsRead]
    BY <1>6 DEF NextPhase
  <2>2. /\ run'.phase = "scrub" /\ run'.seen = run.seen /\ run'.disk = run.disk
        /\ run'.scrub = run.scrub /\ run'.cold = run.cold /\ run'.todo = RecordsRead
    BY <1>1, <2>1 DEF Runs
  <2>3. ASSUME NEW e \in Digests PROVE Repairing(e)'
    <3>1. rows[e] # NoRow => ~Scrubbed(e)'
      BY <2>2 DEF Scrubbed, RecordsRead, RInv, IInv, KindsKept
    <3>2. Scanned(e)' /\ RowExact(e)' /\ IndexExact(e)'
      BY <1>2, <1>3, <1>4, <1>6, <2>2, <3>1 DEF Scanned, Checked, RowExact, IndexExact, Scrubbed
    <3>3. ScrubExact(e)'
      BY <1>2, <1>3, <1>4, <2>2, <3>1 DEF Checked, ScrubExact
    <3>4. OrphansLeft(e)'
      <4>1. Orphan(e)' = Orphan(e)
        BY <2>2 DEF Orphan
      <4> QED BY <1>2, <1>3, <1>4, <1>6, <4>1 DEF Checked, OrphansLeft
    <3> QED BY <2>2, <3>2, <3>3, <3>4 DEF Repairing, Checked
  <2> QED BY <2>2, <2>3
<1> QED BY <1>5, <1>6 DEF NextPhase

\* What the removal of copies leaves of a row.
LEMMA WithoutCopiesColumns ==
  ASSUME NEW row \in Row, NEW bad \in SUBSET Tiers
  PROVE  LET new == WithoutCopies(row, bad)
         IN  /\ new.refs = row.refs /\ new.kind = row.kind /\ new.garbage = row.garbage
             /\ new.hot = (row.hot /\ 1 \notin bad)
             /\ new.cold = (row.cold /\ 2 \notin bad)
             /\ new.pref = IF row.pref \in bad THEN Other(row.pref) ELSE row.pref
<1>1. PICK h \in BOOLEAN : h = (row.hot /\ 1 \notin bad)
  OBVIOUS
<1>2. PICK c \in BOOLEAN : c = (row.cold /\ 2 \notin bad)
  OBVIOUS
<1>3. PICK p \in 0 .. 2 : p = IF row.pref \in bad THEN Other(row.pref) ELSE row.pref
  BY DEF Row, Other, Tiers
<1>4. WithoutCopies(row, bad) = [row EXCEPT !.hot = h, !.cold = c, !.pref = p]
  BY <1>1, <1>2, <1>3 DEF WithoutCopies, Row
<1>5. LET new == [row EXCEPT !.hot = h, !.cold = c, !.pref = p]
      IN  /\ new.refs = row.refs /\ new.kind = row.kind /\ new.garbage = row.garbage
          /\ new.hot = h /\ new.cold = c /\ new.pref = p
  BY DEF Row
<1> QED BY <1>1, <1>2, <1>3, <1>4, <1>5

\* An undisturbed scrub of a digest is not refused, and leaves no bad copy
\* beside a good one that it has read.
LEMMA ScrubRepairs ==
  ASSUME RInv, Active, ~history.disturbed, NEW d \in Digests, Scrub(d)
  PROVE  /\ run'.phase = "scrub"
         /\ \A e \in Digests : Repairing(e)'
<1> DEFINE bad == IF run.seen[d].kind = "tiered" THEN BadCopies(d) ELSE {}
           row == IF rows[d] = NoRow THEN NoRow ELSE WithoutCopies(rows[d], bad)
<1>1. /\ run \in Runs /\ rows \in [Digests -> Row \cup {NoRow}]
      /\ refs[d] \in Nat /\ files \in [Tiers \X Digests -> Payloads]
  BY MaxRefsAssumption DEF RInv, IInv, TypeOK, Runs
<1>2. /\ run.phase = "scrub" /\ d \in run.todo /\ Apply(d, row)
      /\ files' = WithoutFiles(d, bad) /\ UNCHANGED <<refs, up, history>>
  BY DEF Scrub
<1>3. up = Tiers /\ Repairing(d) /\ \A e \in Digests : Repairing(e)
  BY DEF RInv, Undisturbed
<1>4. /\ bad \in SUBSET Tiers
      /\ \A t \in Tiers : t \in bad => files[<<t, d>>] = "bad" /\ files[<<Other(t), d>>] = "good"
      /\ bad = {} /\ run.cold /\ run.seen[d].kind = "tiered" => ~BadBesideGood(d)
  BY <1>3 DEF BadCopies, ReadTiers, BadBesideGood, Present, Other, Tiers
<1>5. Scanned(d) /\ RowExact(d) /\ IndexExact(d) /\ OrphansLeft(d) /\ ScrubExact(d)
  BY <1>2, <1>3 DEF Repairing, Checked
<1>6. \A t \in Tiers : files'[<<t, d>>] = IF t \in bad THEN "none" ELSE files[<<t, d>>]
  BY <1>2, <1>3 DEF WithoutFiles
<1>7. rows[d] # NoRow => rows[d] \in Row /\ CheckConstraint(rows[d])
                         /\ run.seen[d] # NoRow /\ rows[d].kind = run.seen[d].kind
  BY <1>1 DEF RInv, IInv, TypeOK, KindsKept
<1> HIDE DEF bad
<1>8. ASSUME rows[d] # NoRow
      PROVE  /\ row.refs = rows[d].refs /\ row.kind = rows[d].kind /\ row.garbage = rows[d].garbage
             /\ row.hot = (rows[d].hot /\ 1 \notin bad)
             /\ row.cold = (rows[d].cold /\ 2 \notin bad)
             /\ row.pref = IF rows[d].pref \in bad THEN Other(rows[d].pref) ELSE rows[d].pref
             /\ row \in Row /\ row # NoRow
  BY <1>4, <1>7, <1>8, WithoutCopiesColumns, WithoutCopiesSound, NoRowIsNoRow
<1> HIDE DEF row
\* A copy is removed beside another one only, and the row claims both.
<1>9. ASSUME rows[d] # NoRow, bad # {}
      PROVE  /\ rows[d].kind = "tiered" /\ rows[d].hot /\ rows[d].cold
             /\ rows[d].pref \in Tiers /\ HasFile(d)
             /\ bad = {1} \/ bad = {2}
  <2>1. PICK t \in Tiers : t \in bad
    BY <1>4, <1>9
  <2>2. files[<<t, d>>] = "bad" /\ files[<<Other(t), d>>] = "good" /\ Other(t) \notin bad
    BY <1>4, <2>1 DEF Other, Tiers
  <2>3. HasFile(d) /\ files[<<1, d>>] # "none" /\ files[<<2, d>>] # "none"
        /\ (bad = {1} \/ bad = {2})
    <3>1. (t = 1 \/ t = 2) /\ Other(1) = 2 /\ Other(2) = 1
      BY DEF Other, Tiers
    <3>2. \A s \in {1, 2} : s \in bad => s = t
      BY <2>1, <2>2, <3>1
    <3>3. bad \subseteq {1, 2}
      BY <1>4 DEF Tiers
    <3>4. bad = {t}
      BY <2>1, <3>2, <3>3
    <3>5. files[<<1, d>>] # "none" /\ files[<<2, d>>] # "none"
      BY <2>2, <3>1
    <3> QED BY <3>1, <3>4, <3>5 DEF HasFile, Tiers
  <2>4. rows[d].kind = "tiered"
    BY <1>7, <1>9 DEF bad, RInv, IInv, CheckConstraint
  <2>5. rows[d].hot /\ rows[d].cold
    BY <1>5, <1>9, <2>3, <2>4 DEF RowExact
  <2>6. rows[d].pref \in Tiers
    BY <1>7, <1>9, <2>4 DEF CheckConstraint
  <2> QED BY <2>3, <2>4, <2>5, <2>6
<1>10. Legal(row)
  <2>1. CASE rows[d] = NoRow
    BY <2>1 DEF row, Legal
  <2>2. CASE rows[d] # NoRow /\ bad = {}
    <3>1. /\ row.kind = rows[d].kind /\ row.pref = rows[d].pref
          /\ row.hot = rows[d].hot /\ row.cold = rows[d].cold
      BY <1>7, <1>8, <2>2 DEF Row
    <3> QED BY <1>7, <2>2, <3>1 DEF Legal, CheckConstraint
  <2>3. CASE rows[d] # NoRow /\ bad # {}
    <3>1. row.kind = "tiered" /\ row.pref \in Tiers /\ (row.hot \/ row.cold)
      <4>1. rows[d].kind = "tiered" /\ rows[d].hot /\ rows[d].cold /\ rows[d].pref \in Tiers
        BY <1>9, <2>3
      <4>2. bad = {1} \/ bad = {2}
        BY <1>9, <2>3
      <4>3. row.kind = "tiered" /\ (row.hot \/ row.cold)
        <5>1. row.hot = (1 \notin bad) /\ row.cold = (2 \notin bad) /\ row.kind = "tiered"
          BY <1>8, <2>3, <4>1
        <5>2. 1 \notin bad \/ 2 \notin bad
          BY <4>2
        <5>3. row.hot = TRUE \/ row.cold = TRUE
          BY <5>1, <5>2
        <5> QED BY <5>1, <5>3
      <4>4. row.pref \in Tiers
        BY <1>8, <2>3, <4>1 DEF Other, Tiers
      <4> QED BY <4>3, <4>4
    <3> QED BY <3>1 DEF Legal, CheckConstraint
  <2> QED BY <2>1, <2>2, <2>3
<1>11. rows' = [rows EXCEPT ![d] = row] /\ run' = [run EXCEPT !.todo = @ \ {d}]
  BY <1>2, <1>10 DEF Apply
<1>12. /\ run'.phase = "scrub" /\ run'.seen = run.seen /\ run'.disk = run.disk
       /\ run'.scrub = run.scrub /\ run'.cold = run.cold /\ run'.todo = run.todo \ {d}
  BY <1>1, <1>2, <1>11 DEF Runs
<1>13. rows'[d] = row /\ \A e \in Digests : e # d => rows'[e] = rows[e]
  BY <1>1, <1>11
<1>14. ASSUME NEW e \in Digests, e # d PROVE Repairing(e)'
  <2>1. \A t \in Tiers : files'[<<t, e>>] = files[<<t, e>>]
    BY <1>2, <1>14 DEF WithoutFiles
  <2>2. Repairing(e) /\ rows'[e] = rows[e] /\ (e \in run'.todo <=> e \in run.todo)
    BY <1>3, <1>12, <1>13, <1>14
  <2>3. UNCHANGED <<refs, history>> /\ run'.phase = run.phase /\ IInv
    BY <1>2, <1>12 DEF RInv
  <2> QED BY <1>12, <2>1, <2>2, <2>3, OtherDigestKept
<1>15. Repairing(d)'
  <2>1. Scanned(d)' /\ (HasFile(d)' => HasFile(d))
    BY <1>5, <1>6, <1>12 DEF Scanned, HasFile
  <2>2. OrphansLeft(d)'
    <3>1. Orphan(d)' = Orphan(d)
      BY <1>12 DEF Orphan
    <3>2. CASE rows[d] = NoRow
      <4>1. rows'[d] = NoRow
        BY <1>13, <3>2 DEF row
      <4> QED BY <1>2, <1>5, <1>12, <2>1, <3>1, <3>2, <4>1 DEF OrphansLeft
    <3>3. CASE rows[d] # NoRow
      <4>1. rows'[d] # NoRow /\ rows'[d].kind = rows[d].kind
        BY <1>8, <1>13, <3>3
      <4> QED BY <1>2, <1>5, <1>12, <2>1, <3>1, <3>3, <4>1 DEF OrphansLeft
    <3> QED BY <3>2, <3>3
  <2>3. CASE rows[d] = NoRow
    <3>1. rows'[d] = NoRow
      BY <1>13, <2>3 DEF row
    <3>2. RowExact(d)' /\ IndexExact(d)' /\ ScrubExact(d)'
      BY <3>1 DEF RowExact, IndexExact, ScrubExact
    <3> QED BY <1>12, <2>1, <2>2, <3>2 DEF Repairing, Checked
  <2>4. CASE rows[d] # NoRow /\ bad = {}
    <3>1. /\ rows'[d] # NoRow /\ rows'[d].refs = rows[d].refs /\ rows'[d].kind = rows[d].kind
          /\ rows'[d].garbage = rows[d].garbage /\ rows'[d].pref = rows[d].pref
          /\ rows'[d].hot = rows[d].hot /\ rows'[d].cold = rows[d].cold
      BY <1>7, <1>8, <1>13, <2>4 DEF Row
    <3>2. \A t \in Tiers : files'[<<t, d>>] = files[<<t, d>>]
      BY <1>6, <2>4
    <3>3. HasFile(d)' = HasFile(d) /\ BadBesideGood(d)' = BadBesideGood(d)
      BY <3>2 DEF HasFile, BadBesideGood, Tiers, Other
    <3>4. rows[d].kind = "tiered" => rows[d].pref \in Tiers
      BY <1>7, <2>4 DEF CheckConstraint
    <3>5. RowExact(d)'
      BY <1>2, <1>5, <2>4, <3>1, <3>2, <3>3, <3>4 DEF RowExact, Tiers
    <3>6. IndexExact(d)'
      BY <1>2, <1>5, <1>12, <2>4, <3>1 DEF IndexExact, Scrubbed
    <3>7. ScrubExact(d)'
      BY <1>4, <1>7, <1>12, <2>4, <3>1, <3>3 DEF ScrubExact
    <3> QED BY <1>12, <2>1, <2>2, <3>5, <3>6, <3>7 DEF Repairing, Checked
  <2>5. CASE rows[d] # NoRow /\ bad # {}
    <3>1. /\ rows[d].kind = "tiered" /\ rows[d].hot /\ rows[d].cold /\ rows[d].pref \in Tiers
          /\ HasFile(d) /\ (bad = {1} \/ bad = {2})
      BY <1>9, <2>5
    <3>2. /\ rows'[d] # NoRow /\ rows'[d].refs = refs[d] /\ rows'[d].kind = "tiered"
          /\ rows'[d].garbage = rows[d].garbage
          /\ rows'[d].hot = (1 \notin bad) /\ rows'[d].cold = (2 \notin bad)
          /\ rows'[d].pref \in Tiers \ bad
      <4>1. rows[d].refs = refs[d]
        BY <1>5, <2>5 DEF RowExact
      <4>2. row.pref \in Tiers \ bad
        <5>1. row.pref = IF rows[d].pref \in bad THEN Other(rows[d].pref) ELSE rows[d].pref
          BY <1>8, <2>5
        <5>2. CASE bad = {1}
          BY <3>1, <5>1, <5>2 DEF Other, Tiers
        <5>3. CASE bad = {2}
          BY <3>1, <5>1, <5>3 DEF Other, Tiers
        <5> QED BY <3>1, <5>2, <5>3
      <4>3. row.hot = (1 \notin bad) /\ row.cold = (2 \notin bad)
        BY <1>8, <2>5, <3>1
      <4> QED BY <1>8, <1>13, <2>5, <3>1, <4>1, <4>2, <4>3
    <3>3. \A t \in Tiers : files'[<<t, d>>] = IF t \in bad THEN "none" ELSE "good"
      BY <1>4, <1>6, <3>1 DEF Tiers, Other
    <3>4. HasFile(d)' /\ ~BadBesideGood(d)'
      BY <3>1, <3>3 DEF HasFile, BadBesideGood, Tiers, Other
    <3>5. RowExact(d)'
      BY <1>2, <3>2, <3>3, <3>4 DEF RowExact, Tiers
    <3>6. IndexExact(d)'
      <4>1. CASE refs[d] # 0
        BY <1>2, <4>1 DEF IndexExact
      <4>2. CASE refs[d] = 0
        <5>1. rows[d].garbage
          BY <1>5, <2>5, <3>1, <4>2 DEF IndexExact
        <5>2. Scrubbed(d)'
          BY <1>12 DEF Scrubbed
        <5>3. CASE history.clean = 0
          BY <1>2, <3>2, <5>1, <5>2, <5>3 DEF IndexExact
        <5>4. CASE history.clean # 0
          <6>1. history.clean > 0
            BY <5>4 DEF RInv, IInv, TypeOK
          <6>2. ~BadBesideGood(d) \/ ~run.scrub \/ ~run.cold
            BY <1>5, <2>5, <3>1, <4>2, <6>1 DEF ScrubExact
          <6>3. BadBesideGood(d)
            BY <1>4, <3>1 DEF BadBesideGood, Tiers
          <6>4. run.cold
            BY <2>5 DEF bad, BadCopies, ReadTiers, Tiers, Other
          <6>5. run.scrub
            BY <1>2 DEF RInv, ScrubAsked
          <6> QED BY <6>2, <6>3, <6>4, <6>5
        <5> QED BY <5>3, <5>4
      <4> QED BY <4>1, <4>2
    <3>7. ScrubExact(d)'
      BY <3>4 DEF ScrubExact
    <3> QED BY <1>12, <2>1, <2>2, <3>5, <3>6, <3>7 DEF Repairing, Checked
  <2> QED BY <2>3, <2>4, <2>5
<1> QED BY <1>12, <1>14, <1>15

\* A step within a run repairs, or an outage excuses it.
LEMMA WithinRun ==
  ASSUME RInv, [Next]_vars, Active, UNCHANGED <<up, history>>, run'.phase # "idle",
         ~history.disturbed => run'.phase # "refused" /\ \A e \in Digests : Repairing(e)'
  PROVE  Undisturbed' /\ Between' /\ RefusedOnlyInOutage'
  BY DEF Undisturbed, Between, RefusedOnlyInOutage, RInv, Active

\* A statement on one row leaves the others unread.
LEMMA ApplyKeepsUnread ==
  ASSUME RInv, NEW d \in Digests, NEW row \in Row \cup {NoRow}, Apply(d, row)
  PROVE  RecordsUnread' /\ (run'.phase \in {run.phase, "refused"})
         /\ run'.scrub = run.scrub
<1>1. run \in Runs /\ rows \in [Digests -> Row \cup {NoRow}]
  BY DEF RInv, IInv, TypeOK, Runs
<1>2. CASE Legal(row)
  <2>1. rows' = [rows EXCEPT ![d] = row] /\ run' = [run EXCEPT !.todo = @ \ {d}]
    BY <1>2 DEF Apply
  <2>2. /\ run'.phase = run.phase /\ run'.seen = run.seen /\ run'.todo = run.todo \ {d}
        /\ run'.scrub = run.scrub /\ \A e \in Digests : e # d => rows'[e] = rows[e]
    BY <1>1, <2>1 DEF Runs
  <2>3. run.todo \subseteq Digests
    BY <1>1 DEF Runs
  <2> QED BY <2>2, <2>3 DEF RInv, RecordsUnread
<1>3. CASE ~Legal(row)
  <2>1. run' = [run EXCEPT !.phase = "refused", !.todo = {}]
    BY <1>3 DEF Apply
  <2>2. run'.phase = "refused" /\ run'.scrub = run.scrub
    BY <1>1, <2>1 DEF Runs
  <2> QED BY <2>2 DEF RecordsUnread
<1> QED BY <1>2, <1>3

LEMMA InitRInv == Init => RInv
<1> SUFFICES ASSUME Init PROVE RInv
  OBVIOUS
<1>1. run.phase = "idle" /\ history.clean = 0
  BY DEF Init
<1>2. RecordsUnread /\ ScrubAsked /\ Undisturbed /\ Between /\ RefusedOnlyInOutage
  BY <1>1 DEF RecordsUnread, ScrubAsked, Undisturbed, Active, Between, RefusedOnlyInOutage
<1> QED BY <1>2, InitIInv DEF RInv

LEMMA NextRInv == RInv /\ [Next]_vars => RInv'
<1> SUFFICES ASSUME RInv, [Next]_vars PROVE RInv'
  OBVIOUS
<1>0. /\ IInv' /\ run \in Runs /\ rows \in [Digests -> Row \cup {NoRow}]
      /\ history \in [disturbed : BOOLEAN, clean : 0 .. 2]
  BY NextIInv DEF RInv, IInv, TypeOK, Runs
<1>1. ASSUME NEW scrub \in BOOLEAN, NEW cold \in BOOLEAN, Begin(scrub, cold)
      PROVE  RInv'
  <2>1. /\ run'.phase = "records" /\ run'.seen = rows
        /\ run'.todo = {d \in Digests : rows[d] # NoRow}
        /\ run'.disk = [d \in Digests |-> {t \in Tiers : Present(t, d)}]
        /\ run'.scrub = scrub /\ run'.cold = cold
        /\ UNCHANGED <<rows, refs, files, up>> /\ run.phase = "idle"
    BY <1>1 DEF Begin
  <2>2. /\ history'.disturbed = (up # Tiers)
        /\ history'.clean > 0 =>
             history'.clean = history.clean /\ scrub = run.scrub /\ cold = run.cold
    BY <1>0, <1>1 DEF Begin
  <2>3. ASSUME up = Tiers, NEW d \in Digests PROVE Repairing(d)'
    <3>1. Scanned(d)'
      BY <2>1, <2>3 DEF Scanned, Present
    <3>2. CASE rows[d] = NoRow
      <4>1. RowExact(d)' /\ IndexExact(d)' /\ ScrubExact(d)'
        BY <2>1, <3>2 DEF RowExact, IndexExact, ScrubExact
      <4>2. OrphansLeft(d)'
        BY <2>1, <3>2 DEF OrphansLeft, Orphan
      <4>3. d \notin run'.todo
        BY <2>1, <3>2
      <4> QED BY <3>1, <4>1, <4>2, <4>3 DEF Repairing, Checked
    <3>3. CASE rows[d] # NoRow
      <4>1. history'.clean > 0 => Settled(d)'
        <5> SUFFICES ASSUME history'.clean > 0 PROVE Settled(d)'
          OBVIOUS
        <5>1. Settled(d)
          BY <2>1, <2>2 DEF RInv, Between
        <5>2. BadBesideGood(d)' = BadBesideGood(d)
          BY <2>1 DEF BadBesideGood
        <5> QED BY <2>1, <2>2, <5>1, <5>2 DEF Settled, IsColdGarbage
      <4>2. run'.phase = "records" /\ d \in run'.todo
        BY <2>1, <3>3
      <4> QED BY <3>1, <4>1, <4>2 DEF Repairing
    <3> QED BY <3>2, <3>3
  <2>4. Undisturbed'
    BY <2>1, <2>2, <2>3 DEF Undisturbed
  <2>5. RecordsUnread' /\ ScrubAsked' /\ Between' /\ RefusedOnlyInOutage'
    BY <2>1 DEF RecordsUnread, ScrubAsked, Between, RefusedOnlyInOutage
  <2> QED BY <1>0, <2>4, <2>5 DEF RInv
<1>2. ASSUME NEW d \in Digests, CheckRecord(d) PROVE RInv'
  <2>1. run.phase = "records" /\ Active /\ UNCHANGED <<refs, up, history>>
        /\ Apply(d, CheckedRow(run.seen[d], d))
    BY <1>2 DEF CheckRecord, Active
  <2>2. run.seen[d] \in Row
    BY <1>0, <1>2 DEF CheckRecord, RInv, IInv, TodoSeen, Runs
  <2>3. refs[d] \in Nat
    BY MaxRefsAssumption DEF RInv, IInv, TypeOK
  <2>4. CheckedRow(run.seen[d], d) \in Row \cup {NoRow}
    BY <2>2, <2>3, CheckedRowSound
  <2>5. RecordsUnread' /\ run'.phase \in {"records", "refused"} /\ run'.scrub = run.scrub
    BY <2>1, <2>4, ApplyKeepsUnread
  <2>6. ~history.disturbed => run'.phase = "records" /\ \A e \in Digests : Repairing(e)'
    BY <1>2, <2>1, CheckRecordRepairs
  <2>7. Undisturbed' /\ Between' /\ RefusedOnlyInOutage'
    BY <2>1, <2>5, <2>6, WithinRun
  <2> QED BY <1>0, <2>5, <2>7 DEF RInv, ScrubAsked
<1>3. ASSUME NEW d \in Digests, CheckOrphan(d) PROVE RInv'
  <2>1. run.phase = "orphans" /\ Active /\ UNCHANGED <<refs, up, history>>
        /\ run'.phase = "orphans"
    BY <1>0, <1>3 DEF CheckOrphan, Active, Runs
  <2>2. ~history.disturbed => \A e \in Digests : Repairing(e)'
    BY <1>3, <2>1, CheckOrphanRepairs
  <2>3. Undisturbed' /\ Between' /\ RefusedOnlyInOutage'
    BY <2>1, <2>2, WithinRun
  <2> QED BY <1>0, <2>1, <2>3 DEF RInv, ScrubAsked, RecordsUnread
<1>4. ASSUME NEW d \in Digests, Scrub(d) PROVE RInv'
  <2> DEFINE bad == IF run.seen[d].kind = "tiered" THEN BadCopies(d) ELSE {}
             row == IF rows[d] = NoRow THEN NoRow ELSE WithoutCopies(rows[d], bad)
  <2>1. run.phase = "scrub" /\ Active /\ UNCHANGED <<refs, up, history>> /\ Apply(d, row)
    BY <1>4 DEF Scrub, Active
  <2>2. bad \in SUBSET Tiers
    BY DEF BadCopies, ReadTiers
  <2>3. row \in Row \cup {NoRow}
    <3>1. CASE rows[d] = NoRow
      BY <3>1
    <3>2. CASE rows[d] # NoRow
      BY <1>0, <2>2, <3>2, WithoutCopiesSound
    <3> QED BY <3>1, <3>2
  <2> HIDE DEF row
  <2>4. RecordsUnread' /\ run'.phase \in {"scrub", "refused"} /\ run'.scrub = run.scrub
    BY <2>1, <2>3, ApplyKeepsUnread
  <2>5. ~history.disturbed => run'.phase = "scrub" /\ \A e \in Digests : Repairing(e)'
    BY <1>4, <2>1, ScrubRepairs
  <2>6. Undisturbed' /\ Between' /\ RefusedOnlyInOutage'
    BY <2>1, <2>4, <2>5, WithinRun
  <2> QED BY <1>0, <2>1, <2>4, <2>6 DEF RInv, ScrubAsked
<1>5. CASE NextPhase
  <2>1. Active /\ UNCHANGED <<refs, up, history>> /\ run'.phase \in {"orphans", "scrub"}
        /\ ScrubAsked'
    BY <1>0, <1>5 DEF NextPhase, Active, Runs, ScrubAsked
  <2>2. ~history.disturbed => \A e \in Digests : Repairing(e)'
    BY <1>5, <2>1, NextPhaseRepairs
  <2>3. Undisturbed' /\ Between' /\ RefusedOnlyInOutage'
    BY <2>1, <2>2, WithinRun
  <2> QED BY <1>0, <2>1, <2>3 DEF RInv, RecordsUnread
<1>6. CASE Commit
  <2>1. /\ run.todo = {} /\ run.phase \in {"scrub", "orphans"} /\ Active
        /\ run.scrub => run.phase = "scrub"
        /\ run'.phase = "idle" /\ run'.scrub = run.scrub /\ run'.cold = run.cold
        /\ UNCHANGED <<rows, refs, files, up>>
    BY <1>0, <1>6 DEF Commit, Active, Runs
  <2>2. /\ history'.clean > 0 => ~history.disturbed
        /\ history'.clean = 2 => history.clean > 0
    BY <1>0, <1>6 DEF Commit
  <2>3. ASSUME history'.clean > 0, NEW d \in Digests
        PROVE  Settled(d)' /\ (history'.clean = 2 => Consistent(d)')
    <3>1. RowExact(d) /\ IndexExact(d) /\ OrphansLeft(d) /\ ScrubExact(d)
      BY <2>1, <2>2, <2>3 DEF RInv, Undisturbed, Repairing, Checked
    <3>2. rows[d] # NoRow => rows[d] \in Row /\ CheckConstraint(rows[d])
      BY <1>0 DEF RInv, IInv, TypeOK
    <3>3. BadBesideGood(d)' = BadBesideGood(d)
      BY <2>1 DEF BadBesideGood
    <3>4. Settled(d)'
      <4> SUFFICES ASSUME rows[d] # NoRow, IsColdGarbage(rows[d], d)
                   PROVE  /\ files[<<2, d>>] # "none"
                          /\ run.scrub /\ run.cold => ~BadBesideGood(d)
        BY <2>1, <3>3 DEF Settled, IsColdGarbage
      <4>1. rows[d].kind = "tiered" /\ rows[d].cold /\ refs[d] = 0
        BY DEF IsColdGarbage
      <4>2. files[<<2, d>>] # "none"
        <5>1. ~(refs[d] > 0)
          BY <4>1
        <5>2. HasFile(d)
          BY <3>1, <4>1, <5>1 DEF RowExact
        <5>3. rows[d].cold = (files[<<2, d>>] # "none")
          BY <3>1, <4>1, <5>2 DEF RowExact
        <5> QED BY <4>1, <5>3
      <4>3. run.scrub => Scrubbed(d)
        BY <2>1 DEF Scrubbed
      <4> QED BY <3>1, <4>1, <4>2, <4>3 DEF ScrubExact
    <3>5. ASSUME history'.clean = 2 PROVE Consistent(d)'
      <4>1. history.clean > 0 /\ history.clean # 0
        BY <1>0, <2>2, <3>5
      <4>2. rows[d] = NoRow \/ rows[d].kind = "inline" => ~HasFile(d)
        BY <2>1, <3>1, <4>1 DEF OrphansLeft
      <4> DEFINE here == {t \in Tiers : files[<<t, d>>] # "none"}
      <4>3. /\ HasFile(d) <=> here # {}
            /\ 1 \in here <=> files[<<1, d>>] # "none"
            /\ 2 \in here <=> files[<<2, d>>] # "none"
        BY DEF HasFile, Tiers
      <4>4. CASE rows[d] = NoRow
        BY <2>1, <4>2, <4>3, <4>4 DEF Consistent
      <4>5. CASE rows[d] # NoRow /\ rows[d].kind = "inline"
        <5>1. here = {} /\ rows[d].refs = refs[d] /\ refs[d] > 0
          BY <3>1, <4>2, <4>3, <4>5 DEF RowExact
        <5> QED BY <2>1, <4>5, <5>1 DEF Consistent
      <4>6. CASE rows[d] # NoRow /\ rows[d].kind = "tiered"
        <5>1. rows[d].refs = refs[d] /\ (here = {} => refs[d] > 0)
          BY <3>1, <4>3, <4>6 DEF RowExact
        <5>2. refs[d] = 0 => rows[d].cold /\ rows[d].garbage
          BY <3>1, <4>1, <4>6 DEF IndexExact
        <5>3. rows[d].pref \in Tiers
          BY <3>2, <4>6 DEF CheckConstraint
        <5>4. here # {} => /\ rows[d].hot = (1 \in here) /\ rows[d].cold = (2 \in here)
                           /\ refs[d] > 0 => rows[d].pref \in here
          BY <3>1, <4>3, <4>6, <5>3 DEF RowExact
        <5> QED BY <2>1, <4>6, <5>1, <5>2, <5>4 DEF Consistent
      <4> QED BY <3>2, <4>4, <4>5, <4>6 DEF Row, Kinds
    <3> QED BY <3>4, <3>5
  <2>4. history'.clean \in 0 .. 2
    BY <1>0 DEF IInv, TypeOK
  <2>5. Between'
    BY <2>3, <2>4 DEF Between
  <2>6. Undisturbed' /\ RecordsUnread' /\ ScrubAsked' /\ RefusedOnlyInOutage'
    BY <2>1 DEF Undisturbed, Active, RecordsUnread, ScrubAsked, RefusedOnlyInOutage
  <2> QED BY <1>0, <2>5, <2>6 DEF RInv
<1>7. CASE Kill \/ Retry
  <2>1. run'.phase = "idle" /\ history'.clean = 0
    BY <1>0, <1>7 DEF Kill, Retry, Runs
  <2>2. Between' /\ Undisturbed' /\ RecordsUnread' /\ ScrubAsked' /\ RefusedOnlyInOutage'
    BY <2>1 DEF Between, Undisturbed, Active, RecordsUnread, ScrubAsked, RefusedOnlyInOutage
  <2> QED BY <1>0, <2>2 DEF RInv
<1>8. ASSUME NEW t \in Tiers, Outage(t) PROVE RInv'
  <2>1. history'.disturbed /\ history'.clean = history.clean /\ UNCHANGED <<rows, refs, files, run>>
    BY <1>0, <1>8 DEF Outage
  <2>2. \A d \in Digests : Settled(d)' = Settled(d) /\ Consistent(d)' = Consistent(d)
    BY <2>1 DEF Settled, IsColdGarbage, BadBesideGood, Consistent
  <2>3. Between'
    BY <2>1, <2>2 DEF RInv, Between
  <2>4. Undisturbed' /\ RecordsUnread' /\ ScrubAsked' /\ RefusedOnlyInOutage'
    BY <2>1 DEF RInv, Undisturbed, RecordsUnread, ScrubAsked, RefusedOnlyInOutage
  <2> QED BY <1>0, <2>3, <2>4 DEF RInv
<1>9. CASE UNCHANGED vars
  <2>1. UNCHANGED <<rows, refs, files, up, run, history>>
    BY <1>9 DEF vars
  <2>2. \A d \in Digests :
          /\ Settled(d)' = Settled(d) /\ Consistent(d)' = Consistent(d)
          /\ RowExact(d)' = RowExact(d) /\ IndexExact(d)' = IndexExact(d)
          /\ OrphansLeft(d)' = OrphansLeft(d) /\ ScrubExact(d)' = ScrubExact(d)
          /\ Scanned(d)' = Scanned(d)
    BY <2>1 DEF Settled, IsColdGarbage, BadBesideGood, Consistent, RowExact, HasFile,
       IndexExact, Scrubbed, OrphansLeft, Orphan, ScrubExact, Scanned
  <2>3. Undisturbed' /\ Between'
    BY <2>1, <2>2 DEF RInv, Undisturbed, Active, Repairing, Checked, Between
  <2> QED BY <1>0, <2>1, <2>3 DEF RInv, RecordsUnread, ScrubAsked, RefusedOnlyInOutage
<1> QED
  BY <1>1, <1>2, <1>3, <1>4, <1>5, <1>6, <1>7, <1>8, <1>9 DEF Next

\* Whatever the rows and files were, two undisturbed runs of one kind leave
\* every digest consistent, for any set of digests (checker.py).
THEOREM FsckTwoRunsRepair == Spec => []TwoRunsRepair
<1>1. RInv => TwoRunsRepair
  BY DEF RInv, Between, TwoRunsRepair
<1> QED BY <1>1, InitRInv, NextRInv, PTL DEF Spec

\* A repair is refused by the CHECK constraint only if a tier was away during
\* the run (_check_block_records, _scrub_block_payloads).
THEOREM FsckRefusedOnlyInOutage == Spec => []RefusedOnlyInOutage
<1>1. RInv => RefusedOnlyInOutage
  BY DEF RInv
<1> QED BY <1>1, InitRInv, NextRInv, PTL DEF Spec

(***************************************************************************)
(* Claims to cold copies.                                                  *)
(***************************************************************************)
\* Without the cold tier a checked record keeps its claim to a cold copy.
LEMMA CheckedRowKeepsColdClaim ==
  ASSUME NEW d \in Digests, NEW seen \in Row, seen.cold, 2 \notin up, refs[d] \in Nat
  PROVE  CheckedRow(seen, d) # NoRow /\ CheckedRow(seen, d).cold
<1>1. ColdUnavailable(seen, d) /\ Present(1, d) \in BOOLEAN
  BY DEF ColdUnavailable, Present
<1>2. PICK r1 \in Row : r1 = [seen EXCEPT !.refs = 0]
  BY RowUpdates
<1>3. PICK r2 \in Row : r2 = [r1 EXCEPT !.hot = Present(1, d)]
  BY <1>1, RowUpdates
<1>4. PICK r3 \in Row : r3 = [seen EXCEPT !.refs = refs[d]]
  BY RowUpdates
<1>5. PICK r4 \in Row : r4 = [r3 EXCEPT !.hot = Present(1, d)]
  BY <1>1, RowUpdates
<1>6. r1.cold = seen.cold /\ r2.cold = r1.cold /\ r3.cold = seen.cold /\ r4.cold = r3.cold
  BY <1>2, <1>3, <1>4, <1>5 DEF Row
<1>7. CheckedGarbage(seen, d) = r2
  BY <1>1, <1>2, <1>3 DEF CheckedGarbage
<1>8. CheckedTiered(seen, d) = r4
  BY <1>1, <1>4, <1>5 DEF CheckedTiered
<1>9. CheckedRow(seen, d) \in {r1, r2, r3, r4}
  BY <1>1, <1>2, <1>4, <1>7, <1>8 DEF CheckedRow
<1> QED BY <1>6, <1>9, NoRowIsNoRow

\* While the cold tier is away no repair takes a row's claim to a cold copy or
\* deletes a row that has one (_check_block_records, _remove_bad_block_copy).
THEOREM FsckColdClaimsKept == Spec => ColdClaimsKept
<1>1. RInv /\ [Next]_vars =>
        [\A d \in Digests :
           2 \notin up /\ rows[d] # NoRow /\ rows[d].cold /\ rows' # run.seen =>
             rows'[d] # NoRow /\ rows'[d].cold]_vars
  <2> SUFFICES ASSUME RInv, [Next]_vars, NEW d \in Digests, 2 \notin up, rows[d] # NoRow,
                      rows[d].cold, rows' # run.seen
               PROVE  rows'[d] # NoRow /\ rows'[d].cold
    OBVIOUS
  <2>0. /\ rows \in [Digests -> Row \cup {NoRow}] /\ rows[d] \in Row /\ refs[d] \in Nat
    BY MaxRefsAssumption DEF RInv, IInv, TypeOK
  <2>1. ASSUME NEW e \in Digests, CheckRecord(e) PROVE rows'[d] # NoRow /\ rows'[d].cold
    <3>1. rows' = [rows EXCEPT ![e] = CheckedRow(run.seen[e], e)] /\ rows[e] = run.seen[e]
      BY <2>1 DEF CheckRecord, Apply, RInv, RecordsUnread
    <3>2. CASE e = d
      <4>1. CheckedRow(rows[d], d) # NoRow /\ CheckedRow(rows[d], d).cold
        BY <2>0, CheckedRowKeepsColdClaim
      <4>2. rows'[d] = CheckedRow(rows[d], d)
        BY <2>0, <3>1, <3>2
      <4> QED BY <4>1, <4>2
    <3>3. CASE e # d
      BY <2>0, <3>1, <3>3
    <3> QED BY <3>2, <3>3
  <2>2. ASSUME NEW e \in Digests, Scrub(e) PROVE rows'[d] # NoRow /\ rows'[d].cold
    <3> DEFINE bad == IF run.seen[e].kind = "tiered" THEN BadCopies(e) ELSE {}
               row == IF rows[e] = NoRow THEN NoRow ELSE WithoutCopies(rows[e], bad)
    <3>1. rows' = [rows EXCEPT ![e] = row]
      BY <2>2 DEF Scrub, Apply
    <3>2. bad \in SUBSET Tiers /\ 2 \notin bad
      BY DEF BadCopies, ReadTiers, Present
    <3>3. CASE e = d
      <4>1. rows'[d] = WithoutCopies(rows[d], bad)
        BY <2>0, <3>1, <3>3
      <4> HIDE DEF bad
      <4>2. WithoutCopies(rows[d], bad) \in Row
            /\ WithoutCopies(rows[d], bad).cold = (rows[d].cold /\ 2 \notin bad)
        BY <2>0, <3>2, WithoutCopiesSound, WithoutCopiesColumns
      <4>3. WithoutCopies(rows[d], bad).cold = TRUE
        BY <3>2, <4>2
      <4> QED BY <4>1, <4>2, <4>3, NoRowIsNoRow
    <3>4. CASE e # d
      BY <2>0, <3>1, <3>4
    <3> QED BY <3>3, <3>4
  <2>3. CASE UNCHANGED rows
    BY <2>3
  <2> QED
    BY <2>1, <2>2, <2>3 DEF Next, Begin, CheckOrphan, NextPhase, Commit, Kill, Retry, Outage, vars
<1> QED BY <1>1, InitRInv, NextRInv, PTL DEF Spec, ColdClaimsKept
=============================================================================
