-------------------------------- MODULE Fsck --------------------------------
(***************************************************************************)
(* fsck --repair and scrub --repair of block records and block files,      *)
(* maintenance/checker.py, while nothing is mounted.                       *)
(*                                                                         *)
(* One run is one SQLite transaction over rows it has read at the start,   *)
(* and never reads again; what it does to files is not undone when the     *)
(* transaction is.  A tier may become unavailable or come back between any *)
(* two steps, and the run may be killed.  A run without --repair only      *)
(* reports, and is left out.                                               *)
(***************************************************************************)
EXTENDS BlockRows, FiniteSets

CONSTANT MaxRefs    \* bound: the largest reference count, true or stored

ASSUME MaxRefsAssumption == MaxRefs \in Nat

\* "bad": the payload is there, and its size or its encoding is wrong.
Payloads == {"none", "good", "bad"}

VARIABLES
  rows,         \* the table `blocks`, as the run sees it
  refs,         \* the chunks that map to each digest
  files,        \* the file of each digest in each tier
  up,           \* the tiers that are available
  run,          \* the run: its phase, digests left, scan and options
  history       \* what has happened: see Init

vars == <<rows, refs, files, up, run, history>>

Phases == {"idle", "records", "orphans", "scrub", "refused"}
Other(t) == 3 - t

TypeOK ==
  /\ rows \in [Digests -> Row \cup {NoRow}]
  /\ \A d \in Digests : rows[d] # NoRow => CheckConstraint(rows[d])
  /\ refs \in [Digests -> 0 .. MaxRefs]
  /\ files \in [Tiers \X Digests -> Payloads]
  /\ up \subseteq Tiers
  /\ run \in [phase : Phases, todo : SUBSET Digests, seen : [Digests -> Row \cup {NoRow}],
              disk : [Digests -> SUBSET Tiers], scrub : BOOLEAN, cold : BOOLEAN]
  /\ history \in [disturbed : BOOLEAN, clean : 0 .. 2]

\* Damage of any kind that the schema lets through: its CHECK, and the foreign
\* key that gives every referenced digest a row.
DamagedRows ==
  {NoRow} \cup {row \in [refs : 0 .. MaxRefs, kind : Kinds, hot : BOOLEAN, cold : BOOLEAN,
                         pref : 0 .. 2, enc : Encodings, promoted : {FALSE}, garbage : BOOLEAN] :
                  CheckConstraint(row)}

Init ==
  /\ rows \in [Digests -> DamagedRows]
  /\ refs \in [Digests -> 0 .. MaxRefs]
  /\ \A d \in Digests : refs[d] > 0 => rows[d] # NoRow
  /\ files \in [Tiers \X Digests -> Payloads]
  /\ up \in SUBSET Tiers
  /\ run = [phase |-> "idle", todo |-> {}, seen |-> rows, disk |-> [d \in Digests |-> {}],
            scrub |-> FALSE, cold |-> FALSE]
  \* disturbed: a tier was away during the run under way; clean: how many of
  \* the last runs, of one kind, were committed undisturbed, up to two
  /\ history = [disturbed |-> FALSE, clean |-> 0]

(***************************************************************************)
(* Files.                                                                  *)
(***************************************************************************)
\* probe_path: an unavailable tier shows no file.
Present(t, d) == t \in up /\ files[<<t, d>>] # "none"

\* _unlink_block_file, in every tier of ts that is available.
WithoutFiles(d, ts) ==
  [f \in Tiers \X Digests |-> IF f[2] = d /\ f[1] \in ts \cap up THEN "none" ELSE files[f]]

(***************************************************************************)
(* _check_block_records, for one digest.                                   *)
(***************************************************************************)
\* A mutated form: with a hot file there, the cold copy is not waited for.
ColdUnavailableWithoutHot(seen, d) == 2 \notin up /\ ~Present(1, d)

\* The cold tier cannot be looked at, and what it holds of the block matters.
ColdUnavailable(seen, d) == 2 \notin up /\ (seen.cold \/ ~Present(1, d))

IsColdGarbage(seen, d) ==
  refs[d] = 0 /\ seen.kind = "tiered" /\ seen.cold /\ seen.garbage

\* The tier _check_block_records prefers after the presence columns have been
\* corrected: that of the row unless the copy is missing.
PreferredAfterCheck(seen, d) ==
  IF seen.pref = 2 /\ Present(2, d) THEN 2
  ELSE IF Present(1, d) THEN 1 ELSE 2

\* Cold garbage: the hot column is corrected; a row whose cold file is missing
\* is deleted, without a look at a hot file.
CheckedGarbage(seen, d) ==
  IF ~ColdUnavailable(seen, d) /\ ~Present(2, d) THEN NoRow
  ELSE [seen EXCEPT !.refs = 0, !.hot = Present(1, d)]

\* A referenced tiered block: both columns follow the files, but with the cold
\* tier unavailable only the hot column does, and nothing is corrected when
\* both files are missing.
CheckedTiered(seen, d) ==
  LET counted == [seen EXCEPT !.refs = refs[d]]
  IN  IF ColdUnavailable(seen, d) THEN [counted EXCEPT !.hot = Present(1, d)]
      ELSE IF ~Present(1, d) /\ ~Present(2, d) THEN counted
      ELSE [counted EXCEPT !.hot = Present(1, d), !.cold = Present(2, d),
                           !.pref = PreferredAfterCheck(seen, d)]

\* A mutated form: the stored count decides what is garbage.
UnreferencedByRow(seen, d) == seen.refs = 0 /\ ~IsColdGarbage(seen, d)

\* A row that no chunk refers to and that is no cold garbage.
Unreferenced(seen, d) == refs[d] = 0 /\ ~IsColdGarbage(seen, d)

CheckedRow(seen, d) ==
  IF IsColdGarbage(seen, d) THEN CheckedGarbage(seen, d)
  ELSE IF Unreferenced(seen, d)
  THEN IF ColdUnavailable(seen, d) THEN [seen EXCEPT !.refs = 0] ELSE NoRow
  ELSE IF seen.kind = "inline" THEN [seen EXCEPT !.refs = refs[d]]
  ELSE CheckedTiered(seen, d)

\* A mutated form: a tiered row need not claim a tier.
LegalWithoutTier(row) == row = NoRow \/ (row.kind = "tiered" => row.pref \in Tiers)

\* A statement that breaks the CHECK constraint raises; the transaction is
\* rolled back and the exception ends the run.
Legal(row) == row = NoRow \/ CheckConstraint(row)

Apply(d, row) ==
  IF Legal(row)
  THEN rows' = [rows EXCEPT ![d] = row] /\ run' = [run EXCEPT !.todo = @ \ {d}]
  ELSE rows' = run.seen /\ run' = [run EXCEPT !.phase = "refused", !.todo = {}]

CheckRecord(d) ==
  LET seen == run.seen[d]
      row  == CheckedRow(seen, d)
  IN  /\ run.phase = "records" /\ d \in run.todo
      /\ Apply(d, row)
      /\ files' = IF Unreferenced(seen, d) /\ row = NoRow THEN WithoutFiles(d, Tiers) ELSE files
      /\ UNCHANGED <<refs, up, history>>

(***************************************************************************)
(* _check_disk_orphans: of the files that the scan found, those of digests *)
(* without a tiered row among the rows read at the start.                  *)
(***************************************************************************)
\* A mutated form: the file of an inline block is left.
OrphanWithoutRow(d) == run.seen[d] = NoRow

Orphan(d) == run.seen[d] = NoRow \/ run.seen[d].kind # "tiered"

CheckOrphan(d) ==
  /\ run.phase = "orphans" /\ d \in run.todo
  /\ files' = IF Orphan(d) THEN WithoutFiles(d, run.disk[d]) ELSE files
  /\ run' = [run EXCEPT !.todo = @ \ {d}]
  /\ UNCHANGED <<rows, refs, up, history>>

(***************************************************************************)
(* _scrub_block_payloads, for one digest: cold payloads are read only with *)
(* --include-cold, and bad copies are removed beside a good one.           *)
(***************************************************************************)
ReadTiers(d) == {t \in Tiers : Present(t, d) /\ (t = 1 \/ run.cold)}

\* A mutated form: a bad copy is removed whatever the other copy is.
BadCopiesAlone(d) == {t \in ReadTiers(d) : files[<<t, d>>] = "bad"}

BadCopies(d) ==
  {t \in ReadTiers(d) : files[<<t, d>>] = "bad" /\ files[<<Other(t), d>>] = "good"
                        /\ Other(t) \in ReadTiers(d)}

WithoutCopies(row, bad) ==
  [row EXCEPT !.hot = @ /\ 1 \notin bad, !.cold = @ /\ 2 \notin bad,
              !.pref = IF @ \in bad THEN Other(@) ELSE @]

Scrub(d) ==
  /\ run.phase = "scrub" /\ d \in run.todo
  /\ LET bad == IF run.seen[d].kind = "tiered" THEN BadCopies(d) ELSE {}
     IN  /\ Apply(d, IF rows[d] = NoRow THEN NoRow ELSE WithoutCopies(rows[d], bad))
         /\ files' = WithoutFiles(d, bad)
  /\ UNCHANGED <<refs, up, history>>

(***************************************************************************)
(* The run.                                                                *)
(***************************************************************************)
RecordsRead == {d \in Digests : run.seen[d] # NoRow}

Begin(scrub, cold) ==
  /\ run.phase = "idle"
  /\ cold => scrub
  /\ run' = [phase |-> "records", todo |-> {d \in Digests : rows[d] # NoRow}, seen |-> rows,
             disk |-> [d \in Digests |-> {t \in Tiers : Present(t, d)}],
             scrub |-> scrub, cold |-> cold]
  /\ history' = [disturbed |-> up # Tiers,
                 clean |-> IF scrub = run.scrub /\ cold = run.cold THEN history.clean ELSE 0]
  /\ UNCHANGED <<rows, refs, files, up>>

NextPhase ==
  /\ run.todo = {}
  /\ \/ run.phase = "records" /\
        run' = [run EXCEPT !.phase = "orphans", !.todo = {d \in Digests : run.disk[d] # {}}]
     \/ run.phase = "orphans" /\ run.scrub /\
        run' = [run EXCEPT !.phase = "scrub", !.todo = RecordsRead]
  /\ UNCHANGED <<rows, refs, files, up, history>>

Commit ==
  /\ run.todo = {}
  /\ run.phase = (IF run.scrub THEN "scrub" ELSE "orphans")
  /\ run' = [run EXCEPT !.phase = "idle"]
  /\ history' = [history EXCEPT !.clean =
       IF history.disturbed THEN 0 ELSE IF @ = 2 THEN 2 ELSE @ + 1]
  /\ UNCHANGED <<rows, refs, files, up>>

\* The process dies: the rows go back, the files do not.
Kill ==
  /\ run.phase \notin {"idle", "refused"}
  /\ rows' = run.seen
  /\ run' = [run EXCEPT !.phase = "idle", !.todo = {}]
  /\ history' = [history EXCEPT !.clean = 0]
  /\ UNCHANGED <<refs, files, up>>

\* After a run that was refused the command may be given again.
Retry ==
  /\ run.phase = "refused"
  /\ run' = [run EXCEPT !.phase = "idle"]
  /\ history' = [history EXCEPT !.clean = 0]
  /\ UNCHANGED <<rows, refs, files, up>>

\* A tier goes away or comes back.
Outage(t) ==
  /\ up' = IF t \in up THEN up \ {t} ELSE up \cup {t}
  /\ history' = [history EXCEPT !.disturbed = TRUE]
  /\ UNCHANGED <<rows, refs, files, run>>

Next ==
  \/ \E scrub, cold \in BOOLEAN : Begin(scrub, cold)
  \/ \E d \in Digests : CheckRecord(d) \/ CheckOrphan(d) \/ Scrub(d)
  \/ NextPhase \/ Commit \/ Kill \/ Retry
  \/ \E t \in Tiers : Outage(t)

Spec == Init /\ [][Next]_vars

(***************************************************************************)
(* Properties.                                                             *)
(***************************************************************************)
Good(d) == {t \in Tiers : files[<<t, d>>] = "good"}

\* No repair deletes the last good file of a block that some chunk refers to,
\* whatever the row says, however tiers come and go, and whether the run is
\* committed or not (_delete_block_record_and_files, _remove_bad_block_copy).
LastGoodCopyKept ==
  [][\A d \in Digests :
       refs[d] > 0 /\ rows[d] # NoRow /\ rows[d].kind = "tiered" /\ Good(d) # {} => Good(d)' # {}]_vars

\* While the cold tier is away no row loses its claim to a cold copy, and no
\* row that has one is deleted: repairs that rest on looking at the cold tier
\* are skipped (README.md:133).  A rollback restores rows and repairs none.
ColdClaimsKept ==
  [][\A d \in Digests :
       2 \notin up /\ rows[d] # NoRow /\ rows[d].cold /\ rows' # run.seen =>
         rows'[d] # NoRow /\ rows'[d].cold]_vars

\* A row and the files of its digest as fsck leaves them: exact counts, columns
\* that say which files there are unless a referenced payload is missing, no
\* file without a row, no row without a use.
Consistent(d) ==
  LET row  == rows[d]
      here == {t \in Tiers : files[<<t, d>>] # "none"}
  IN  IF row = NoRow \/ row.kind = "inline"
      THEN here = {} /\ (row # NoRow => row.refs = refs[d] /\ refs[d] > 0)
      ELSE /\ row.refs = refs[d]
           /\ refs[d] = 0 => row.cold /\ row.garbage
           /\ here # {} => row.hot = (1 \in here) /\ row.cold = (2 \in here)
                           /\ (refs[d] > 0 => row.pref \in here)
           /\ here = {} => refs[d] > 0

\* Two undisturbed runs of one kind repair everything that is reported as repairable.  One
\* does not: the hot file of deleted garbage, and garbage whose cold copy was
\* scrubbed away, are left for the second (_check_disk_orphans reads old rows).
TwoRunsRepair ==
  run.phase = "idle" /\ history.clean = 2 => \A d \in Digests : Consistent(d)

\* A run is refused by the CHECK constraint only if a tier was away during it.
RefusedOnlyInOutage == run.phase = "refused" => history.disturbed

=============================================================================
