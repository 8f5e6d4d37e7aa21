-------------------------- MODULE ChunkRefsProofs ---------------------------
(***************************************************************************)
(* Proofs about ChunkRefs, for any finite set of files, any set of digests *)
(* and any number of chunks in a file.                                     *)
(***************************************************************************)
EXTENDS ChunkRefs, BlockRowsProofs, FiniteSetTheorems, TLAPS

Rows == [Digests -> Row \cup {NoRow}]

ReplacementMaps == UNION {[S -> Digests \cup {NoBlock}] : S \in SUBSET Indexes}

LEMMA IndexesFinite == IsFiniteSet(Indexes)
  BY FS_Interval, MaxIndexAssumption DEF Indexes

\* The chunks that map to a block are finitely many (file_chunks).
LEMMA ReferencesFinite ==
  ASSUME NEW chs, NEW d
  PROVE  /\ IsFiniteSet(References(chs, d))
         /\ Cardinality(References(chs, d)) \in Nat
<1>1. IsFiniteSet(Files \X Indexes)
  BY IndexesFinite, FilesAssumption, FS_Product
<1>2. References(chs, d) \subseteq Files \X Indexes
  BY DEF References
<1> QED
  BY <1>1, <1>2, FS_Subset, FS_CardinalityType

\* Pairing indexes with one file does not change how many there are.
LEMMA PairedCount ==
  ASSUME NEW f, NEW S \in SUBSET Indexes
  PROVE  /\ IsFiniteSet({f} \X S)
         /\ Cardinality({f} \X S) = Cardinality(S)
         /\ Cardinality(S) \in Nat
<1>1. IsFiniteSet(S) /\ Cardinality(S) \in Nat
  BY IndexesFinite, FS_Subset, FS_CardinalityType
<1>2. IsFiniteSet({f}) /\ Cardinality({f}) = 1
  BY FS_Singleton
<1> QED
  BY <1>1, <1>2, FS_Product

\* Replacing chunks of one file moves the number of references to a block by
\* exactly the delta replace_file_chunks computes for its digest.
LEMMA ReplaceMovesReferences ==
  ASSUME NEW chs \in [Files -> ChunkMaps], NEW f \in Files,
         NEW new \in ReplacementMaps, NEW from \in 0 .. MaxIndex + 1,
         NEW d \in Digests
  PROVE  LET after == [chs EXCEPT ![f] = ReplacedMap(@, new, from)]
             delta == Delta(chs[f], new, from, d)
         IN  /\ delta \in Int
             /\ Cardinality(References(after, d))
                  = Cardinality(References(chs, d)) + delta
<1> DEFINE after == [chs EXCEPT ![f] = ReplacedMap(@, new, from)]
           gone  == {i \in OldChunkIndexes(new, from) : chs[f][i] = d}
           come  == {i \in DOMAIN new : new[i] = d}
           kept  == References(chs, d) \ ({f} \X gone)
<1>1. DOMAIN new \subseteq Indexes
  BY DEF ReplacementMaps
<1>2. gone \subseteq Indexes /\ come \subseteq Indexes
  BY <1>1 DEF OldChunkIndexes
<1>3. {f} \X gone \subseteq References(chs, d)
  BY <1>2 DEF References
<1>4. Cardinality(References(chs, d)) = Cardinality(kept) + Cardinality(gone)
  <2>1. /\ IsFiniteSet(kept)
        /\ Cardinality(kept) = Cardinality(References(chs, d))
             - Cardinality(References(chs, d) \cap ({f} \X gone))
    BY ReferencesFinite, FS_Difference, <1>2, PairedCount
  <2>2. References(chs, d) \cap ({f} \X gone) = {f} \X gone
    BY <1>3
  <2>3. Cardinality({f} \X gone) = Cardinality(gone) /\ Cardinality(gone) \in Nat
    BY <1>2, PairedCount
  <2>4. Cardinality(References(chs, d)) \in Nat
    BY ReferencesFinite
  <2>5. Cardinality(References(chs, d) \cap ({f} \X gone)) = Cardinality(gone)
    BY <2>2, <2>3, Zenon
  <2> HIDE DEF gone, kept
  <2> QED
    BY <2>1, <2>3, <2>4, <2>5
<1>5. References(after, d) = kept \cup ({f} \X come)
  <2>1. after \in [Files -> ChunkMaps]
    BY <1>1 DEF ReplacedMap, ChunkMaps, ReplacementMaps
  <2>2. ASSUME NEW g \in Files, NEW i \in Indexes
        PROVE  <<g, i>> \in References(after, d)
                 <=> <<g, i>> \in kept \cup ({f} \X come)
    <3>1. <<g, i>> \in References(after, d) <=> after[g][i] = d
      BY DEF References
    <3>2. <<g, i>> \in kept <=> chs[g][i] = d /\ ~(g = f /\ i \in gone)
      BY DEF References
    <3>3. CASE g # f
      BY <3>1, <3>2, <3>3
    <3>4. CASE g = f
      <4>1. after[g][i] = IF i \in DOMAIN new THEN new[i]
                          ELSE IF i >= from THEN NoBlock ELSE chs[f][i]
        BY <3>4 DEF ReplacedMap
      <4>2. NoBlock # d
        BY NoBlockAssumption
      <4>3. i \in come <=> i \in DOMAIN new /\ new[i] = d
        OBVIOUS
      <4>4. i \in gone <=> (i \in DOMAIN new \/ i >= from) /\ chs[f][i] = d
        BY <1>1 DEF OldChunkIndexes
      <4>5. <<g, i>> \in {f} \X come <=> i \in come
        BY <3>4
      <4> HIDE DEF gone, come, kept, after
      <4>6. after[g][i] = d <=> (chs[f][i] = d /\ ~(i \in gone)) \/ i \in come
        BY <4>1, <4>2, <4>3, <4>4
      <4> QED
        BY <3>1, <3>2, <3>4, <4>5, <4>6
    <3> QED BY <3>3, <3>4
  <2>3. References(after, d) \subseteq Files \X Indexes
    BY DEF References
  <2>4. kept \cup ({f} \X come) \subseteq Files \X Indexes
    BY <1>2 DEF References
  <2> HIDE DEF gone, come, kept, after
  <2>5. ASSUME NEW x \in Files \X Indexes
        PROVE  x \in References(after, d) <=> x \in kept \cup ({f} \X come)
    <3>1. PICK g \in Files, i \in Indexes : x = <<g, i>>
      OBVIOUS
    <3> QED BY <2>2, <3>1
  <2> QED BY <2>3, <2>4, <2>5
<1>6. kept \cap ({f} \X come) = {}
  BY <1>2 DEF References, OldChunkIndexes
<1>7. Cardinality(References(after, d)) = Cardinality(kept) + Cardinality(come)
  <2>1. IsFiniteSet(kept) /\ Cardinality(kept) \in Nat
    BY ReferencesFinite, FS_Subset, FS_CardinalityType
  <2>2. Cardinality(kept \cap ({f} \X come)) = 0
    BY <1>6, FS_EmptySet
  <2>3. /\ IsFiniteSet({f} \X come)
        /\ Cardinality({f} \X come) = Cardinality(come)
        /\ Cardinality(come) \in Nat
    BY <1>2, PairedCount
  <2> HIDE DEF kept, come, after
  <2>4. Cardinality(kept \cup ({f} \X come))
          = Cardinality(kept) + Cardinality({f} \X come)
              - Cardinality(kept \cap ({f} \X come))
    BY <2>1, <2>3, FS_Union
  <2>5. Cardinality(kept \cup ({f} \X come)) = Cardinality(kept) + Cardinality(come)
    BY <2>1, <2>2, <2>3, <2>4
  <2> QED
    BY <2>5, <1>5, Zenon
<1>8. Cardinality(gone) \in Nat /\ Cardinality(come) \in Nat
  BY <1>2, PairedCount
<1>9. Cardinality(kept) \in Nat
  BY ReferencesFinite, FS_Subset, FS_CardinalityType
<1> QED
  BY <1>4, <1>7, <1>8, <1>9 DEF Delta

(***************************************************************************)
(* Transactions.                                                           *)
(***************************************************************************)
\* replace_file_chunks turns exact counts into exact counts, and leaves only
\* sound rows, provided it references every block the transaction ensured.
LEMMA ReplaceKeepsExact ==
  ASSUME NEW chs \in [Files -> ChunkMaps], NEW f \in Files,
         NEW new \in ReplacementMaps, NEW from \in 0 .. MaxIndex + 1,
         NEW bs \in Rows, ExactCounts(chs, bs),
         \A d \in Digests : EnsuredRowOK(bs[d]),
         \A d \in Digests : SoundRow(bs[d]) \/ \E i \in DOMAIN new : new[i] = d,
         ReplaceAllowed(bs, chs[f], new, from)
  PROVE  LET after == [chs EXCEPT ![f] = ReplacedMap(@, new, from)]
             out   == CountedBlocks(bs, chs[f], new, from)
         IN  /\ after \in [Files -> ChunkMaps]
             /\ out \in Rows
             /\ \A d \in Digests : SoundRow(out[d])
             /\ ExactCounts(after, out)
<1> DEFINE after == [chs EXCEPT ![f] = ReplacedMap(@, new, from)]
           out   == CountedBlocks(bs, chs[f], new, from)
<1>1. after \in [Files -> ChunkMaps]
  BY DEF ReplacedMap, ChunkMaps, ReplacementMaps
<1>2. ASSUME NEW d \in Digests
      PROVE  /\ out[d] \in Row \cup {NoRow}
             /\ SoundRow(out[d])
             /\ RowRefs(out[d]) = Cardinality(References(after, d))
  <2> DEFINE delta == Delta(chs[f], new, from, d)
             gone  == {i \in OldChunkIndexes(new, from) : chs[f][i] = d}
             come  == {i \in DOMAIN new : new[i] = d}
  <2>1. /\ delta \in Int
        /\ Cardinality(References(after, d)) = Cardinality(References(chs, d)) + delta
    BY ReplaceMovesReferences
  <2>2. bs[d] \in Row \cup {NoRow}
    BY DEF Rows
  <2>3. DeltaAllowed(bs[d], delta)
    BY DEF ReplaceAllowed
  <2>4. gone \subseteq Indexes /\ come \subseteq Indexes
    BY DEF OldChunkIndexes, ReplacementMaps
  <2>5. /\ IsFiniteSet(gone) /\ Cardinality(gone) \in Nat
        /\ IsFiniteSet(come) /\ Cardinality(come) \in Nat
    BY <2>4, IndexesFinite, FS_Subset, FS_CardinalityType
  <2>6. delta = Cardinality(come) - Cardinality(gone)
    BY DEF Delta
  <2>7. RowRefs(bs[d]) = Cardinality(References(chs, d))
    BY DEF ExactCounts
  <2>8. bs[d] = NoRow => delta <= 0
    <3>1. SUFFICES ASSUME bs[d] = NoRow PROVE delta <= 0
      OBVIOUS
    <3>2. come = {}
      BY <3>1, NoBlockAssumption DEF ReplaceAllowed
    <3>3. Cardinality(come) = 0
      BY <3>2, FS_EmptySet
    <3> HIDE DEF come, gone, delta
    <3> QED
      BY <3>3, <2>5, <2>6
  <2>9. SoundRow(bs[d]) \/ delta > 0
    <3>1. SUFFICES ASSUME ~SoundRow(bs[d]) PROVE delta > 0
      OBVIOUS
    <3>2. bs[d] # NoRow /\ bs[d].refs = 0
      BY <3>1, EnsuredRowOK(bs[d]) DEF SoundRow, EnsuredRowOK
    <3>3. come # {}
      BY <3>1
    <3>4. References(chs, d) = {}
      BY <3>2, <2>7, ReferencesFinite, FS_EmptySet DEF RowRefs
    <3>5. gone = {}
      <4>1. ASSUME NEW i \in gone PROVE <<f, i>> \in References(chs, d)
        BY <2>4 DEF References
      <4> QED
        BY <3>4, <4>1
    <3>6. Cardinality(gone) = 0
      BY <3>5, FS_EmptySet
    <3>7. Cardinality(come) # 0
      BY <2>5, <3>3, FS_EmptySet
    <3> HIDE DEF come, gone, delta
    <3> QED
      BY <3>6, <3>7, <2>5, <2>6
  <2>10. out[d] = AppliedDelta(bs[d], delta)
    BY DEF CountedBlocks
  <2>11. /\ out[d] \in Row \cup {NoRow}
         /\ SoundRow(out[d])
         /\ RowRefs(out[d]) = RowRefs(bs[d]) + delta
    <3> HIDE DEF delta, out
    <3> QED
      BY <2>1, <2>2, <2>3, <2>8, <2>9, <2>10, AppliedDeltaSound
  <2> QED
    BY <2>1, <2>7, <2>11
<1>3. out \in Rows
  BY <1>2 DEF CountedBlocks, Rows
<1> QED
  BY <1>1, <1>2, <1>3 DEF ExactCounts

\* ensure_prepared_blocks keeps counts exact and every other row sound.
LEMMA EnsureKeepsExact ==
  ASSUME NEW chs \in [Files -> ChunkMaps], NEW bs \in Rows,
         ExactCounts(chs, bs), \A d \in Digests : SoundRow(bs[d]),
         NEW used \in SUBSET Digests,
         NEW kind \in [Digests -> Kinds], NEW enc \in [Digests -> Encodings]
  PROVE  LET out == EnsuredBlocks(bs, used, kind, enc)
         IN  /\ out \in Rows
             /\ ExactCounts(chs, out)
             /\ \A d \in Digests : EnsuredRowOK(out[d])
             /\ \A d \in Digests : SoundRow(out[d]) \/ d \in used
<1> DEFINE out == EnsuredBlocks(bs, used, kind, enc)
<1>1. ASSUME NEW d \in Digests
      PROVE  /\ out[d] \in Row \cup {NoRow}
             /\ RowRefs(out[d]) = RowRefs(bs[d])
             /\ EnsuredRowOK(out[d])
             /\ SoundRow(out[d]) \/ d \in used
  <2>1. bs[d] \in Row \cup {NoRow} /\ kind[d] \in Kinds /\ enc[d] \in Encodings
    BY DEF Rows
  <2>2. CASE d \in used
    <3>1. out[d] = EnsuredRow(bs[d], kind[d], enc[d])
      BY <2>2 DEF EnsuredBlocks
    <3> QED
      BY <2>1, <2>2, <3>1, EnsuredRowSound
  <2>3. CASE d \notin used
    <3>1. out[d] = bs[d]
      BY <2>3 DEF EnsuredBlocks
    <3> QED
      BY <2>1, <3>1, SoundRow(bs[d]) DEF SoundRow, EnsuredRowOK
  <2> QED
    BY <2>2, <2>3
<1>2. out \in Rows
  BY <1>1 DEF EnsuredBlocks, Rows
<1> QED
  BY <1>1, <1>2 DEF ExactCounts

(***************************************************************************)
(* The inductive invariant.  Exact counts alone are not inductive: a clone *)
(* relies on the chunks of a new inode being holes, and the collection of  *)
(* garbage on the stamp being set only at count zero.                      *)
(***************************************************************************)
SoundRows == \A d \in Digests : SoundRow(blocks[d])

IInv == TypeOK /\ RefcountExact /\ SoundRows /\ NoChunksOfDeletedInodes

LEMMA InitIInv == Init => IInv
<1> SUFFICES ASSUME Init PROVE IInv
  OBVIOUS
<1>1. TypeOK
  BY DEF Init, TypeOK, ChunkMaps, Holes
<1>2. ASSUME NEW d \in Digests
      PROVE  RowRefs(blocks[d]) = Cardinality(References(chunks, d))
  <2>1. References(chunks, d) = {}
    BY NoBlockAssumption DEF Init, References, Holes
  <2> QED
    BY <2>1, FS_EmptySet DEF Init, RowRefs
<1>3. SoundRows /\ NoChunksOfDeletedInodes
  BY DEF Init, SoundRows, SoundRow, NoChunksOfDeletedInodes
<1> QED
  BY <1>1, <1>2, <1>3 DEF IInv, RefcountExact, ExactCounts

LEMMA NoNewIsReplacement ==
  /\ NoNew \in ReplacementMaps
  /\ DOMAIN NoNew = {}
  BY DEF NoNew, ReplacementMaps

\* Committing counted blocks and chunks of f with exact counts keeps IInv.
LEMMA CommitKeepsIInv ==
  ASSUME IInv, inodes' \in SUBSET Files, queue' \in SUBSET Digests,
         chunks' \in [Files -> ChunkMaps], blocks' \in Rows,
         \A d \in Digests : SoundRow(blocks'[d]),
         ExactCounts(chunks', blocks'),
         \A g \in Files \ inodes' : chunks'[g] = Holes
  PROVE  IInv'
  BY DEF IInv, TypeOK, Rows, RefcountExact, SoundRows, NoChunksOfDeletedInodes

LEMMA EnqueuedAreDigests ==
  ASSUME NEW bs, NEW old, NEW new, NEW from
  PROVE  EnqueuedDigests(bs, old, new, from) \in SUBSET Digests
  BY DEF EnqueuedDigests

LEMMA WriteKeepsIInv ==
  ASSUME IInv, NEW f \in Files, NEW range \in Ranges,
         NEW new \in [range -> Digests], NEW kind \in [Digests -> Kinds],
         NEW enc \in [Digests -> Encodings], Write(f, new, kind, enc)
  PROVE  IInv'
<1> DEFINE used    == {new[i] : i \in DOMAIN new}
           ensured == EnsuredBlocks(blocks, used, kind, enc)
<1>1. range \in SUBSET Indexes /\ used \in SUBSET Digests /\ DOMAIN new = range
  <2>1. PICK first \in Indexes, last \in Indexes : range = first .. last
    BY DEF Ranges
  <2>2. range \in SUBSET Indexes
    BY <2>1, MaxIndexAssumption DEF Indexes
  <2> QED
    BY <2>2
<1>2. new \in ReplacementMaps
  BY <1>1 DEF ReplacementMaps
<1>3. /\ ensured \in Rows
      /\ ExactCounts(chunks, ensured)
      /\ \A d \in Digests : EnsuredRowOK(ensured[d])
      /\ \A d \in Digests : SoundRow(ensured[d]) \/ d \in used
  BY <1>1, EnsureKeepsExact DEF IInv, TypeOK, RefcountExact, SoundRows, Rows
<1>4. NoDeletion \in 0 .. MaxIndex + 1
  BY MaxIndexAssumption DEF NoDeletion
<1>5. /\ ReplaceAllowed(ensured, chunks[f], new, NoDeletion)
      /\ chunks' = [chunks EXCEPT ![f] = ReplacedMap(@, new, NoDeletion)]
      /\ blocks' = CountedBlocks(ensured, chunks[f], new, NoDeletion)
      /\ queue' = queue \cup EnqueuedDigests(ensured, chunks[f], new, NoDeletion)
      /\ f \in inodes /\ inodes' = inodes
  BY DEF Write
<1>6. chunks \in [Files -> ChunkMaps] /\ inodes \in SUBSET Files
  BY DEF IInv, TypeOK
<1>7. \A d \in Digests : SoundRow(ensured[d]) \/ \E i \in DOMAIN new : new[i] = d
  BY <1>3
<1>8. /\ chunks' \in [Files -> ChunkMaps]
      /\ blocks' \in Rows
      /\ \A d \in Digests : SoundRow(blocks'[d])
      /\ ExactCounts(chunks', blocks')
  <2> HIDE DEF ensured, used
  <2> QED
    BY <1>2, <1>3, <1>4, <1>5, <1>6, <1>7, ReplaceKeepsExact
<1>9. \A g \in Files \ inodes' : chunks'[g] = Holes
  BY <1>5, <1>6 DEF IInv, NoChunksOfDeletedInodes
<1>10. queue' \in SUBSET Digests
  BY <1>5, EnqueuedAreDigests DEF IInv, TypeOK
<1> QED
  BY <1>5, <1>6, <1>8, <1>9, <1>10, CommitKeepsIInv

\* A deletion of the chunks of one file from an index on.
LEMMA DeletionKeepsExact ==
  ASSUME IInv, NEW f \in Files, NEW from \in 0 .. MaxIndex + 1,
         ReplaceAllowed(blocks, chunks[f], NoNew, from)
  PROVE  LET after == [chunks EXCEPT ![f] = ReplacedMap(@, NoNew, from)]
             out   == CountedBlocks(blocks, chunks[f], NoNew, from)
         IN  /\ after \in [Files -> ChunkMaps]
             /\ out \in Rows
             /\ \A d \in Digests : SoundRow(out[d])
             /\ ExactCounts(after, out)
<1>1. chunks \in [Files -> ChunkMaps] /\ blocks \in Rows
  BY DEF IInv, TypeOK, Rows
<1>2. \A d \in Digests : SoundRow(blocks[d]) /\ EnsuredRowOK(blocks[d])
  BY DEF IInv, SoundRows, SoundRow, EnsuredRowOK
<1> QED
  BY <1>1, <1>2, NoNewIsReplacement, ReplaceKeepsExact DEF IInv, RefcountExact

LEMMA TruncateAtChunkKeepsIInv ==
  ASSUME IInv, NEW f \in Files, NEW from \in Indexes, TruncateAtChunk(f, from)
  PROVE  IInv'
<1>1. from \in 0 .. MaxIndex + 1
  BY MaxIndexAssumption DEF Indexes
<1>2. /\ ReplaceAllowed(blocks, chunks[f], NoNew, from)
      /\ chunks' = [chunks EXCEPT ![f] = ReplacedMap(@, NoNew, from)]
      /\ blocks' = CountedBlocks(blocks, chunks[f], NoNew, from)
      /\ queue' = queue \cup EnqueuedDigests(blocks, chunks[f], NoNew, from)
      /\ f \in inodes /\ inodes' = inodes
  BY DEF TruncateAtChunk
<1>3. \A g \in Files \ inodes' : chunks'[g] = Holes
  BY <1>2 DEF IInv, TypeOK, NoChunksOfDeletedInodes
<1>4. queue' \in SUBSET Digests /\ inodes' \in SUBSET Files
  BY <1>2, EnqueuedAreDigests DEF IInv, TypeOK
<1> QED
  BY <1>1, <1>2, <1>3, <1>4, DeletionKeepsExact, CommitKeepsIInv

LEMMA TruncateInChunkKeepsIInv ==
  ASSUME IInv, NEW f \in Files, NEW from \in 1 .. MaxIndex + 1, NEW d \in Digests,
         NEW kind \in [Digests -> Kinds], NEW enc \in [Digests -> Encodings],
         TruncateInChunk(f, from, d, kind, enc)
  PROVE  IInv'
<1> DEFINE cut     == ReplacedMap(chunks[f], NoNew, from)
           mid     == [chunks EXCEPT ![f] = cut]
           counted == CountedBlocks(blocks, chunks[f], NoNew, from)
           kept    == [i \in {from - 1} |-> d]
           ensured == EnsuredBlocks(counted, {d}, kind, enc)
<1>1. from \in 0 .. MaxIndex + 1 /\ from - 1 \in Indexes
  BY MaxIndexAssumption DEF Indexes
<1>2. /\ f \in inodes /\ inodes' = inodes
      /\ ReplaceAllowed(blocks, chunks[f], NoNew, from)
      /\ ReplaceAllowed(ensured, cut, kept, NoDeletion)
      /\ chunks' = [chunks EXCEPT ![f] = ReplacedMap(cut, kept, NoDeletion)]
      /\ blocks' = CountedBlocks(ensured, cut, kept, NoDeletion)
      /\ queue' = queue \cup EnqueuedDigests(blocks, chunks[f], NoNew, from)
                        \cup EnqueuedDigests(ensured, cut, kept, NoDeletion)
  BY DEF TruncateInChunk
<1>3. chunks \in [Files -> ChunkMaps] /\ inodes \in SUBSET Files
  BY DEF IInv, TypeOK
<1>4. /\ mid \in [Files -> ChunkMaps]
      /\ counted \in Rows
      /\ \A e \in Digests : SoundRow(counted[e])
      /\ ExactCounts(mid, counted)
  BY <1>1, <1>2, DeletionKeepsExact
<1>5. /\ ensured \in Rows
      /\ ExactCounts(mid, ensured)
      /\ \A e \in Digests : EnsuredRowOK(ensured[e])
      /\ \A e \in Digests : SoundRow(ensured[e]) \/ e \in {d}
  <2> HIDE DEF counted, mid
  <2> QED
    BY <1>4, EnsureKeepsExact
<1>6. kept \in ReplacementMaps
  <2>1. kept \in [{from - 1} -> Digests \cup {NoBlock}]
    OBVIOUS
  <2>2. {from - 1} \in SUBSET Indexes
    BY <1>1
  <2> QED
    BY <2>1, <2>2 DEF ReplacementMaps
<1>7. NoDeletion \in 0 .. MaxIndex + 1
  BY MaxIndexAssumption DEF NoDeletion
<1>8. mid[f] = cut
  BY <1>3
<1>9. [mid EXCEPT ![f] = ReplacedMap(@, kept, NoDeletion)] = chunks'
  BY <1>2, <1>3, <1>8
<1>10. \A e \in Digests : SoundRow(ensured[e]) \/ \E i \in DOMAIN kept : kept[i] = e
  BY <1>5
<1>11. /\ chunks' \in [Files -> ChunkMaps]
       /\ blocks' \in Rows
       /\ \A e \in Digests : SoundRow(blocks'[e])
       /\ ExactCounts(chunks', blocks')
  <2>1. /\ ReplaceAllowed(ensured, mid[f], kept, NoDeletion)
        /\ blocks' = CountedBlocks(ensured, mid[f], kept, NoDeletion)
    BY <1>2, <1>8
  <2> HIDE DEF ensured, kept, mid, cut
  <2>2. /\ [mid EXCEPT ![f] = ReplacedMap(@, kept, NoDeletion)] \in [Files -> ChunkMaps]
        /\ CountedBlocks(ensured, mid[f], kept, NoDeletion) \in Rows
        /\ \A e \in Digests : SoundRow(CountedBlocks(ensured, mid[f], kept, NoDeletion)[e])
        /\ ExactCounts([mid EXCEPT ![f] = ReplacedMap(@, kept, NoDeletion)],
                       CountedBlocks(ensured, mid[f], kept, NoDeletion))
    BY <1>4, <1>5, <1>6, <1>7, <1>10, <2>1, ReplaceKeepsExact
  <2> QED
    BY <1>9, <2>1, <2>2, Zenon
<1>12. \A g \in Files \ inodes' : chunks'[g] = Holes
  BY <1>2, <1>3 DEF IInv, NoChunksOfDeletedInodes
<1>13. queue' \in SUBSET Digests
  BY <1>2, EnqueuedAreDigests DEF IInv, TypeOK
<1> QED
  BY <1>2, <1>3, <1>11, <1>12, <1>13, CommitKeepsIInv

LEMMA DeleteInodeKeepsIInv ==
  ASSUME IInv, NEW f \in Files, DeleteInode(f)
  PROVE  IInv'
<1>1. 0 \in 0 .. MaxIndex + 1
  BY MaxIndexAssumption
<1>2. /\ ReplaceAllowed(blocks, chunks[f], NoNew, 0)
      /\ chunks' = [chunks EXCEPT ![f] = Holes]
      /\ blocks' = CountedBlocks(blocks, chunks[f], NoNew, 0)
      /\ queue' = queue \cup EnqueuedDigests(blocks, chunks[f], NoNew, 0)
      /\ inodes' = inodes \ {f}
  BY DEF DeleteInode
<1>3. ReplacedMap(chunks[f], NoNew, 0) = Holes
  BY NoNewIsReplacement DEF ReplacedMap, Holes, Indexes
<1>4. chunks' = [chunks EXCEPT ![f] = ReplacedMap(@, NoNew, 0)]
  BY <1>2, <1>3
<1>5. \A g \in Files \ inodes' : chunks'[g] = Holes
  BY <1>2 DEF IInv, TypeOK, NoChunksOfDeletedInodes
<1>6. queue' \in SUBSET Digests /\ inodes' \in SUBSET Files
  BY <1>2, EnqueuedAreDigests DEF IInv, TypeOK
<1>7. /\ chunks' \in [Files -> ChunkMaps]
      /\ blocks' \in Rows
      /\ \A d \in Digests : SoundRow(blocks'[d])
      /\ ExactCounts(chunks', blocks')
  <2>1. /\ [chunks EXCEPT ![f] = ReplacedMap(@, NoNew, 0)] \in [Files -> ChunkMaps]
        /\ CountedBlocks(blocks, chunks[f], NoNew, 0) \in Rows
        /\ \A d \in Digests : SoundRow(CountedBlocks(blocks, chunks[f], NoNew, 0)[d])
        /\ ExactCounts([chunks EXCEPT ![f] = ReplacedMap(@, NoNew, 0)],
                       CountedBlocks(blocks, chunks[f], NoNew, 0))
    BY <1>1, <1>2, DeletionKeepsExact
  <2> QED
    BY <1>2, <1>4, <2>1, Zenon
<1> QED
  BY <1>5, <1>6, <1>7, CommitKeepsIInv

LEMMA CreateFileKeepsIInv ==
  ASSUME IInv, NEW f \in Files, CreateFile(f)
  PROVE  IInv'
BY DEF CreateFile, IInv, TypeOK, RefcountExact, SoundRows, NoChunksOfDeletedInodes

\* A clone is a replacement of every chunk of an inode that has only holes.
LEMMA CloneKeepsIInv ==
  ASSUME IInv, NEW f \in Files, NEW g \in Files, Clone(f, g)
  PROVE  IInv'
<1> DEFINE new == chunks[f]
<1>1. /\ f \in inodes /\ g \notin inodes /\ inodes' = inodes \cup {g}
      /\ chunks' = [chunks EXCEPT ![g] = new]
      /\ blocks' = [d \in Digests |-> AppliedDelta(blocks[d], CloneDelta(f, d))]
      /\ queue' = queue
  BY DEF Clone
<1>2. chunks \in [Files -> ChunkMaps] /\ blocks \in Rows /\ chunks[g] = Holes
  BY <1>1 DEF IInv, TypeOK, Rows, NoChunksOfDeletedInodes
<1>3. new \in ReplacementMaps /\ DOMAIN new = Indexes
  BY <1>2 DEF ChunkMaps, ReplacementMaps
<1>4. NoDeletion \in 0 .. MaxIndex + 1
  BY MaxIndexAssumption DEF NoDeletion
<1>5. ReplacedMap(chunks[g], new, NoDeletion) = new
  BY <1>2, <1>3 DEF ReplacedMap, ChunkMaps
<1>6. ASSUME NEW d \in Digests
      PROVE  Delta(chunks[g], new, NoDeletion, d) = CloneDelta(f, d)
  <2>1. {i \in OldChunkIndexes(new, NoDeletion) : chunks[g][i] = d} = {}
    BY <1>2, <1>3, NoBlockAssumption DEF Holes, OldChunkIndexes
  <2>2. Cardinality({i \in OldChunkIndexes(new, NoDeletion) : chunks[g][i] = d}) = 0
    BY <2>1, FS_EmptySet
  <2>3. {i \in DOMAIN new : new[i] = d} = {i \in Indexes : chunks[f][i] = d}
    BY <1>3
  <2>4. Cardinality({i \in Indexes : chunks[f][i] = d}) \in Nat
    BY PairedCount
  <2> QED
    BY <2>2, <2>3, <2>4 DEF Delta, CloneDelta
<1>7. ReplaceAllowed(blocks, chunks[g], new, NoDeletion)
  <2>1. ASSUME NEW i \in Indexes, new[i] # NoBlock
        PROVE  blocks[new[i]] # NoRow
    <3>1. new[i] \in Digests
      BY <1>2, <2>1 DEF ChunkMaps
    <3>2. <<f, i>> \in References(chunks, new[i])
      BY DEF References
    <3>3. Cardinality(References(chunks, new[i])) # 0
      BY <3>2, ReferencesFinite, FS_EmptySet
    <3> QED
      BY <3>1, <3>3 DEF IInv, RefcountExact, ExactCounts, RowRefs
  <2>2. ASSUME NEW d \in Digests
        PROVE  DeltaAllowed(blocks[d], Delta(chunks[g], new, NoDeletion, d))
    <3>1. CloneDelta(f, d) \in Nat
      BY PairedCount DEF CloneDelta
    <3> QED
      BY <1>6, <3>1 DEF DeltaAllowed
  <2> QED
    BY <1>3, <2>1, <2>2 DEF ReplaceAllowed
<1>8. blocks' = CountedBlocks(blocks, chunks[g], new, NoDeletion)
  BY <1>1, <1>6 DEF CountedBlocks
<1>9. \A d \in Digests : SoundRow(blocks[d]) /\ EnsuredRowOK(blocks[d])
  BY DEF IInv, SoundRows, SoundRow, EnsuredRowOK
<1>10. chunks' = [chunks EXCEPT ![g] = ReplacedMap(@, new, NoDeletion)]
  BY <1>1, <1>5
<1>11. /\ chunks' \in [Files -> ChunkMaps]
       /\ blocks' \in Rows
       /\ \A d \in Digests : SoundRow(blocks'[d])
       /\ ExactCounts(chunks', blocks')
  <2>1. ExactCounts(chunks, blocks)
    BY DEF IInv, RefcountExact
  <2> HIDE DEF new
  <2>2. /\ [chunks EXCEPT ![g] = ReplacedMap(@, new, NoDeletion)] \in [Files -> ChunkMaps]
        /\ CountedBlocks(blocks, chunks[g], new, NoDeletion) \in Rows
        /\ \A d \in Digests : SoundRow(CountedBlocks(blocks, chunks[g], new, NoDeletion)[d])
        /\ ExactCounts([chunks EXCEPT ![g] = ReplacedMap(@, new, NoDeletion)],
                       CountedBlocks(blocks, chunks[g], new, NoDeletion))
    BY <1>2, <1>3, <1>4, <1>7, <1>9, <2>1, ReplaceKeepsExact
  <2> QED
    BY <1>8, <1>10, <2>2, Zenon
<1>12. \A h \in Files \ inodes' : chunks'[h] = Holes
  BY <1>1, <1>2 DEF IInv, NoChunksOfDeletedInodes
<1>13. inodes' \in SUBSET Files /\ queue' \in SUBSET Digests
  BY <1>1 DEF IInv, TypeOK
<1> QED
  BY <1>11, <1>12, <1>13, CommitKeepsIInv

\* A change of one row that moves no count keeps the invariant.
LEMMA RowChangeKeepsIInv ==
  ASSUME IInv, NEW d \in Digests, NEW row \in Row \cup {NoRow},
         SoundRow(row), RowRefs(row) = RowRefs(blocks[d]),
         blocks' = [blocks EXCEPT ![d] = row],
         UNCHANGED <<inodes, chunks, queue>>
  PROVE  IInv'
<1>1. blocks \in Rows /\ blocks' \in Rows
  BY DEF IInv, TypeOK, Rows
<1>2. ASSUME NEW e \in Digests
      PROVE  RowRefs(blocks'[e]) = RowRefs(blocks[e]) /\ SoundRow(blocks'[e])
  BY <1>1 DEF Rows, IInv, SoundRows
<1>3. ExactCounts(chunks', blocks')
  BY <1>2 DEF IInv, RefcountExact, ExactCounts, References
<1> QED
  BY <1>1, <1>2, <1>3, CommitKeepsIInv DEF IInv, TypeOK, NoChunksOfDeletedInodes

LEMMA BackgroundKeepsIInv ==
  ASSUME IInv, NEW d \in Digests,
         Demote(d) \/ CopyUp(d) \/ DropColdCopy(d) \/ CollectGarbage(d)
  PROVE  IInv'
<1> DEFINE row == blocks[d]
<1>1. SoundRow(row) /\ row \in Row \cup {NoRow}
  BY DEF IInv, SoundRows, TypeOK
<1>2. CASE Demote(d)
  <2>1. row \in Row /\ row # NoRow /\ row.kind = "tiered"
    BY <1>1, <1>2, NoRowIsNoRow DEF Demote, MayDemote
  <2>2. Demoted(row) \in Row /\ Demoted(row) # NoRow
    BY <2>1, DemotedType, NoRowIsNoRow
  <2>3. /\ Demoted(row).kind = row.kind /\ Demoted(row).refs = row.refs
        /\ Demoted(row).garbage = row.garbage /\ Demoted(row).cold = TRUE
        /\ Demoted(row).pref = 2
    BY <2>1 DEF Demoted, Row
  <2>4. SoundRow(Demoted(row)) /\ RowRefs(Demoted(row)) = RowRefs(row)
    BY <1>1, <2>1, <2>2, <2>3 DEF SoundRow, RowRefs, CheckConstraint, Tiers
  <2>5. blocks' = [blocks EXCEPT ![d] = Demoted(row)]
    BY <1>2 DEF Demote
  <2>6. UNCHANGED <<inodes, chunks, queue>>
    BY <1>2 DEF Demote
  <2> QED
    BY <2>2, <2>4, <2>5, <2>6, RowChangeKeepsIInv
<1>3. CASE CopyUp(d)
  <2> DEFINE new == PromotedByCopyUp(row)
  <2>1. ASSUME row # NoRow
        PROVE  /\ new \in Row
               /\ new.kind = row.kind /\ new.refs = row.refs /\ new.garbage = row.garbage
    <3>1. row \in Row
      BY <1>1, <2>1
    <3> QED
      BY <3>1, PromotedByCopyUpType DEF PromotedByCopyUp, Row
  <2>2. /\ blocks' = [blocks EXCEPT ![d] = UpdatedByHash(row, new)]
        /\ UNCHANGED <<inodes, chunks, queue>>
    BY <1>3 DEF CopyUp
  <2> HIDE DEF new
  <2> QED
    BY <1>1, <2>1, <2>2, UpdatedByHashSound, RowChangeKeepsIInv
<1>4. CASE DropColdCopy(d)
  <2> DEFINE out == [row EXCEPT !.cold = FALSE]
  <2>1. /\ row \in Row /\ row # NoRow /\ row.kind = "tiered"
        /\ row.hot /\ row.pref = 1
    BY <1>1, <1>4, NoRowIsNoRow DEF DropColdCopy, PromotedColdCopy
  <2>2. out \in Row /\ out # NoRow
    BY <2>1, RowUpdates, NoRowIsNoRow
  <2>3. /\ out.kind = row.kind /\ out.refs = row.refs
        /\ out.garbage = row.garbage /\ out.hot = row.hot /\ out.pref = row.pref
    BY <2>1 DEF Row
  <2>4. SoundRow(out) /\ RowRefs(out) = RowRefs(row)
    BY <1>1, <2>1, <2>2, <2>3 DEF SoundRow, RowRefs, CheckConstraint, Tiers
  <2>5. /\ blocks' = [blocks EXCEPT ![d] = out]
        /\ UNCHANGED <<inodes, chunks, queue>>
    BY <1>4 DEF DropColdCopy
  <2> HIDE DEF out
  <2> QED
    BY <2>2, <2>4, <2>5, RowChangeKeepsIInv
<1>5. CASE CollectGarbage(d)
  <2>1. RowRefs(NoRow) = RowRefs(row)
    BY <1>5 DEF CollectGarbage, CollectableGarbage, RowRefs
  <2>2. SoundRow(NoRow)
    BY DEF SoundRow
  <2>3. /\ blocks' = [blocks EXCEPT ![d] = NoRow]
        /\ UNCHANGED <<inodes, chunks, queue>>
    BY <1>5 DEF CollectGarbage
  <2> QED
    BY <2>1, <2>2, <2>3, RowChangeKeepsIInv
<1> QED
  BY <1>2, <1>3, <1>4, <1>5

LEMMA RecordPresenceKeepsIInv ==
  ASSUME IInv, NEW d \in Digests, NEW repair \in Corrections, RecordPresence(d, repair)
  PROVE  IInv'
<1> DEFINE row == blocks[d]
           new == Repaired(row, repair)
<1>1. SoundRow(row) /\ row \in Row \cup {NoRow}
  BY DEF IInv, SoundRows, TypeOK
<1>2. repair \in Repairs
  BY DEF Corrections, Repairs
<1>3. ASSUME row # NoRow
      PROVE  /\ new \in Row
             /\ new.kind = row.kind /\ new.refs = row.refs /\ new.garbage = row.garbage
  BY <1>1, <1>2, <1>3, RepairedColumns
<1>4. /\ blocks' = [blocks EXCEPT ![d] = UpdatedByHash(row, new)]
      /\ UNCHANGED <<inodes, chunks, queue>>
  BY DEF RecordPresence
<1> HIDE DEF new
<1> QED
  BY <1>1, <1>3, <1>4, UpdatedByHashSound, RowChangeKeepsIInv

LEMMA NextKeepsIInv == IInv /\ [Next]_vars => IInv'
<1> SUFFICES ASSUME IInv, [Next]_vars PROVE IInv'
  OBVIOUS
<1>1. ASSUME NEW f \in Files, CreateFile(f) PROVE IInv'
  BY <1>1, CreateFileKeepsIInv
<1>2. ASSUME NEW f \in Files, DeleteInode(f) PROVE IInv'
  BY <1>2, DeleteInodeKeepsIInv
<1>3. ASSUME NEW f \in Files, NEW kind \in [Digests -> Kinds],
             NEW enc \in [Digests -> Encodings], NEW range \in Ranges,
             NEW new \in [range -> Digests], Write(f, new, kind, enc)
      PROVE  IInv'
  BY <1>3, WriteKeepsIInv
<1>4. ASSUME NEW f \in Files, NEW kind \in [Digests -> Kinds],
             NEW enc \in [Digests -> Encodings], NEW from \in 1 .. MaxIndex + 1,
             NEW d \in Digests, TruncateInChunk(f, from, d, kind, enc)
      PROVE  IInv'
  BY <1>4, TruncateInChunkKeepsIInv
<1>5. ASSUME NEW f \in Files, NEW from \in Indexes, TruncateAtChunk(f, from)
      PROVE  IInv'
  BY <1>5, TruncateAtChunkKeepsIInv
<1>6. ASSUME NEW f \in Files, NEW g \in Files, Clone(f, g) PROVE IInv'
  BY <1>6, CloneKeepsIInv
<1>7. ASSUME NEW d \in Digests,
             Demote(d) \/ CopyUp(d) \/ DropColdCopy(d) \/ CollectGarbage(d)
      PROVE  IInv'
  BY <1>7, BackgroundKeepsIInv
<1>8. ASSUME NEW d \in Digests, NEW repair \in Corrections, RecordPresence(d, repair)
      PROVE  IInv'
  BY <1>8, RecordPresenceKeepsIInv
<1>9. ASSUME NEW done \in SUBSET queue, Drain(done) PROVE IInv'
  BY <1>9 DEF Drain, IInv, TypeOK, RefcountExact, SoundRows, NoChunksOfDeletedInodes
<1>10. CASE UNCHANGED vars
  BY <1>10 DEF vars, IInv, TypeOK, RefcountExact, SoundRows, NoChunksOfDeletedInodes
<1> QED
  BY <1>1, <1>2, <1>3, <1>4, <1>5, <1>6, <1>7, <1>8, <1>9, <1>10 DEF Next

LEMMA SpecIInv == Spec => []IInv
  BY InitIInv, NextKeepsIInv, PTL DEF Spec

(***************************************************************************)
(* Theorems.                                                               *)
(***************************************************************************)
\* The metadata tables keep their shape (schema of inodes, file_chunks,
\* blocks and pending_deletions).
THEOREM ChunkRefsTypeOK == Spec => []TypeOK
<1>1. IInv => TypeOK
  BY DEF IInv
<1> QED
  BY <1>1, SpecIInv, PTL

\* blocks.refcount is always the number of chunks that map to the block.
THEOREM ChunkRefsRefcountExact == Spec => []RefcountExact
<1>1. IInv => RefcountExact
  BY DEF IInv
<1> QED
  BY <1>1, SpecIInv, PTL

\* A block is stamped as garbage exactly while nothing references it.
THEOREM ChunkRefsGarbageMarkedExactly == Spec => []GarbageMarkedExactly
<1>1. IInv => GarbageMarkedExactly
  BY DEF IInv, SoundRows, SoundRow, GarbageMarkedExactly
<1> QED
  BY <1>1, SpecIInv, PTL

\* No transaction leaves a row that the CHECK of `blocks` refuses; of all the
\* statements only the late updates by hash need the CHECK for that.
THEOREM ChunkRefsRowsLegal == Spec => []RowsLegal
<1>1. IInv => RowsLegal
  BY DEF IInv, SoundRows, SoundRow, RowsLegal
<1> QED
  BY <1>1, SpecIInv, PTL

\* apply_block_refcount_deltas never raises while a file is emptied.
THEOREM ChunkRefsEveryFileCanBeEmptied == Spec => []EveryFileCanBeEmptied
<1>1. ASSUME IInv, NEW f \in inodes, NEW d \in Digests
      PROVE  DeltaAllowed(blocks[d], Delta(chunks[f], NoNew, 0, d))
  <2> DEFINE delta == Delta(chunks[f], NoNew, 0, d)
             after == [chunks EXCEPT ![f] = ReplacedMap(@, NoNew, 0)]
  <2>1. f \in Files /\ chunks \in [Files -> ChunkMaps] /\ blocks[d] \in Row \cup {NoRow}
    BY <1>1 DEF IInv, TypeOK
  <2>2. 0 \in 0 .. MaxIndex + 1
    BY MaxIndexAssumption
  <2>3. /\ delta \in Int
        /\ Cardinality(References(after, d)) = Cardinality(References(chunks, d)) + delta
    BY <2>1, <2>2, NoNewIsReplacement, ReplaceMovesReferences
  <2>4. Cardinality(References(after, d)) \in Nat
    BY ReferencesFinite
  <2>5. RowRefs(blocks[d]) = Cardinality(References(chunks, d))
    BY <1>1 DEF IInv, RefcountExact, ExactCounts
  <2>6. RowRefs(blocks[d]) + delta >= 0
    BY <2>3, <2>4, <2>5
  <2>7. delta < 0 => RowRefs(blocks[d]) # 0
    BY <2>3, <2>6, <2>5, ReferencesFinite
  <2>8. delta < 0 => blocks[d] # NoRow /\ RowRefs(blocks[d]) = blocks[d].refs
    BY <2>7 DEF RowRefs
  <2>9. delta < 0 => blocks[d] # NoRow /\ blocks[d].refs + delta >= 0
    BY <2>6, <2>8
  <2> QED
    BY <2>9 DEF DeltaAllowed
<1>2. IInv => EveryFileCanBeEmptied
  BY <1>1, NoNewIsReplacement DEF EveryFileCanBeEmptied, ReplaceAllowed
<1> QED
  BY <1>2, SpecIInv, PTL
=============================================================================
