----------------------------- MODULE ChunkRefs ------------------------------
(***************************************************************************)
(* The metadata of file contents: `file_chunks` maps the chunks of every   *)
(* file to content-addressed blocks, `blocks.refcount` counts the chunks   *)
(* that map to a block, and `pending_deletions` queues hot files whose     *)
(* block lost its last reference.                                          *)
(*                                                                         *)
(* Every action is one committed write transaction of MetadataStore (write *)
(* transactions exclude each other, and an exception rolls all of one      *)
(* back).  What happens to the block files between transactions is the     *)
(* subject of BlockTiering.                                                *)
(***************************************************************************)
EXTENDS BlockRows, FiniteSets

CONSTANTS
  Files,        \* inode numbers of regular files
  MaxIndex,     \* bound: the largest chunk index of a file
  NoBlock       \* a chunk without a row in `file_chunks` (a hole)

ASSUME FilesAssumption == IsFiniteSet(Files)
ASSUME MaxIndexAssumption == MaxIndex \in Nat
ASSUME NoBlockAssumption == NoBlock \notin Digests

Indexes == 0 .. MaxIndex
Holes == [i \in Indexes |-> NoBlock]
NoDeletion == MaxIndex + 1      \* delete_from = None

VARIABLES
  inodes,       \* the regular files that exist
  chunks,       \* file_chunks
  blocks,       \* blocks
  queue         \* the digests in pending_deletions, all of tier 1

vars == <<inodes, chunks, blocks, queue>>

ChunkMaps == [Indexes -> Digests \cup {NoBlock}]

TypeOK ==
  /\ inodes \subseteq Files
  /\ chunks \in [Files -> ChunkMaps]
  /\ blocks \in [Digests -> Row \cup {NoRow}]
  /\ queue \subseteq Digests

Init ==
  /\ inodes = {}
  /\ chunks = [f \in Files |-> Holes]
  /\ blocks = [d \in Digests |-> NoRow]
  /\ queue = {}

(***************************************************************************)
(* replace_file_chunks: replaces the chunks in DOMAIN new, deletes the     *)
(* others from index `from` on, and moves the reference counts by the net  *)
(* difference for each digest.                                             *)
(***************************************************************************)
OldChunkIndexes(new, from) == DOMAIN new \cup {i \in Indexes : i >= from}

ReplacedMap(old, new, from) ==
  [i \in Indexes |-> IF i \in DOMAIN new THEN new[i]
                     ELSE IF i >= from THEN NoBlock ELSE old[i]]

\* A mutated form: the rows deleted by `delete_from` are not counted as old.
DeltaIgnoringDeleted(old, new, from, d) ==
  Cardinality({i \in DOMAIN new : new[i] = d})
    - Cardinality({i \in DOMAIN new : old[i] = d})

Delta(old, new, from, d) ==
  Cardinality({i \in DOMAIN new : new[i] = d})
    - Cardinality({i \in OldChunkIndexes(new, from) : old[i] = d})

\* No exception: the foreign key and the check for a negative count pass.
ReplaceAllowed(bs, old, new, from) ==
  /\ \A i \in DOMAIN new : new[i] # NoBlock => bs[new[i]] # NoRow
  /\ \A d \in Digests : DeltaAllowed(bs[d], Delta(old, new, from, d))

CountedBlocks(bs, old, new, from) ==
  [d \in Digests |-> AppliedDelta(bs[d], Delta(old, new, from, d))]

\* A mutated form: a hole counts as a block that was released.
EnqueuedDigestsOfHoles(bs, old, new, from) ==
  {old[i] : i \in OldChunkIndexes(new, from)}
    \ {d \in Digests : ~QueuesHotFile(bs[d], Delta(old, new, from, d))}

EnqueuedDigests(bs, old, new, from) ==
  {d \in Digests : QueuesHotFile(bs[d], Delta(old, new, from, d))}

(***************************************************************************)
(* ensure_prepared_blocks for the blocks of a write, before it counts any  *)
(* reference to them.                                                      *)
(***************************************************************************)
EnsuredBlocks(bs, used, kind, enc) ==
  [d \in Digests |-> IF d \in used THEN EnsuredRow(bs[d], kind[d], enc[d])
                     ELSE bs[d]]

\* The indexes of a write: contiguous, as plan_write_file makes them.
Ranges == {first .. last : first \in Indexes, last \in Indexes} \ {{}}

(***************************************************************************)
(* Transactions of the FUSE operations.                                    *)
(***************************************************************************)
\* create and mknod: an inode without chunks.
CreateFile(f) ==
  /\ f \notin inodes
  /\ inodes' = inodes \cup {f}
  /\ UNCHANGED <<chunks, blocks, queue>>

\* commit_prepared_write: the blocks first, then chunks and counts.
Write(f, new, kind, enc) ==
  LET ensured == EnsuredBlocks(blocks, {new[i] : i \in DOMAIN new}, kind, enc)
  IN  /\ f \in inodes
      /\ ReplaceAllowed(ensured, chunks[f], new, NoDeletion)
      /\ chunks' = [chunks EXCEPT ![f] = ReplacedMap(@, new, NoDeletion)]
      /\ blocks' = CountedBlocks(ensured, chunks[f], new, NoDeletion)
      /\ queue' = queue \cup EnqueuedDigests(ensured, chunks[f], new, NoDeletion)
      /\ UNCHANGED inodes

NoNew == [i \in {} |-> NoBlock]

\* truncate_file to a whole number of chunks, and remove_file_chunks.
TruncateAtChunk(f, from) ==
  /\ f \in inodes
  /\ ReplaceAllowed(blocks, chunks[f], NoNew, from)
  /\ chunks' = [chunks EXCEPT ![f] = ReplacedMap(@, NoNew, from)]
  /\ blocks' = CountedBlocks(blocks, chunks[f], NoNew, from)
  /\ queue' = queue \cup EnqueuedDigests(blocks, chunks[f], NoNew, from)
  /\ UNCHANGED inodes

\* truncate_file within chunk `from - 1`: the tail goes, then the boundary
\* chunk is rewritten with its kept bytes, content d, in the same transaction.
TruncateInChunk(f, from, d, kind, enc) ==
  LET cut     == ReplacedMap(chunks[f], NoNew, from)
      counted == CountedBlocks(blocks, chunks[f], NoNew, from)
      kept    == [i \in {from - 1} |-> d]
      ensured == EnsuredBlocks(counted, {d}, kind, enc)
  IN  /\ f \in inodes
      /\ ReplaceAllowed(blocks, chunks[f], NoNew, from)
      /\ ReplaceAllowed(ensured, cut, kept, NoDeletion)
      /\ chunks' = [chunks EXCEPT ![f] = ReplacedMap(cut, kept, NoDeletion)]
      /\ blocks' = CountedBlocks(ensured, cut, kept, NoDeletion)
      /\ queue' = queue \cup EnqueuedDigests(blocks, chunks[f], NoNew, from)
                        \cup EnqueuedDigests(ensured, cut, kept, NoDeletion)
      /\ UNCHANGED inodes

\* A mutated form: each digest is counted once however many chunks map to it.
CloneDeltaOnce(f, d) == IF \E i \in Indexes : chunks[f][i] = d THEN 1 ELSE 0

CloneDelta(f, d) == Cardinality({i \in Indexes : chunks[f][i] = d})

\* clone_file_node: the new inode g shares every block of f.
Clone(f, g) ==
  /\ f \in inodes /\ g \notin inodes
  /\ inodes' = inodes \cup {g}
  /\ chunks' = [chunks EXCEPT ![g] = chunks[f]]
  /\ blocks' = [d \in Digests |-> AppliedDelta(blocks[d], CloneDelta(f, d))]
  /\ UNCHANGED queue

\* _delete_inode_payload: all chunks go before the inode row, whose deletion
\* would cascade to them without touching any count.
DeleteInode(f) ==
  /\ f \in inodes
  /\ ReplaceAllowed(blocks, chunks[f], NoNew, 0)
  /\ inodes' = inodes \ {f}
  /\ chunks' = [chunks EXCEPT ![f] = Holes]
  /\ blocks' = CountedBlocks(blocks, chunks[f], NoNew, 0)
  /\ queue' = queue \cup EnqueuedDigests(blocks, chunks[f], NoNew, 0)

(***************************************************************************)
(* Transactions of the background work, which move no reference.           *)
(***************************************************************************)
\* demote_cold_blocks, one block.
Demote(d) ==
  /\ MayDemote(blocks[d])
  /\ blocks' = [blocks EXCEPT ![d] = Demoted(@)]
  /\ UNCHANGED <<inodes, chunks, queue>>

\* Both updates below were begun for a row that has changed since: it may have
\* been demoted, released, collected, or inserted again, even as inline.
\* _copy_up_cold_block: a refused update is logged.
CopyUp(d) ==
  /\ blocks' = [blocks EXCEPT ![d] = UpdatedByHash(@, PromotedByCopyUp(@))]
  /\ UNCHANGED <<inodes, chunks, queue>>

\* What a read of a tiered block may have found wrong with its row.
Corrections ==
  [hot : {"yes"}, cold : {"keep", "yes", "no"}, pref : {1}]
    \cup {[hot |-> "no", cold |-> c, pref |-> 2] : c \in {"keep", "yes"}}
    \cup {[hot |-> "keep", cold |-> "no", pref |-> 1]}

\* record_block_presence: a refused update fails the read.
RecordPresence(d, repair) ==
  /\ blocks' = [blocks EXCEPT ![d] = UpdatedByHash(@, Repaired(@, repair))]
  /\ UNCHANGED <<inodes, chunks, queue>>

\* cleanup removes the cold copy of a promoted block.
DropColdCopy(d) ==
  /\ PromotedColdCopy(blocks[d])
  /\ blocks' = [blocks EXCEPT ![d].cold = FALSE]
  /\ UNCHANGED <<inodes, chunks, queue>>

\* cleanup deletes a row that indexes a cold copy nobody references.
CollectGarbage(d) ==
  /\ CollectableGarbage(blocks[d])
  /\ blocks' = [blocks EXCEPT ![d] = NoRow]
  /\ UNCHANGED <<inodes, chunks, queue>>

\* drain_pending_deletions removes the queue entries it has unlinked.
Drain(done) ==
  /\ done # {} /\ done \subseteq queue
  /\ queue' = queue \ done
  /\ UNCHANGED <<inodes, chunks, blocks>>

Next ==
  \/ \E f \in Files : CreateFile(f) \/ DeleteInode(f)
  \/ \E f \in Files, kind \in [Digests -> Kinds], enc \in [Digests -> Encodings] :
       \/ \E range \in Ranges : \E new \in [range -> Digests] :
            Write(f, new, kind, enc)
       \/ \E from \in 1 .. MaxIndex + 1, d \in Digests :
            TruncateInChunk(f, from, d, kind, enc)
  \/ \E f \in Files, from \in Indexes : TruncateAtChunk(f, from)
  \/ \E f, g \in Files : Clone(f, g)
  \/ \E d \in Digests :
       \/ Demote(d) \/ CopyUp(d) \/ DropColdCopy(d) \/ CollectGarbage(d)
       \/ \E repair \in Corrections : RecordPresence(d, repair)
  \/ \E done \in SUBSET queue : Drain(done)

Spec == Init /\ [][Next]_vars

(***************************************************************************)
(* Properties.                                                             *)
(***************************************************************************)
\* The chunks, of all files, that map to block d.
References(chs, d) == {p \in Files \X Indexes : chs[p[1]][p[2]] = d}

ExactCounts(chs, bs) ==
  \A d \in Digests : RowRefs(bs[d]) = Cardinality(References(chs, d))

\* Every reference count is the number of chunks that map to the block, over
\* overwrites, truncations, clones and deletions; in particular no chunk maps
\* to a block without a row (blocks.refcount and the foreign key).
RefcountExact == ExactCounts(chunks, blocks)

\* A row is stamped as cold garbage exactly while nothing references it, so a
\* block in use is never collected and an unused one is never forgotten
\* (cold_gc_enqueued_ns in apply_block_refcount_deltas and clone_file_node).
GarbageMarkedExactly ==
  \A d \in Digests :
    blocks[d] # NoRow => (blocks[d].garbage <=> blocks[d].refs = 0)

\* No sequence of transactions leads to a row the table's CHECK refuses (it
\* would fail the transaction), and only tiered blocks are garbage.  The late
\* updates by hash are the exception: the CHECK may refuse them, and nothing
\* changes.  Every other statement sees the row in its own transaction.
RowsLegal ==
  \A d \in Digests : blocks[d] # NoRow =>
    CheckConstraint(blocks[d]) /\ (blocks[d].garbage => blocks[d].kind = "tiered")

\* An inode that is gone has no chunk left whose count nobody would lower.
NoChunksOfDeletedInodes == \A f \in Files \ inodes : chunks[f] = Holes

\* The RuntimeErrors of apply_block_refcount_deltas cannot be raised: every
\* file can always be emptied.
EveryFileCanBeEmptied ==
  \A f \in inodes : ReplaceAllowed(blocks, chunks[f], NoNew, 0)
=============================================================================
