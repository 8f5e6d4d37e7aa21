----------------------------- MODULE Namespace ------------------------------
(***************************************************************************)
(* Inodes, directory entries and open file handles: inode_fuse.py with     *)
(* metadata/namespace.py, file_ops.py and handles.py.                      *)
(*                                                                         *)
(* Every FUSE operation on the namespace is one write transaction, hence   *)
(* one action.  open and release are not: the look-up of the inode and the *)
(* registration of the handle, or the removal of the handle, the look-up   *)
(* and the deletion, are separate steps.  Permissions are left open; what  *)
(* a file contains is the subject of ChunkRefs and FileContent.            *)
(***************************************************************************)
EXTENDS Naturals, FiniteSets, FiniteSetsExt

CONSTANTS
  Names,
  Handles,      \* file handles; each may be opened and released again and again
  MaxInode,     \* bound: the largest inode number
  NoInode,      \* no row of `inodes` has the number
  RemoveBetween \* BOOLEAN: names may be removed between the steps of open and release

ASSUME NamesAssumption == IsFiniteSet(Names)  \* a name is a string of at most 255 bytes
ASSUME MaxInodeAssumption == MaxInode \in Nat \ {0}
ASSUME RemoveBetweenAssumption == RemoveBetween \in BOOLEAN
ASSUME NoInodeAssumption ==
  NoInode \notin [kind : {"dir", "file", "symlink"}, nlink : Nat]

Root == 1
Ids == 1 .. MaxInode
Nowhere == 0        \* no inode number

VARIABLES
  inodes,       \* the table `inodes`
  entries,      \* dir_entries: the inode of each <<directory, name>>, or Nowhere
  handles,      \* what each handle does, and on which inode; `lost` is history:
                \* the inode it was opened for has been deleted
  stranded,     \* history: the inodes that had no name when the process died
  abandoned     \* history: those whose deletion has failed in this process

vars == <<inodes, entries, handles, stranded, abandoned>>

Kinds == {"dir", "file", "symlink"}
Closed == [pc |-> "closed", ino |-> Nowhere, lost |-> FALSE]

TypeOK ==
  /\ inodes \in [Ids -> [kind : Kinds, nlink : Nat] \cup {NoInode}]
  /\ entries \in [Ids \X Names -> Ids \cup {Nowhere}]
  /\ handles \in [Handles ->
       [pc : {"closed", "opening", "open", "removed", "closing", "cleaning"},
        ino : Ids \cup {Nowhere}, lost : BOOLEAN]]
  /\ stranded \subseteq Ids /\ abandoned \subseteq Ids

\* _ensure_root
Init ==
  /\ inodes = [i \in Ids |-> IF i = Root THEN [kind |-> "dir", nlink |-> 1] ELSE NoInode]
  /\ entries = [p \in Ids \X Names |-> Nowhere]
  /\ handles = [h \in Handles |-> Closed]
  /\ stranded = {} /\ abandoned = {}

Exists(i) == i \in Ids /\ inodes[i] # NoInode
IsDir(i) == Exists(i) /\ inodes[i].kind = "dir"
HasChildren(i) == \E n \in Names : entries[<<i, n>>] # Nowhere

\* The row id SQLite gives a new inode: one more than the largest in use.
NewInode == Max({i \in Ids : Exists(i)}) + 1

\* A mutated form: the count of open handles goes down at the end of a release.
HasOpenFileUntilClosed(i) ==
  \E h \in Handles : handles[h].pc # "closed" /\ handles[h].ino = i

\* has_open_file: some registered handle is bound to the inode.
HasOpenFile(i) == \E h \in Handles : handles[h].pc = "open" /\ handles[h].ino = i

(***************************************************************************)
(* Entries.                                                                *)
(***************************************************************************)
\* is_descendant: up from `from` along parent links, `node` is met, that is, it
\* is in every set of inodes that has `from` and the parents of its members.
Parents(i) == {p[1] : p \in {p \in DOMAIN entries : entries[p] = i}}
UpwardClosed(S) == \A i \in S : Parents(i) \subseteq S
IsDescendant(from, node) ==
  \A S \in SUBSET Ids : from \in S /\ UpwardClosed(S) => node \in S

Linked(nodes, i) == [nodes EXCEPT ![i].nlink = @ + 1]
\* A mutated form: the removal of an entry takes two links.
UnlinkedTwice(nodes, i) == [nodes EXCEPT ![i].nlink = @ - 2]
Unlinked(nodes, i) == [nodes EXCEPT ![i].nlink = @ - 1]

\* Deleting the row of inode i: the handles bound to it have lost their file.
Forgotten(i) ==
  [h \in Handles |-> IF handles[h].ino = i /\ handles[h].pc \in {"opening", "open"}
                     THEN [handles[h] EXCEPT !.lost = TRUE] ELSE handles[h]]

\* Without RemoveBetween no name of inode i goes while an open has looked it
\* up and not registered its handle, nor while one handle of it is being
\* released and another is open.
Releasing(i) ==
  \E h \in Handles : handles[h].ino = i /\ handles[h].pc \in {"removed", "closing", "cleaning"}
Settled(i) ==
  RemoveBetween \/
    /\ \A h \in Handles : handles[h].ino = i => handles[h].pc # "opening"
    /\ ~(Releasing(i) /\ HasOpenFile(i))

\* A mutated form: an open file is deleted with its last name.
RemoveEntryNodeAtOnce(entries1, i) ==
  /\ Settled(i)
  /\ entries' = entries1
  /\ IF inodes[i].nlink > 1
     THEN inodes' = Unlinked(inodes, i) /\ UNCHANGED handles
     ELSE inodes' = [inodes EXCEPT ![i] = NoInode] /\ handles' = Forgotten(i)

\* _remove_entry_node: the entry is gone from `entries1`; the inode loses a
\* link, and with the last one it is deleted unless it is open.
RemoveEntryNode(entries1, i) ==
  /\ Settled(i)
  /\ entries' = entries1
  /\ IF inodes[i].nlink > 1 \/ HasOpenFile(i)
     THEN inodes' = Unlinked(inodes, i) /\ UNCHANGED handles
     ELSE inodes' = [inodes EXCEPT ![i] = NoInode] /\ handles' = Forgotten(i)

(***************************************************************************)
(* Operations on the namespace.                                            *)
(***************************************************************************)
\* insert_node for mkdir, mknod, symlink, create and clonefile.
Insert(parent, name, kind) ==
  /\ IsDir(parent) /\ entries[<<parent, name>>] = Nowhere
  /\ NewInode \in Ids
  /\ inodes' = [inodes EXCEPT ![NewInode] = [kind |-> kind, nlink |-> 1]]
  /\ entries' = [entries EXCEPT ![<<parent, name>>] = NewInode]

Make(parent, name, kind) == Insert(parent, name, kind) /\ UNCHANGED handles

\* link, of anything but a directory.
Link(i, parent, name) ==
  /\ Exists(i) /\ ~IsDir(i) /\ i \notin stranded
  /\ IsDir(parent) /\ entries[<<parent, name>>] = Nowhere
  /\ inodes' = Linked(inodes, i)
  /\ entries' = [entries EXCEPT ![<<parent, name>>] = i]
  /\ UNCHANGED handles

\* unlink and rmdir.
RemoveChildInode(parent, name) ==
  LET i == entries[<<parent, name>>]
  IN  /\ IsDir(parent) /\ i # Nowhere
      /\ IsDir(i) => ~HasChildren(i)
      /\ RemoveEntryNode([entries EXCEPT ![<<parent, name>>] = Nowhere], i)

\* A mutated form: a directory may be moved below itself.
RenamableIntoItself(source, newParent, target) ==
  /\ source # Nowhere /\ source # target
  /\ IsDir(newParent)
  /\ target # Nowhere => (IsDir(target) <=> IsDir(source)) /\ ~HasChildren(target)

\* The refusals of rename; a rename onto another name of the same inode
\* does nothing.
Renamable(source, newParent, target) ==
  /\ source # Nowhere /\ source # target
  /\ IsDir(newParent)
  /\ IsDir(source) => ~IsDescendant(newParent, source)
  /\ target # Nowhere => (IsDir(target) <=> IsDir(source)) /\ ~HasChildren(target)

\* A mutated form: the replaced inode keeps its link.
RenameKeepingTarget(parent, name, newParent, newName) ==
  LET source == entries[<<parent, name>>]
      target == entries[<<newParent, newName>>]
  IN  /\ IsDir(parent) /\ Renamable(source, newParent, target)
      /\ entries' = [entries EXCEPT ![<<parent, name>>] = Nowhere,
                                    ![<<newParent, newName>>] = source]
      /\ UNCHANGED <<inodes, handles>>

Rename(parent, name, newParent, newName) ==
  LET source == entries[<<parent, name>>]
      target == entries[<<newParent, newName>>]
      moved  == [entries EXCEPT ![<<parent, name>>] = Nowhere,
                                ![<<newParent, newName>>] = source]
  IN  /\ IsDir(parent) /\ Renamable(source, newParent, target)
      /\ IF target = Nowhere
         THEN entries' = moved /\ UNCHANGED <<inodes, handles>>
         ELSE RemoveEntryNode(moved, target)

(***************************************************************************)
(* Handles.                                                                *)
(***************************************************************************)
Opened(i) == [pc |-> "open", ino |-> i, lost |-> FALSE]

\* create of a new file, or of one that exists: the handle is registered
\* inside the transaction.
Create(h, parent, name) ==
  LET existing == entries[<<parent, name>>]
  IN  /\ handles[h].pc = "closed" /\ IsDir(parent)
      /\ IF existing = Nowhere
         THEN Insert(parent, name, "file") /\ handles' = [handles EXCEPT ![h] = Opened(NewInode)]
         ELSE /\ inodes[existing].kind = "file"
              /\ handles' = [handles EXCEPT ![h] = Opened(existing)]
              /\ UNCHANGED <<inodes, entries>>

\* open: the inode is looked up in a read transaction ...
OpenLookup(h, i) ==
  /\ handles[h].pc = "closed"
  /\ Exists(i) /\ inodes[i].kind = "file" /\ i \notin stranded
  /\ inodes[i].nlink > 0 \/ RemoveBetween
  /\ handles' = [handles EXCEPT ![h] = [Opened(i) EXCEPT !.pc = "opening"]]
  /\ UNCHANGED <<inodes, entries>>

\* ... and the handle is registered after it.
OpenRegister(h) ==
  /\ handles[h].pc = "opening"
  /\ handles' = [handles EXCEPT ![h].pc = "open"]
  /\ UNCHANGED <<inodes, entries>>

\* A truncation between the two (O_TRUNC) may fail, and no handle is registered.
OpenFails(h) ==
  /\ handles[h].pc = "opening"
  /\ handles' = [handles EXCEPT ![h] = Closed]
  /\ UNCHANGED <<inodes, entries>>

\* release: the handle leaves the table ...
Release(h) ==
  /\ handles[h].pc = "open"
  /\ handles' = [handles EXCEPT ![h].pc = "removed"]
  /\ UNCHANGED <<inodes, entries>>

\* ... another handle of the inode takes over its cleanup ...
ReleaseLookForOthers(h) ==
  /\ handles[h].pc = "removed"
  /\ handles' = [handles EXCEPT ![h] =
       IF HasOpenFile(handles[h].ino) THEN Closed ELSE [@ EXCEPT !.pc = "closing"]]
  /\ UNCHANGED <<inodes, entries>>

\* ... a read transaction looks for an inode without links ...
ReleaseLookup(h) ==
  LET i == handles[h].ino
  IN  /\ handles[h].pc = "closing"
      /\ handles' = [handles EXCEPT ![h] =
           IF Exists(i) /\ inodes[i].nlink = 0 THEN [@ EXCEPT !.pc = "cleaning"] ELSE Closed]
      /\ UNCHANGED <<inodes, entries>>

\* ... and a write transaction deletes it if it still has none.
ReleaseCleanup(h) ==
  LET i == handles[h].ino
  IN  /\ handles[h].pc = "cleaning"
      /\ IF Exists(i) /\ inodes[i].nlink = 0
         THEN /\ inodes' = [inodes EXCEPT ![i] = NoInode]
              /\ handles' = [Forgotten(i) EXCEPT ![h] = Closed]
         ELSE handles' = [handles EXCEPT ![h] = Closed] /\ UNCHANGED inodes
      /\ UNCHANGED entries

\* Either transaction may raise: a connection is not opened, BEGIN waits too long
\* or COMMIT fails.  The handle is gone by then, and the kernel asks only once.
ReleaseFails(h) ==
  LET i == handles[h].ino
  IN  /\ handles[h].pc \in {"closing", "cleaning"}
      /\ handles' = [handles EXCEPT ![h] = Closed]
      /\ abandoned' = abandoned \cup {j \in {i} : Exists(j) /\ inodes[j].nlink = 0}
      /\ UNCHANGED <<inodes, entries, stranded>>

Operation ==
  \/ \E d \in Ids, n \in Names :
       \/ RemoveChildInode(d, n)
       \/ \E kind \in Kinds : Make(d, n, kind)
       \/ \E i \in Ids : Link(i, d, n)
       \/ \E e \in Ids, m \in Names : Rename(d, n, e, m)
       \/ \E h \in Handles : Create(h, d, n)
  \/ \E h \in Handles :
       \/ \E i \in Ids : OpenLookup(h, i)
       \/ OpenRegister(h) \/ OpenFails(h) \/ Release(h)
       \/ ReleaseLookForOthers(h) \/ ReleaseLookup(h) \/ ReleaseCleanup(h)

\* The process dies, between two transactions or in one that is rolled back,
\* and the file system is mounted again: the table of handles is empty.  The
\* kernel then knows the inodes that it meets by their names only, so nothing
\* asks for one without a name any more (Link, OpenLookup).
Crash ==
  /\ handles' = [h \in Handles |-> Closed]
  /\ stranded' = {i \in Ids : Exists(i) /\ inodes[i].nlink = 0}
  /\ abandoned' = {}
  /\ UNCHANGED <<inodes, entries>>

\* A failed deletion is history as long as nothing else happens to the inode.
StillAbandoned == {i \in abandoned : inodes'[i] = inodes[i]}

Next ==
  \/ Operation /\ abandoned' = StillAbandoned /\ UNCHANGED stranded
  \/ \E h \in Handles : ReleaseFails(h)
  \/ Crash

Spec == Init /\ [][Next]_vars

(***************************************************************************)
(* Properties.                                                             *)
(***************************************************************************)
\* The link count of every inode is the number of its names, over links,
\* renames that replace a name, and removals (nlink and dir_entries).
LinkCountExact ==
  \A i \in Ids \ {Root} : Exists(i) =>
    inodes[i].nlink = Cardinality({p \in DOMAIN entries : entries[p] = i})

\* Every directory but the root has exactly one parent and is reached from the
\* root, and every entry lies in a directory and names an inode: no rename
\* makes a cycle or cuts a subtree off (is_descendant, has_children).
DirectoryTree ==
  /\ \A p \in DOMAIN entries : entries[p] # Nowhere => IsDir(p[1]) /\ Exists(entries[p])
  /\ \A i \in Ids : IsDir(i) =>
       /\ Cardinality({p \in DOMAIN entries : entries[p] = i}) = IF i = Root THEN 0 ELSE 1
       /\ IsDescendant(i, Root)

\* An inode without a name has a handle, or a release that is about to delete
\* it; an open in progress does not count, as it may still fail.  Nobody will
\* delete it in two cases only: it was unlinked and still open when the process
\* died, or the transactions of the release failed (_release, _remove_entry_node).
UnlinkedInodesCleaned ==
  \A i \in Ids : Exists(i) /\ inodes[i].nlink = 0 =>
    \/ i \in stranded \cup abandoned
    \/ \E h \in Handles : handles[h].ino = i /\ handles[h].pc \notin {"closed", "opening"}

\* A handle works on the file it was opened for until it is released: the
\* inode is not deleted, and its number not given to another file (handles.py).
HandlesKeepTheirFile ==
  \A h \in Handles : handles[h].pc = "open" =>
    ~handles[h].lost /\ Exists(handles[h].ino)
=============================================================================
