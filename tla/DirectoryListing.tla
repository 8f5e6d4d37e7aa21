-------------------------- MODULE DirectoryListing --------------------------
(***************************************************************************)
(* Listing one directory page by page (inode_fuse.py, metadata/            *)
(* namespace.py) while its entries come and go.  A page is read in one     *)
(* transaction; the caller takes as many of its entries as fit its buffer, *)
(* and goes on at the offset of the last one.  For each handle and offset  *)
(* the file system remembers the name it has given out there.              *)
(*                                                                         *)
(* EntryNames are numbers, in the order of the index.  "." and ".." have the    *)
(* offsets 1 and 2.  A caller may go back to an offset it has got and not  *)
(* yet gone back behind; one that opens the directory anew for each page,  *)
(* as a network file system does, keeps its offset and loses the names.    *)
(***************************************************************************)
EXTENDS Naturals, FiniteSets, Sequences, SequencesExt

CONSTANTS
  DirHandles,      \* directory handles
  NameCount,    \* the names are 1 .. NameCount
  PageLimit     \* entries in a page; "limit" in the code

ListingParameters == NameCount \in Nat \ {0} /\ PageLimit \in Nat \ {0}

ASSUME ListingAssumption == ListingParameters

VARIABLES
  present,      \* the names in the directory
  cursors,      \* per handle: the name given out at an offset, 0 if none
  offset,       \* per caller: where it goes on
  listed,       \* the entries it has got, in order, since it began
  done,         \* it has come to the end
  steady,       \* history: names present ever since it began
  undisturbed   \* history: the directory has not changed since, or the handle
                \* has been the same

listingVars == <<present, cursors, offset, listed, done, steady, undisturbed>>
caller == <<offset, listed, done>>

EntryNames == 1 .. NameCount
Offsets == 0 .. (NameCount + 2)
NoCursors == [o \in Offsets |-> 0]

ListingInit ==
  /\ present \in SUBSET EntryNames
  /\ cursors = [h \in DirHandles |-> NoCursors]
  /\ offset = [h \in DirHandles |-> 0]
  /\ listed = [h \in DirHandles |-> <<>>]
  /\ done = [h \in DirHandles |-> FALSE]
  /\ steady = [h \in DirHandles |-> present]
  /\ undisturbed = [h \in DirHandles |-> [unchanged |-> TRUE, sameHandle |-> TRUE]]

(***************************************************************************)
(* The queries: ORDER BY name, LIMIT PageLimit.                            *)
(***************************************************************************)
InOrder(row) == \A i, j \in DOMAIN row : i < j => row[i] < row[j]

Ascending(S) == CHOOSE row \in [1 .. Cardinality(S) -> S] : ToSet(row) = S /\ InOrder(row)

Limited(S, start) ==
  LET row == Ascending(S)
  IN  SubSeq(row, start + 1, IF start + PageLimit < Len(row) THEN start + PageLimit ELSE Len(row))

ChildrenPage(start) == Limited(present, start)

ChildrenAfter(name) == Limited({n \in present : n > name}, 0)

\* A mutated form: the page is found by its number, as if nothing had changed.
PageByNumber(h) == ChildrenPage(IF offset[h] <= 2 THEN 0 ELSE offset[h] - 2)

\* _dir_cursor, and the page it leads to.  At the offsets 0, 1 and 2 no name has
\* been given out; elsewhere the page is found by its number if the name is lost.
Page(h) ==
  LET name == IF offset[h] = 0 THEN 0 ELSE cursors[h][offset[h]]
  IN  IF offset[h] <= 2 \/ name # 0
      THEN ChildrenAfter(name)
      ELSE ChildrenPage(offset[h] - 2)

(***************************************************************************)
(* readdir.                                                                *)
(***************************************************************************)
Dots(o) == IF o < 2 THEN 2 - o ELSE 0
FirstOffset(o) == IF o < 2 THEN 3 ELSE o + 1

\* The cursors after a page: those of the handle are cleared at offset 0.
Remembered(h, page) ==
  [o \in Offsets |->
     LET i == o + 1 - FirstOffset(offset[h])
     IN  IF o >= FirstOffset(offset[h]) /\ i <= Len(page) THEN page[i]
         ELSE IF offset[h] = 0 THEN 0 ELSE cursors[h][o]]

ReadDir(h) ==
  /\ ~done[h]
  /\ LET page == Page(h)
         dots == Dots(offset[h])
     IN  /\ cursors' = [cursors EXCEPT ![h] = Remembered(h, page)]
         /\ IF dots = 0 /\ page = <<>>
            THEN done' = [done EXCEPT ![h] = TRUE] /\ UNCHANGED <<offset, listed>>
            ELSE \E taken \in 1 .. (dots + Len(page)) :
                   /\ offset' = [offset EXCEPT ![h] = @ + taken]
                   /\ listed' = [listed EXCEPT ![h] =
                        IF taken > dots THEN @ \o SubSeq(page, 1, taken - dots) ELSE @]
                   /\ UNCHANGED done
  /\ UNCHANGED <<present, steady, undisturbed>>

\* seekdir to an offset the caller has got.
SeekBack(h) ==
  /\ \E o \in 1 .. offset[h] :
       /\ offset' = [offset EXCEPT ![h] = o]
       /\ listed' = [listed EXCEPT ![h] = SubSeq(@, 1, IF o < 2 THEN 0 ELSE o - 2)]
  /\ done' = [done EXCEPT ![h] = FALSE]
  /\ UNCHANGED <<present, cursors, steady, undisturbed>>

\* rewinddir: the next page is that of offset 0.
Rewind(h) ==
  /\ offset' = [offset EXCEPT ![h] = 0]
  /\ listed' = [listed EXCEPT ![h] = <<>>]
  /\ done' = [done EXCEPT ![h] = FALSE]
  /\ steady' = [steady EXCEPT ![h] = present]
  /\ undisturbed' = [undisturbed EXCEPT ![h] = [unchanged |-> TRUE, sameHandle |-> TRUE]]
  /\ UNCHANGED <<present, cursors>>

\* releasedir, then opendir: a new handle without cursors.
Reopen(h) ==
  /\ cursors' = [cursors EXCEPT ![h] = NoCursors]
  /\ undisturbed' = [undisturbed EXCEPT ![h].sameHandle = FALSE]
  /\ UNCHANGED <<present, caller, steady>>

\* An entry is created or removed; a rename does both.
Change(S) ==
  /\ S # present
  /\ present' = S
  /\ steady' = [h \in DirHandles |-> steady[h] \cap S]
  /\ undisturbed' = [h \in DirHandles |-> [undisturbed[h] EXCEPT !.unchanged = FALSE]]
  /\ UNCHANGED <<cursors, caller>>

ListingNext ==
  \/ \E h \in DirHandles : ReadDir(h) \/ SeekBack(h) \/ Rewind(h) \/ Reopen(h)
  \/ \E n \in EntryNames : Change(present \cup {n}) \/ Change(present \ {n})

ListingSpec == ListingInit /\ [][ListingNext]_listingVars

(***************************************************************************)
(* Properties.                                                             *)
(***************************************************************************)
\* Whatever is created and removed meanwhile, wherever the pages are cut and the
\* caller goes back to, a listing on one handle gives out no name twice and misses
\* none that has been there all the time.  A listing that changes its handle does
\* so as long as the directory does not change.
ListedOnce ==
  \A h \in DirHandles :
    undisturbed[h].unchanged \/ undisturbed[h].sameHandle =>
      /\ IsInjective(listed[h])
      /\ done[h] => steady[h] \subseteq ToSet(listed[h])
=============================================================================
