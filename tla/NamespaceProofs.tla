-------------------------- MODULE NamespaceProofs ---------------------------
(***************************************************************************)
(* Proofs about Namespace, for any finite set of names, any set of handles *)
(* and any number of inodes; and about the listing of directories, for any *)
(* handles, any number of names and any size of a page.                    *)
(***************************************************************************)
EXTENDS Namespace, DirectoryListing, FiniteSetTheorems, SequenceTheorems, TLAPS

(***************************************************************************)
(* New inode numbers.                                                      *)
(***************************************************************************)
\* A set of inode numbers that is not empty has a largest member.
LEMMA LargestExists ==
  ASSUME NEW S \in SUBSET Ids, S # {}
  PROVE  Max(S) \in S /\ \A i \in S : Max(S) >= i
<1> DEFINE T == {n \in Nat : MaxInode - n \in S}
<1> DEFINE R == {ss \in Nat \X Nat : ss[1] < ss[2]}
<1>1. PICK i \in S : TRUE
  OBVIOUS
<1>2. MaxInode - i \in T
  BY <1>1, MaxInodeAssumption DEF Ids
<1>3. PICK n \in T : \A m \in T : ~(<<m, n>> \in R)
  <2>1. IsWellFoundedOn(R, Nat)
    BY NatLessThanWellFounded DEF OpToRel
  <2> QED
    BY <1>2, <2>1, WFMin
<1>4. \A m \in T : n <= m
  <2> TAKE m \in T
  <2>1. m \in Nat /\ n \in Nat
    OBVIOUS
  <2>2. m < n => <<m, n>> \in R
    BY <2>1
  <2> QED
    BY <1>3, <2>1, <2>2
<1>5. \A j \in S : MaxInode - n >= j
  <2> TAKE j \in S
  <2>1. j \in Nat /\ MaxInode - j \in Nat /\ MaxInode - (MaxInode - j) = j
    BY MaxInodeAssumption DEF Ids
  <2>2. MaxInode - j \in T
    BY <2>1
  <2>3. n <= MaxInode - j
    BY <2>2, <1>4
  <2> QED
    BY <2>1, <2>3, MaxInodeAssumption
<1>6. MaxInode - n \in S
  OBVIOUS
<1> QED
  BY <1>5, <1>6 DEF Max

\* A new inode has a number no inode has.
LEMMA NewInodeIsNew ==
  ASSUME Exists(Root)
  PROVE  NewInode \in Nat /\ NewInode # Nowhere /\ ~Exists(NewInode)
<1> DEFINE S == {i \in Ids : Exists(i)}
<1>1. S \in SUBSET Ids /\ S # {}
  BY DEF Exists
<1>2. Max(S) \in S /\ \A i \in S : Max(S) >= i
  BY <1>1, LargestExists
<1>3. NewInode = Max(S) + 1
  BY DEF NewInode
<1>4. Max(S) \in Nat /\ Max(S) + 1 \notin S
  BY <1>2, MaxInodeAssumption DEF Ids
<1> QED
  BY <1>3, <1>4 DEF Nowhere, Exists

(***************************************************************************)
(* Counting names.                                                         *)
(***************************************************************************)
Places == Ids \X Names
Tables == [Places -> Ids \cup {Nowhere}]
NamesOf(table, i) == {p \in Places : table[p] = i}
Links(table, i) == Cardinality(NamesOf(table, i))

LEMMA NamesFinite ==
  ASSUME NEW table, NEW i
  PROVE  IsFiniteSet(NamesOf(table, i)) /\ Links(table, i) \in Nat
<1>1. IsFiniteSet(Ids)
  BY FS_Interval, MaxInodeAssumption DEF Ids
<1>2. IsFiniteSet(Places)
  BY <1>1, NamesAssumption, FS_Product DEF Places
<1>3. NamesOf(table, i) \in SUBSET Places
  BY DEF NamesOf
<1>4. IsFiniteSet(NamesOf(table, i))
  BY <1>2, <1>3, FS_Subset
<1> QED
  BY <1>4, FS_CardinalityType DEF Links

\* An inode without links has no name.
LEMMA NoLinksNoName ==
  ASSUME NEW table, NEW i, Links(table, i) = 0, NEW p \in Places
  PROVE  table[p] # i
<1>1. NamesOf(table, i) = {}
  BY NamesFinite, FS_EmptySet DEF Links
<1> QED
  BY <1>1 DEF NamesOf

LEMMA NoNameNoLinks ==
  ASSUME NEW table, NEW i, \A p \in Places : table[p] # i
  PROVE  Links(table, i) = 0
<1>1. NamesOf(table, i) = {}
  BY DEF NamesOf
<1> QED
  BY <1>1, FS_EmptySet DEF Links

\* Setting an entry gives a link to the inode it names and takes one from the
\* inode it named.
LEMMA EntrySet ==
  ASSUME NEW table \in Tables, NEW p \in Places, NEW j, NEW i
  PROVE  /\ Links([table EXCEPT ![p] = j], i) =
               IF j = i THEN IF table[p] = i THEN Links(table, i) ELSE Links(table, i) + 1
                        ELSE IF table[p] = i THEN Links(table, i) - 1 ELSE Links(table, i)
         /\ table[p] = i => Links(table, i) >= 1
<1> DEFINE new == [table EXCEPT ![p] = j]
<1>1. IsFiniteSet(NamesOf(table, i)) /\ Links(table, i) \in Nat
  BY NamesFinite
<1>2. p \in NamesOf(table, i) <=> table[p] = i
  BY DEF NamesOf
<1>3. \A q \in Places : new[q] = IF q = p THEN j ELSE table[q]
  BY DEF Tables
<1>4. table[p] = i => Links(table, i) >= 1
  BY <1>1, NoLinksNoName
<1>5. CASE j = i
  <2>1. NamesOf(new, i) = NamesOf(table, i) \cup {p}
    BY <1>3, <1>5 DEF NamesOf
  <2>2. Links(new, i) = IF p \in NamesOf(table, i) THEN Links(table, i) ELSE Links(table, i) + 1
    BY <1>1, <2>1, FS_AddElement DEF Links
  <2> QED
    BY <1>2, <1>4, <1>5, <2>2
<1>6. CASE j # i
  <2>1. NamesOf(new, i) = NamesOf(table, i) \ {p}
    BY <1>3, <1>6 DEF NamesOf
  <2>2. Links(new, i) = IF p \in NamesOf(table, i) THEN Links(table, i) - 1 ELSE Links(table, i)
    BY <1>1, <2>1, FS_RemoveElement DEF Links
  <2> QED
    BY <1>2, <1>4, <1>6, <2>2
<1> QED
  BY <1>5, <1>6

(***************************************************************************)
(* Inodes and their names.                                                 *)
(***************************************************************************)
\* The root is a directory that no name is given to.
RootKept ==
  /\ inodes[Root] = [kind |-> "dir", nlink |-> 1]
  /\ \A p \in Places : entries[p] # Root

EntriesNameInodes == \A p \in Places : entries[p] # Nowhere => Exists(entries[p])

LinksCounted ==
  \A i \in Ids \ {Root} : Exists(i) => inodes[i].nlink = Links(entries, i)

\* The inductive invariant for the link counts.
Sound == TypeOK /\ RootKept /\ EntriesNameInodes /\ LinksCounted /\ UnlinkedInodesCleaned

LEMMA RootIsId == Root \in Ids /\ Nowhere \notin Ids
  BY MaxInodeAssumption DEF Root, Ids, Nowhere

LEMMA RootExists == ASSUME RootKept PROVE IsDir(Root)
<1>1. [kind |-> "dir", nlink |-> 1] # NoInode
  BY NoInodeAssumption
<1> QED
  BY <1>1, RootIsId DEF RootKept, IsDir, Exists

LEMMA InitSound == Init => Sound
<1> SUFFICES ASSUME Init PROVE Sound
  OBVIOUS
<1> USE RootIsId
<1>1. TypeOK
  BY DEF Init, TypeOK, Kinds, Closed
<1>2. \A i \in Ids : Exists(i) => i = Root
  BY DEF Init, Exists
<1>3. \A p \in Places : entries[p] = Nowhere
  BY DEF Init, Places
<1>4. RootKept
  BY <1>3 DEF Init, RootKept
<1>5. UnlinkedInodesCleaned
  BY <1>2, <1>4 DEF UnlinkedInodesCleaned, RootKept
<1> QED
  BY <1>1, <1>2, <1>3, <1>4, <1>5 DEF Sound, EntriesNameInodes, LinksCounted

HandleRow ==
  [pc : {"closed", "opening", "open", "removed", "closing", "cleaning"},
   ino : Ids \cup {Nowhere}, lost : BOOLEAN]
InodeRow == [kind : Kinds, nlink : Nat]

\* The deletion of an inode changes only the history of the handles.
LEMMA ForgottenHandles ==
  ASSUME TypeOK, NEW i
  PROVE  /\ Forgotten(i) \in [Handles -> HandleRow]
         /\ \A h \in Handles :
              /\ Forgotten(i)[h].pc = handles[h].pc
              /\ Forgotten(i)[h].ino = handles[h].ino
              /\ ~(handles[h].ino = i /\ handles[h].pc \in {"opening", "open"})
                   => Forgotten(i)[h] = handles[h]
<1>1. \A h \in Handles : handles[h] \in HandleRow
  BY DEF TypeOK, HandleRow
<1>2. \A row \in HandleRow :
        /\ [row EXCEPT !.lost = TRUE] \in HandleRow
        /\ [row EXCEPT !.lost = TRUE].pc = row.pc
        /\ [row EXCEPT !.lost = TRUE].ino = row.ino
  BY DEF HandleRow
<1>3. \A h \in Handles :
        Forgotten(i)[h] = IF handles[h].ino = i /\ handles[h].pc \in {"opening", "open"}
                          THEN [handles[h] EXCEPT !.lost = TRUE] ELSE handles[h]
  BY DEF Forgotten
<1>4. \A h \in Handles : Forgotten(i)[h] \in HandleRow
  BY <1>1, <1>2, <1>3
<1>5. Forgotten(i) \in [Handles -> HandleRow]
  BY <1>4 DEF Forgotten
<1> QED
  BY <1>1, <1>2, <1>3, <1>5

LEMMA InodeRows ==
  ASSUME TypeOK, NEW i \in Ids, Exists(i)
  PROVE  /\ inodes[i] \in InodeRow /\ inodes[i].nlink \in Nat
         /\ \A n \in Nat : /\ [inodes[i] EXCEPT !.nlink = n] \in InodeRow
                          /\ [inodes[i] EXCEPT !.nlink = n].nlink = n
                          /\ [inodes[i] EXCEPT !.nlink = n].kind = inodes[i].kind
         /\ NoInode \notin InodeRow
  BY NoInodeAssumption DEF TypeOK, Exists, InodeRow, Kinds

\* The histories of the inodes nobody will delete, in a step of an operation.
Kept == abandoned' = StillAbandoned /\ UNCHANGED stranded

LEMMA KeptAbandoned ==
  ASSUME TypeOK, Kept
  PROVE  /\ stranded' = stranded /\ stranded' \subseteq Ids /\ abandoned' \subseteq Ids
         /\ \A i \in abandoned : inodes'[i] = inodes[i] => i \in abandoned'
  BY DEF TypeOK, Kept, StillAbandoned

\* The removal of a name, which _remove_entry_node ends, keeps the counts.
LEMMA RemovalSound ==
  ASSUME Sound, Kept, NEW table \in Tables, NEW i \in Ids \ {Root}, Exists(i),
         RemoveEntryNode(table, i),
         Links(entries, i) >= 1,
         Links(table, i) = Links(entries, i) - 1,
         \A j \in Ids \ {i} : Links(table, j) = Links(entries, j),
         \A p \in Places : table[p] = Nowhere \/ \E q \in Places : table[p] = entries[q]
  PROVE  Sound'
<1>1. /\ inodes[i].nlink = Links(entries, i) /\ Links(entries, i) \in Nat
      /\ Links(table, i) \in Nat
  BY NamesFinite DEF Sound, LinksCounted
<1>2. entries' = table
  BY DEF RemoveEntryNode
<1>3. \A p \in Places : table[p] # Root /\ (table[p] # Nowhere => Exists(table[p]))
  BY RootIsId DEF Sound, RootKept, EntriesNameInodes
<1>4. CASE inodes[i].nlink > 1 \/ HasOpenFile(i)
  <2>1. inodes' = Unlinked(inodes, i) /\ handles' = handles
    BY <1>4 DEF RemoveEntryNode
  <2>2. inodes' = [inodes EXCEPT ![i] = [inodes[i] EXCEPT !.nlink = inodes[i].nlink - 1]]
    BY <2>1 DEF Unlinked
  <2>3. /\ inodes'[i] \in InodeRow /\ inodes'[i] # NoInode
        /\ inodes'[i].nlink = inodes[i].nlink - 1
    BY <1>1, <2>2, InodeRows DEF Sound, TypeOK
  <2>4. \A j \in Ids \ {i} : inodes'[j] = inodes[j]
    BY <2>2 DEF Sound, TypeOK
  <2>5. \A j : Exists(j)' <=> Exists(j)
    BY <2>3, <2>4 DEF Exists
  <2>6. TypeOK'
    BY <1>2, <2>1, <2>2, <2>3, KeptAbandoned DEF Sound, TypeOK, Tables, Places, InodeRow
  <2>7. RootKept'
    BY <1>2, <1>3, <2>4, RootIsId DEF Sound, RootKept
  <2>8. EntriesNameInodes'
    BY <1>2, <1>3, <2>5 DEF EntriesNameInodes
  <2>9. LinksCounted'
    BY <1>1, <1>2, <2>3, <2>4, <2>5 DEF Sound, LinksCounted
  <2>10. UnlinkedInodesCleaned'
    <3>1. ASSUME NEW j \in Ids, Exists(j)', inodes'[j].nlink = 0, j # i
          PROVE  \/ j \in (stranded \cup abandoned)'
                 \/ \E h \in Handles : handles'[h].ino = j /\ handles'[h].pc \notin {"closed", "opening"}
      <4>1. Exists(j) /\ inodes[j].nlink = 0 /\ inodes'[j] = inodes[j]
        BY <2>4, <2>5, <3>1
      <4> QED
        BY <2>1, <4>1, KeptAbandoned DEF Sound, UnlinkedInodesCleaned
    <3>2. inodes'[i].nlink = 0 => HasOpenFile(i)
      BY <1>1, <1>4, <2>3
    <3>3. HasOpenFile(i) => \E h \in Handles : handles'[h].ino = i /\ handles'[h].pc \notin {"closed", "opening"}
      BY <2>1 DEF HasOpenFile
    <3> QED
      BY <3>1, <3>2, <3>3 DEF UnlinkedInodesCleaned
  <2> QED
    BY <2>6, <2>7, <2>8, <2>9, <2>10 DEF Sound
<1>5. CASE ~(inodes[i].nlink > 1 \/ HasOpenFile(i))
  <2>1. inodes' = [inodes EXCEPT ![i] = NoInode] /\ handles' = Forgotten(i)
    BY <1>5 DEF RemoveEntryNode
  <2>2. \A p \in Places : table[p] # i
    <3>1. Links(table, i) = 0
      BY <1>1, <1>5
    <3> QED
      BY <3>1, NoLinksNoName
  <2>3. inodes'[i] = NoInode /\ \A j \in Ids \ {i} : inodes'[j] = inodes[j]
    BY <2>1 DEF Sound, TypeOK
  <2>4. \A j : Exists(j)' <=> Exists(j) /\ j # i
    BY <2>3 DEF Exists
  <2>5. TypeOK'
    BY <1>2, <2>1, ForgottenHandles, KeptAbandoned DEF Sound, TypeOK, Tables, Places, HandleRow
  <2>6. RootKept'
    BY <1>2, <1>3, <2>3, RootIsId DEF Sound, RootKept
  <2>7. EntriesNameInodes'
    BY <1>2, <1>3, <2>2, <2>4 DEF EntriesNameInodes
  <2>8. LinksCounted'
    BY <1>2, <2>3, <2>4 DEF Sound, LinksCounted
  <2>9. UnlinkedInodesCleaned'
    BY <2>1, <2>3, <2>4, ForgottenHandles, KeptAbandoned DEF Sound, UnlinkedInodesCleaned
  <2> QED
    BY <2>5, <2>6, <2>7, <2>8, <2>9 DEF Sound
<1> QED
  BY <1>4, <1>5

\* insert_node gives a name to an inode that had none.
LEMMA InsertSound ==
  ASSUME Sound, Kept, NEW d \in Ids, NEW n \in Names, NEW kind \in Kinds, Insert(d, n, kind),
         handles' \in [Handles -> HandleRow],
         \A h \in Handles : handles[h].pc # "closed" => handles'[h] = handles[h]
  PROVE  Sound'
<1> DEFINE new == [kind |-> kind, nlink |-> 1]
<1> DEFINE p == <<d, n>>
<1>1. NewInode \in Ids \ {Root} /\ NewInode # Nowhere /\ ~Exists(NewInode)
  BY RootExists, NewInodeIsNew DEF Sound, Insert, IsDir
<1>2. p \in Places /\ entries[p] = Nowhere /\ entries \in Tables
  BY DEF Insert, Places, Sound, TypeOK, Tables
<1>3. entries' = [entries EXCEPT ![p] = NewInode] /\ entries' \in Tables
  BY <1>1, <1>2 DEF Insert, Tables
<1>4. \A q \in Places : entries'[q] = IF q = p THEN NewInode ELSE entries[q]
  BY <1>2, <1>3 DEF Tables
<1>5. new \in InodeRow /\ new # NoInode /\ new.nlink = 1
  BY NoInodeAssumption DEF InodeRow, Kinds
<1>6. inodes' = [inodes EXCEPT ![NewInode] = new]
  BY DEF Insert
<1>7. inodes'[NewInode] = new /\ \A j \in Ids \ {NewInode} : inodes'[j] = inodes[j]
  BY <1>1, <1>6 DEF Sound, TypeOK
<1>8. \A j : Exists(j)' <=> Exists(j) \/ j = NewInode
  BY <1>1, <1>5, <1>7 DEF Exists
<1>9. \A j \in Ids : Links(entries', j) = IF j = NewInode THEN 1 ELSE Links(entries, j)
  <2>1. Links(entries, NewInode) = 0
    BY <1>1, <1>2, NoNameNoLinks DEF Sound, EntriesNameInodes
  <2>2. \A q \in Places : entries[q] # NewInode
    BY <1>1 DEF Sound, EntriesNameInodes
  <2> TAKE j \in Ids
  <2>3. Links([entries EXCEPT ![p] = NewInode], j) =
          IF NewInode = j THEN IF entries[p] = j THEN Links(entries, j) ELSE Links(entries, j) + 1
                          ELSE IF entries[p] = j THEN Links(entries, j) - 1 ELSE Links(entries, j)
    BY <1>2, EntrySet
  <2>4. entries[p] # j
    BY <1>2, RootIsId
  <2> QED
    BY <1>3, <2>1, <2>3, <2>4
<1>10. TypeOK'
  BY <1>1, <1>3, <1>5, <1>6, KeptAbandoned DEF Sound, TypeOK, Tables, Places, InodeRow, HandleRow
<1>11. RootKept'
  BY <1>1, <1>4, <1>7, RootIsId DEF Sound, RootKept
<1>12. EntriesNameInodes'
  BY <1>1, <1>4, <1>8 DEF Sound, EntriesNameInodes
<1>13. LinksCounted'
  BY <1>5, <1>7, <1>8, <1>9 DEF Sound, LinksCounted
<1>14. UnlinkedInodesCleaned'
  BY <1>5, <1>7, <1>8, KeptAbandoned DEF Sound, UnlinkedInodesCleaned
<1> QED
  BY <1>10, <1>11, <1>12, <1>13, <1>14 DEF Sound

LEMMA LinkSound ==
  ASSUME Sound, Kept, NEW i \in Ids, NEW d \in Ids, NEW n \in Names, Link(i, d, n)
  PROVE  Sound'
<1> DEFINE p == <<d, n>>
<1>1. i \in Ids \ {Root} /\ Exists(i) /\ i # Nowhere
  BY RootExists, RootIsId DEF Sound, Link
<1>2. p \in Places /\ entries[p] = Nowhere /\ entries \in Tables
  BY DEF Link, Places, Sound, TypeOK, Tables
<1>3. entries' = [entries EXCEPT ![p] = i] /\ entries' \in Tables
  BY <1>1, <1>2 DEF Link, Tables
<1>4. \A q \in Places : entries'[q] = IF q = p THEN i ELSE entries[q]
  BY <1>2, <1>3 DEF Tables
<1>5. inodes' = [inodes EXCEPT ![i] = [inodes[i] EXCEPT !.nlink = inodes[i].nlink + 1]]
  BY DEF Link, Linked
<1>6. /\ inodes'[i] \in InodeRow /\ inodes'[i] # NoInode
      /\ inodes[i].nlink \in Nat /\ inodes'[i].nlink = inodes[i].nlink + 1
  <2>1. inodes[i].nlink \in Nat /\ inodes[i].nlink + 1 \in Nat
    BY <1>1, InodeRows DEF Sound
  <2>2. inodes'[i] = [inodes[i] EXCEPT !.nlink = inodes[i].nlink + 1]
    BY <1>1, <1>5 DEF Sound, TypeOK
  <2> QED
    BY <1>1, <2>1, <2>2, InodeRows DEF Sound
<1>7. \A j \in Ids \ {i} : inodes'[j] = inodes[j]
  BY <1>5 DEF Sound, TypeOK
<1>8. \A j : Exists(j)' <=> Exists(j)
  BY <1>1, <1>6, <1>7 DEF Exists
<1>9. \A j \in Ids : Links(entries', j) = IF j = i THEN Links(entries, j) + 1 ELSE Links(entries, j)
  <2> TAKE j \in Ids
  <2> HIDE DEF p
  <2>1. Links([entries EXCEPT ![p] = i], j) =
          IF i = j THEN IF entries[p] = j THEN Links(entries, j) ELSE Links(entries, j) + 1
                   ELSE IF entries[p] = j THEN Links(entries, j) - 1 ELSE Links(entries, j)
    BY <1>2, EntrySet
  <2>2. entries[p] # j
    BY <1>2, RootIsId
  <2> QED
    BY <1>3, <2>1, <2>2
<1>10. TypeOK'
  BY <1>1, <1>3, <1>5, <1>6, KeptAbandoned DEF Sound, TypeOK, Tables, Places, InodeRow, Link
<1>11. RootKept'
  BY <1>1, <1>4, <1>7, RootIsId DEF Sound, RootKept
<1>12. EntriesNameInodes'
  BY <1>1, <1>4, <1>8 DEF Sound, EntriesNameInodes
<1>13. LinksCounted'
  BY <1>1, <1>6, <1>7, <1>8, <1>9 DEF Sound, LinksCounted
<1>14. UnlinkedInodesCleaned'
  BY <1>1, <1>6, <1>7, <1>8, KeptAbandoned DEF Sound, UnlinkedInodesCleaned, Link
<1> QED
  BY <1>10, <1>11, <1>12, <1>13, <1>14 DEF Sound

LEMMA RemoveSound ==
  ASSUME Sound, Kept, NEW d \in Ids, NEW n \in Names, RemoveChildInode(d, n)
  PROVE  Sound'
<1> DEFINE p == <<d, n>>
<1> DEFINE i == entries[p]
<1> DEFINE table == [entries EXCEPT ![p] = Nowhere]
<1>1. p \in Places /\ entries \in Tables
  BY DEF Places, Sound, TypeOK, Tables
<1>2. i \in Ids \ {Root} /\ Exists(i) /\ RemoveEntryNode(table, i)
  BY <1>1, RootIsId DEF RemoveChildInode, Sound, RootKept, EntriesNameInodes, Exists
<1>3. table \in Tables /\ \A q \in Places : table[q] = IF q = p THEN Nowhere ELSE entries[q]
  BY <1>1 DEF Tables
<1>4. Links(entries, i) >= 1 /\ Links(table, i) = Links(entries, i) - 1
  <2>1. Nowhere # i
    BY <1>2, RootIsId
  <2> QED
    BY <1>1, <2>1, EntrySet
<1>5. \A j \in Ids \ {i} : Links(table, j) = Links(entries, j)
  <2> TAKE j \in Ids \ {i}
  <2>1. Nowhere # j /\ entries[p] # j
    BY RootIsId
  <2> QED
    BY <1>1, <2>1, EntrySet
<1> HIDE DEF table, i
<1> QED
  BY <1>2, <1>3, <1>4, <1>5, RemovalSound

\* What a rename does to the links: the moved inode keeps them, the replaced
\* one loses one.
LEMMA MovedLinks ==
  ASSUME NEW table \in Tables, NEW p \in Places, NEW q \in Places,
         table[p] # Nowhere, table[p] # table[q], NEW j \in Ids
  PROVE  Links([table EXCEPT ![p] = Nowhere, ![q] = table[p]], j) =
           IF table[q] = j THEN Links(table, j) - 1 ELSE Links(table, j)
<1> DEFINE mid == [table EXCEPT ![p] = Nowhere]
<1> DEFINE s == table[p]
<1> DEFINE moved == [mid EXCEPT ![q] = s]
<1>1. Nowhere # j
  BY RootIsId
<1>2. mid \in Tables /\ mid[q] = table[q]
  BY DEF Tables
<1>3. Links(mid, j) = IF table[p] = j THEN Links(table, j) - 1 ELSE Links(table, j)
  BY <1>1, EntrySet
<1>4. Links(moved, j) =
        IF s = j THEN IF mid[q] = j THEN Links(mid, j) ELSE Links(mid, j) + 1
                 ELSE IF mid[q] = j THEN Links(mid, j) - 1 ELSE Links(mid, j)
  <2> HIDE DEF mid, s
  <2> QED
    BY <1>2, EntrySet
<1>5. Links(table, j) \in Nat
  BY NamesFinite
<1> QED
  BY <1>2, <1>3, <1>4, <1>5

LEMMA RenameSound ==
  ASSUME Sound, Kept, NEW d \in Ids, NEW n \in Names, NEW e \in Ids, NEW m \in Names,
         Rename(d, n, e, m)
  PROVE  Sound'
<1> DEFINE p == <<d, n>>
<1> DEFINE q == <<e, m>>
<1> DEFINE source == entries[p]
<1> DEFINE target == entries[q]
<1> DEFINE moved == [entries EXCEPT ![p] = Nowhere, ![q] = source]
<1>1. p \in Places /\ q \in Places /\ entries \in Tables
  BY DEF Places, Sound, TypeOK, Tables
<1>2. source # Nowhere /\ source # target
  BY DEF Rename, Renamable
<1>3. source \in Ids \ {Root} /\ Exists(source)
  BY <1>1, <1>2 DEF Sound, RootKept, EntriesNameInodes, Exists
<1>4. \A j \in Ids : Links(moved, j) = IF target = j THEN Links(entries, j) - 1 ELSE Links(entries, j)
  BY <1>1, <1>2, MovedLinks
<1>5. /\ moved \in Tables
      /\ \A r \in Places : moved[r] = IF r = q THEN source ELSE IF r = p THEN Nowhere ELSE entries[r]
  BY <1>1, <1>3 DEF Tables
<1>6. CASE target = Nowhere
  <2>1. entries' = moved /\ UNCHANGED <<inodes, handles>>
    BY <1>6 DEF Rename
  <2>2. \A j : Exists(j)' <=> Exists(j)
    BY <2>1 DEF Exists
  <2>3. TypeOK' /\ RootKept' /\ EntriesNameInodes'
    <3>1. TypeOK'
      BY <1>5, <2>1, KeptAbandoned DEF Sound, TypeOK, Tables, Places
    <3>2. RootKept'
      BY <1>3, <1>5, <2>1, RootIsId DEF Sound, RootKept
    <3>3. EntriesNameInodes'
      BY <1>3, <1>5, <2>1, <2>2 DEF Sound, EntriesNameInodes
    <3> QED
      BY <3>1, <3>2, <3>3
  <2>4. LinksCounted'
    <3>1. \A j \in Ids : Links(moved, j) = Links(entries, j)
      BY <1>4, <1>6, RootIsId
    <3> QED
      BY <2>1, <2>2, <3>1 DEF Sound, LinksCounted
  <2>5. UnlinkedInodesCleaned'
    BY <2>1, <2>2, KeptAbandoned DEF Sound, UnlinkedInodesCleaned
  <2> QED
    BY <2>3, <2>4, <2>5 DEF Sound
<1>7. CASE target # Nowhere
  <2>1. target \in Ids \ {Root} /\ Exists(target) /\ RemoveEntryNode(moved, target)
    BY <1>1, <1>7 DEF Rename, Sound, RootKept, EntriesNameInodes, Exists
  <2>2. Links(entries, target) >= 1
    BY <1>1, EntrySet
  <2>3. \A r \in Places : moved[r] = Nowhere \/ \E o \in Places : moved[r] = entries[o]
    BY <1>1, <1>5
  <2> HIDE DEF moved, target
  <2> QED
    BY <1>4, <1>5, <2>1, <2>2, <2>3, RemovalSound
<1> QED
  BY <1>6, <1>7

LEMMA CreateSound ==
  ASSUME Sound, Kept, NEW h \in Handles, NEW d \in Ids, NEW n \in Names, Create(h, d, n)
  PROVE  Sound'
<1> DEFINE existing == entries[<<d, n>>]
<1>0. handles \in [Handles -> HandleRow] /\ handles[h].pc = "closed"
  BY DEF Sound, TypeOK, HandleRow, Create
<1>1. CASE existing = Nowhere
  <2>1. Insert(d, n, "file") /\ handles' = [handles EXCEPT ![h] = Opened(NewInode)]
    BY <1>1 DEF Create
  <2>2. handles' \in [Handles -> HandleRow]
    BY <1>0, <2>1 DEF Insert, Opened, HandleRow
  <2>3. \A g \in Handles : handles[g].pc # "closed" => handles'[g] = handles[g]
    BY <1>0, <2>1
  <2> QED
    BY <2>1, <2>2, <2>3, InsertSound DEF Kinds
<1>2. CASE existing # Nowhere
  <2>1. handles' = [handles EXCEPT ![h] = Opened(existing)] /\ UNCHANGED <<inodes, entries>>
    BY <1>2 DEF Create
  <2>2. existing \in Ids
    BY <1>2 DEF Sound, TypeOK
  <2>3. handles' \in [Handles -> HandleRow]
    BY <1>0, <2>1, <2>2 DEF Opened, HandleRow
  <2>4. TypeOK'
    BY <2>1, <2>3, KeptAbandoned DEF Sound, TypeOK, HandleRow
  <2>5. UnlinkedInodesCleaned'
    BY <1>0, <2>1, KeptAbandoned DEF Sound, UnlinkedInodesCleaned, Exists
  <2> QED
    BY <2>1, <2>4, <2>5 DEF Sound, RootKept, EntriesNameInodes, LinksCounted, Exists
<1> QED
  BY <1>1, <1>2

\* A step of open or release that reads the tables: a registered handle of an inode
\* without links stays, or leaves the cleanup to another.
LEMMA HandleStepSound ==
  ASSUME Sound, Kept, NEW h \in Handles, NEW new \in HandleRow,
         UNCHANGED <<inodes, entries>>, handles' = [handles EXCEPT ![h] = new],
         \/ handles[h].pc \in {"closed", "opening"}
         \/ new.pc \notin {"closed", "opening"} /\ new.ino = handles[h].ino
         \/ ~(Exists(handles[h].ino) /\ inodes[handles[h].ino].nlink = 0)
         \/ \E g \in Handles \ {h} :
              handles[g].pc \notin {"closed", "opening"} /\ handles[g].ino = handles[h].ino
  PROVE  Sound'
<1>0. handles \in [Handles -> HandleRow]
  BY DEF Sound, TypeOK, HandleRow
<1>1. TypeOK'
  BY <1>0, KeptAbandoned DEF Sound, TypeOK, HandleRow
<1>2. UnlinkedInodesCleaned'
  BY <1>0, KeptAbandoned DEF Sound, UnlinkedInodesCleaned, Exists
<1> QED
  BY <1>1, <1>2 DEF Sound, RootKept, EntriesNameInodes, LinksCounted, Exists

LEMMA HandleRows ==
  ASSUME TypeOK, NEW h \in Handles
  PROVE  /\ handles[h] \in HandleRow /\ Closed \in HandleRow
         /\ \A i \in Ids : Opened(i) \in HandleRow /\ [Opened(i) EXCEPT !.pc = "opening"] \in HandleRow
         /\ \A pc \in {"open", "removed", "closing", "cleaning"} :
              /\ [handles[h] EXCEPT !.pc = pc] \in HandleRow
              /\ [handles[h] EXCEPT !.pc = pc].pc = pc
              /\ [handles[h] EXCEPT !.pc = pc].ino = handles[h].ino
  BY DEF TypeOK, HandleRow, Closed, Opened, Nowhere

LEMMA HandlesSound ==
  ASSUME Sound, Kept, NEW h \in Handles,
         \/ \E i \in Ids : OpenLookup(h, i)
         \/ OpenRegister(h) \/ OpenFails(h) \/ Release(h)
         \/ ReleaseLookForOthers(h) \/ ReleaseLookup(h)
  PROVE  Sound'
<1>0. TypeOK /\ handles \in [Handles -> HandleRow]
  BY DEF Sound, TypeOK, HandleRow
<1>1. ASSUME NEW i \in Ids, OpenLookup(h, i) PROVE Sound'
  BY <1>0, <1>1, HandleRows, HandleStepSound DEF OpenLookup
<1>2. CASE OpenRegister(h)
  <2>1. handles' = [handles EXCEPT ![h] = [handles[h] EXCEPT !.pc = "open"]]
    BY <1>2 DEF OpenRegister
  <2> QED
    BY <1>0, <1>2, <2>1, HandleRows, HandleStepSound DEF OpenRegister
<1>3. CASE Release(h)
  <2>1. handles' = [handles EXCEPT ![h] = [handles[h] EXCEPT !.pc = "removed"]]
    BY <1>3 DEF Release
  <2> QED
    BY <1>0, <1>3, <2>1, HandleRows, HandleStepSound DEF Release
<1>4. CASE ReleaseLookForOthers(h)
  <2>1. CASE HasOpenFile(handles[h].ino)
    <3>1. \E g \in Handles \ {h} :
            handles[g].pc \notin {"closed", "opening"} /\ handles[g].ino = handles[h].ino
      BY <1>4, <2>1 DEF ReleaseLookForOthers, HasOpenFile
    <3> QED
      BY <1>0, <1>4, <2>1, <3>1, HandleRows, HandleStepSound DEF ReleaseLookForOthers
  <2>2. CASE ~HasOpenFile(handles[h].ino)
    <3>1. handles' = [handles EXCEPT ![h] = [handles[h] EXCEPT !.pc = "closing"]]
      BY <1>4, <2>2 DEF ReleaseLookForOthers
    <3> QED
      BY <1>0, <1>4, <3>1, HandleRows, HandleStepSound DEF ReleaseLookForOthers
  <2> QED
    BY <2>1, <2>2
<1>5. CASE ReleaseLookup(h)
  <2>1. CASE Exists(handles[h].ino) /\ inodes[handles[h].ino].nlink = 0
    <3> DEFINE new == [handles[h] EXCEPT !.pc = "cleaning"]
    <3>1. handles' = [handles EXCEPT ![h] = new] /\ UNCHANGED <<inodes, entries>>
      BY <1>5, <2>1 DEF ReleaseLookup
    <3>2. new \in HandleRow /\ new.pc = "cleaning" /\ new.ino = handles[h].ino
      BY <1>0, HandleRows
    <3> HIDE DEF new
    <3> QED
      BY <3>1, <3>2, HandleStepSound
  <2>2. CASE ~(Exists(handles[h].ino) /\ inodes[handles[h].ino].nlink = 0)
    <3>1. handles' = [handles EXCEPT ![h] = Closed] /\ UNCHANGED <<inodes, entries>>
      BY <1>5, <2>2 DEF ReleaseLookup
    <3>2. Closed \in HandleRow
      BY <1>0, HandleRows
    <3> QED
      BY <2>2, <3>1, <3>2, HandleStepSound
  <2> QED
    BY <2>1, <2>2
<1>6. CASE OpenFails(h)
  BY <1>0, <1>6, HandleRows, HandleStepSound DEF OpenFails
<1> QED
  BY <1>1, <1>2, <1>3, <1>4, <1>5, <1>6

\* A release that fails records the inode it leaves behind.
LEMMA ReleaseFailsSound ==
  ASSUME Sound, NEW h \in Handles, ReleaseFails(h)
  PROVE  Sound'
<1> DEFINE i == handles[h].ino
<1>0. TypeOK /\ handles \in [Handles -> HandleRow] /\ Closed \in HandleRow
  BY HandleRows DEF Sound, TypeOK, HandleRow
<1>1. /\ handles' = [handles EXCEPT ![h] = Closed] /\ UNCHANGED <<inodes, entries, stranded>>
      /\ abandoned' = abandoned \cup {j \in {i} : Exists(j) /\ inodes[j].nlink = 0}
  BY DEF ReleaseFails
<1>2. abandoned' \subseteq Ids
  BY <1>0, <1>1 DEF TypeOK, Exists
<1>3. TypeOK'
  BY <1>0, <1>1, <1>2 DEF TypeOK, HandleRow
<1>4. UnlinkedInodesCleaned'
  <2> SUFFICES ASSUME NEW j \in Ids, Exists(j), inodes[j].nlink = 0
               PROVE  \/ j \in (stranded \cup abandoned)'
                      \/ \E g \in Handles :
                           handles'[g].ino = j /\ handles'[g].pc \notin {"closed", "opening"}
    BY <1>1 DEF UnlinkedInodesCleaned, Exists
  <2>1. CASE j = i
    BY <1>1, <2>1
  <2>2. CASE j # i
    BY <1>0, <1>1, <2>2 DEF Sound, UnlinkedInodesCleaned
  <2> QED
    BY <2>1, <2>2
<1> QED
  BY <1>1, <1>3, <1>4 DEF Sound, RootKept, EntriesNameInodes, LinksCounted, Exists

LEMMA ReleaseCleanupSound ==
  ASSUME Sound, Kept, NEW h \in Handles, ReleaseCleanup(h)
  PROVE  Sound'
<1> DEFINE i == handles[h].ino
<1>0. TypeOK /\ handles \in [Handles -> HandleRow]
  BY DEF Sound, TypeOK, HandleRow
<1>1. CASE Exists(i) /\ inodes[i].nlink = 0
  <2>1. /\ inodes' = [inodes EXCEPT ![i] = NoInode] /\ entries' = entries
        /\ handles' = [Forgotten(i) EXCEPT ![h] = Closed]
    BY <1>1 DEF ReleaseCleanup
  <2>2. i \in Ids \ {Root}
    BY <1>1 DEF Exists, Sound, RootKept
  <2>3. \A p \in Places : entries[p] # i
    <3>1. Links(entries, i) = 0
      BY <1>1, <2>2 DEF Sound, LinksCounted
    <3> QED
      BY <3>1, NoLinksNoName
  <2>4. inodes'[i] = NoInode /\ \A j \in Ids \ {i} : inodes'[j] = inodes[j]
    BY <2>1, <2>2 DEF Sound, TypeOK
  <2>5. \A j : Exists(j)' <=> Exists(j) /\ j # i
    BY <2>4 DEF Exists
  <2>6. /\ handles' \in [Handles -> HandleRow]
        /\ \A g \in Handles \ {h} : handles'[g].pc = handles[g].pc /\ handles'[g].ino = handles[g].ino
    <3>1. Closed \in HandleRow /\ Forgotten(i) \in [Handles -> HandleRow]
      BY <1>0, HandleRows, ForgottenHandles
    <3>2. \A g \in Handles : Forgotten(i)[g].pc = handles[g].pc /\ Forgotten(i)[g].ino = handles[g].ino
      BY <1>0, ForgottenHandles
    <3> HIDE DEF i
    <3> QED
      BY <2>1, <3>1, <3>2
  <2>7. TypeOK'
    BY <2>1, <2>6, KeptAbandoned DEF Sound, TypeOK, HandleRow
  <2>8. RootKept'
    BY <2>1, <2>2, <2>4, RootIsId DEF Sound, RootKept
  <2>9. EntriesNameInodes'
    BY <2>1, <2>3, <2>5 DEF Sound, EntriesNameInodes
  <2>10. LinksCounted'
    BY <2>1, <2>4, <2>5 DEF Sound, LinksCounted
  <2>11. UnlinkedInodesCleaned'
    BY <2>4, <2>5, <2>6, KeptAbandoned DEF Sound, UnlinkedInodesCleaned
  <2> QED
    BY <2>7, <2>8, <2>9, <2>10, <2>11 DEF Sound
<1>2. CASE ~(Exists(i) /\ inodes[i].nlink = 0)
  <2>1. handles' = [handles EXCEPT ![h] = Closed] /\ UNCHANGED <<inodes, entries>>
    BY <1>2 DEF ReleaseCleanup
  <2> QED
    BY <1>0, <1>2, <2>1, HandleRows, HandleStepSound
<1> QED
  BY <1>1, <1>2

LEMMA StepSound == Sound /\ [Next]_vars => Sound'
<1> SUFFICES ASSUME Sound, [Next]_vars PROVE Sound'
  OBVIOUS
<1>1. CASE UNCHANGED vars
  BY <1>1 DEF vars, Sound, TypeOK, RootKept, EntriesNameInodes, LinksCounted,
    UnlinkedInodesCleaned, Exists
<1>2. ASSUME Kept, NEW d \in Ids, NEW n \in Names, NEW kind \in Kinds, Make(d, n, kind)
      PROVE  Sound'
  <2>1. Insert(d, n, kind) /\ handles' = handles /\ handles \in [Handles -> HandleRow]
    BY <1>2 DEF Make, Sound, TypeOK, HandleRow
  <2> QED
    BY <1>2, <2>1, InsertSound
<1>3. CASE Crash
  <2>1. UNCHANGED <<inodes, entries>> /\ \A i : Exists(i)' <=> Exists(i)
    BY <1>3 DEF Crash, Exists
  <2>2. TypeOK'
    BY <1>3, <2>1 DEF Crash, Sound, TypeOK, Closed
  <2>3. UnlinkedInodesCleaned'
    BY <1>3, <2>1 DEF Crash, UnlinkedInodesCleaned
  <2>4. RootKept' /\ EntriesNameInodes' /\ LinksCounted'
    BY <2>1 DEF Sound, RootKept, EntriesNameInodes, LinksCounted
  <2> QED
    BY <2>2, <2>3, <2>4 DEF Sound
<1> QED
  BY <1>1, <1>2, <1>3, RemoveSound, LinkSound, RenameSound, CreateSound, HandlesSound,
    ReleaseCleanupSound, ReleaseFailsSound DEF Next, Operation, Kept

LEMMA AlwaysSound == Spec => []Sound
BY InitSound, StepSound, PTL DEF Spec

\* The types of the tables and the handles (namespace.py, handles.py); a link
\* count is never taken below zero.
THEOREM NamespaceTypeOK == Spec => []TypeOK
<1>1. Sound => TypeOK
  BY DEF Sound
<1> QED
  BY <1>1, AlwaysSound, PTL

\* nlink of every inode is the number of entries that name it, whatever the
\* order of links, renames onto a name, removals, opens and releases.
THEOREM NamespaceLinkCountExact == Spec => []LinkCountExact
<1>1. Sound => LinkCountExact
  BY DEF Sound, LinksCounted, LinkCountExact, Links, NamesOf, TypeOK, Places
<1> QED
  BY <1>1, AlwaysSound, PTL

\* An inode that has lost its last name has a handle that still leads to its
\* deletion, also when names go between the steps of open and release and when
\* opens and releases fail; the only exceptions are those that were open when the
\* process died and those whose release failed, as long as nothing else is done
\* to them.
THEOREM NamespaceUnlinkedInodesCleaned == Spec => []UnlinkedInodesCleaned
<1>1. Sound => UnlinkedInodesCleaned
  BY DEF Sound
<1> QED
  BY <1>1, AlwaysSound, PTL

(***************************************************************************)
(* What a crash leaves behind.                                             *)
(***************************************************************************)
\* An inode that was unlinked and open when the process died stays as it is,
\* nobody opens it, and its number goes to no other inode.
StrandedApart ==
  \A i \in stranded :
    /\ Exists(i) /\ inodes[i].nlink = 0
    /\ \A h \in Handles : handles[h].ino # i

\* It has no name.
LEMMA StrandedUnnamed ==
  ASSUME Sound, StrandedApart, NEW i \in stranded
  PROVE  /\ i \in Ids \ {Root} /\ Exists(i) /\ inodes[i].nlink = 0
         /\ \A h \in Handles : handles[h].ino # i
         /\ \A p \in Places : entries[p] # i
<1>1. i \in Ids \ {Root} /\ Exists(i) /\ inodes[i].nlink = 0
  BY DEF Sound, TypeOK, RootKept, StrandedApart
<1>2. Links(entries, i) = 0
  BY <1>1 DEF Sound, LinksCounted
<1>3. entries \in Tables
  BY DEF Sound, TypeOK, Tables, Places
<1> QED
  BY <1>1, <1>2, <1>3, NoLinksNoName DEF StrandedApart

\* A step that leaves the row alone, and binds no handle to it, leaves it apart.
LEMMA StrandedKept ==
  ASSUME Sound, StrandedApart, UNCHANGED stranded,
         \A i \in stranded : inodes'[i] = inodes[i] /\ \A h \in Handles : handles'[h].ino # i
  PROVE  StrandedApart'
BY DEF StrandedApart, Exists

\* The removal of a name concerns an inode that has one.
LEMMA RemovalStranded ==
  ASSUME Sound, StrandedApart, UNCHANGED stranded, NEW table, NEW i \in Ids, i \notin stranded,
         RemoveEntryNode(table, i)
  PROVE  StrandedApart'
<1>1. \A h \in Handles : handles'[h].ino = handles[h].ino
  BY ForgottenHandles DEF RemoveEntryNode, Sound
<1>2. \A j \in Ids \ {i} : inodes'[j] = inodes[j]
  BY DEF RemoveEntryNode, Unlinked, Sound, TypeOK
<1>3. \A j \in stranded : j \in Ids \ {i}
  BY DEF Sound, TypeOK
<1> QED
  BY <1>1, <1>2, <1>3, StrandedKept DEF StrandedApart

LEMMA StepStranded == Sound /\ StrandedApart /\ [Next]_vars => StrandedApart'
<1> SUFFICES ASSUME Sound, StrandedApart, [Next]_vars PROVE StrandedApart'
  OBVIOUS
<1>1. CASE UNCHANGED vars
  BY <1>1 DEF vars, StrandedApart, Exists
\* A new inode has a number of its own, and its handle is bound to it.
<1>2. ASSUME UNCHANGED stranded, NEW d \in Ids, NEW n \in Names, NEW kind \in Kinds, Insert(d, n, kind),
             \A h \in Handles : handles'[h].ino = handles[h].ino \/ handles'[h].ino = NewInode
      PROVE  StrandedApart'
  <2>1. NewInode \in Ids /\ ~Exists(NewInode)
    BY <1>2, RootExists, NewInodeIsNew DEF Sound, Insert, IsDir
  <2>2. \A j \in Ids \ {NewInode} : inodes'[j] = inodes[j]
    BY <1>2 DEF Insert, Sound, TypeOK
  <2>3. \A j \in stranded : /\ j \in Ids /\ j # NewInode
                            /\ \A h \in Handles : handles[h].ino # j
    BY <2>1, StrandedUnnamed
  <2>4. \A j \in stranded : inodes'[j] = inodes[j] /\ \A h \in Handles : handles'[h].ino # j
    BY <1>2, <2>2, <2>3
  <2> QED
    BY <1>2, <2>4, StrandedKept
<1>3. ASSUME UNCHANGED stranded, NEW d \in Ids, NEW n \in Names, NEW kind \in Kinds, Make(d, n, kind)
      PROVE  StrandedApart'
  BY <1>2, <1>3 DEF Make
<1>4. ASSUME UNCHANGED stranded, NEW i \in Ids, NEW d \in Ids, NEW n \in Names, Link(i, d, n)
      PROVE  StrandedApart'
  <2>1. \A j \in Ids \ {i} : inodes'[j] = inodes[j]
    BY <1>4 DEF Link, Linked, Sound, TypeOK
  <2>2. i \notin stranded /\ handles' = handles /\ stranded \subseteq Ids
    BY <1>4 DEF Link, Sound, TypeOK
  <2> QED
    BY <1>4, <2>1, <2>2, StrandedKept DEF StrandedApart
<1>5. ASSUME UNCHANGED stranded, NEW d \in Ids, NEW n \in Names, RemoveChildInode(d, n)
      PROVE  StrandedApart'
  <2> DEFINE i == entries[<<d, n>>]
             table == [entries EXCEPT ![<<d, n>>] = Nowhere]
  <2>1. <<d, n>> \in Places /\ i \in Ids /\ RemoveEntryNode(table, i)
    BY <1>5 DEF RemoveChildInode, Places, Sound, TypeOK
  <2>2. i \notin stranded
    BY <2>1, StrandedUnnamed
  <2> HIDE DEF i, table
  <2> QED
    BY <1>5, <2>1, <2>2, RemovalStranded
<1>6. ASSUME UNCHANGED stranded, NEW d \in Ids, NEW n \in Names, NEW e \in Ids, NEW m \in Names,
             Rename(d, n, e, m)
      PROVE  StrandedApart'
  <2> DEFINE i == entries[<<e, m>>]
             moved == [entries EXCEPT ![<<d, n>>] = Nowhere, ![<<e, m>>] = entries[<<d, n>>]]
  <2>1. CASE i = Nowhere
    <3>1. UNCHANGED <<inodes, handles>>
      BY <1>6, <2>1 DEF Rename
    <3> QED
      BY <1>6, <3>1, StrandedKept DEF StrandedApart
  <2>2. CASE i # Nowhere
    <3>1. <<e, m>> \in Places /\ i \in Ids /\ RemoveEntryNode(moved, i)
      BY <1>6, <2>2 DEF Rename, Places, Sound, TypeOK
    <3>2. i \notin stranded
      BY <3>1, StrandedUnnamed
    <3> HIDE DEF i, moved
    <3> QED
      BY <1>6, <3>1, <3>2, RemovalStranded
  <2> QED
    BY <2>1, <2>2
<1>7. ASSUME UNCHANGED stranded, NEW h \in Handles, NEW new, handles' = [handles EXCEPT ![h] = new],
             UNCHANGED inodes, new.ino \notin stranded
      PROVE  StrandedApart'
  <2>1. handles'[h] = new /\ \A g \in Handles \ {h} : handles'[g] = handles[g]
    BY <1>7 DEF Sound, TypeOK
  <2>2. \A i \in stranded, g \in Handles : handles'[g].ino # i
    BY <1>7, <2>1 DEF StrandedApart
  <2> QED
    BY <1>7, <2>2, StrandedKept
<1>8. ASSUME UNCHANGED stranded, NEW h \in Handles, NEW d \in Ids, NEW n \in Names, Create(h, d, n)
      PROVE  StrandedApart'
  <2> DEFINE i == entries[<<d, n>>]
  <2>1. CASE i = Nowhere
    <3>1. Insert(d, n, "file") /\ handles' = [handles EXCEPT ![h] = Opened(NewInode)]
      BY <1>8, <2>1 DEF Create
    <3>2. \A g \in Handles : handles'[g].ino = handles[g].ino \/ handles'[g].ino = NewInode
      BY <3>1 DEF Opened, Sound, TypeOK
    <3>3. "file" \in Kinds
      BY DEF Kinds
    <3> QED
      BY <1>2, <1>8, <3>1, <3>2, <3>3
  <2>2. CASE i # Nowhere
    <3>1. <<d, n>> \in Places /\ i \in Ids
      BY <2>2 DEF Places, Sound, TypeOK
    <3>2. handles' = [handles EXCEPT ![h] = Opened(i)] /\ UNCHANGED inodes /\ Opened(i).ino = i
      BY <1>8, <2>2 DEF Create, Opened
    <3>3. i \notin stranded
      BY <3>1, StrandedUnnamed
    <3> HIDE DEF i
    <3> QED
      BY <1>7, <1>8, <3>2, <3>3
  <2> QED
    BY <2>1, <2>2
<1>9. ASSUME UNCHANGED stranded, NEW h \in Handles, NEW i \in Ids, OpenLookup(h, i)
      PROVE  StrandedApart'
  <2> DEFINE new == [Opened(i) EXCEPT !.pc = "opening"]
  <2>1. handles' = [handles EXCEPT ![h] = new] /\ UNCHANGED inodes /\ new.ino = i /\ i \notin stranded
    BY <1>9 DEF OpenLookup, Opened
  <2> HIDE DEF new
  <2> QED
    BY <1>7, <1>9, <2>1
\* A handle stays with its inode until it is closed.
<1>10. ASSUME UNCHANGED <<stranded, inodes>>, NEW h \in Handles,
              \/ OpenRegister(h) \/ OpenFails(h) \/ Release(h)
              \/ ReleaseLookForOthers(h) \/ ReleaseLookup(h) \/ ReleaseFails(h)
       PROVE  StrandedApart'
  <2>1. handles[h].ino \notin stranded /\ handles[h] \in HandleRow /\ Nowhere \notin stranded
    BY RootIsId DEF StrandedApart, Sound, TypeOK, HandleRow
  <2>2. \E new : handles' = [handles EXCEPT ![h] = new] /\ new.ino \in {handles[h].ino, Nowhere}
    <3>1. ASSUME NEW pc, handles' = [handles EXCEPT ![h].pc = pc]
          PROVE  \E new : handles' = [handles EXCEPT ![h] = new] /\ new.ino \in {handles[h].ino, Nowhere}
      <4>1. [handles[h] EXCEPT !.pc = pc].ino = handles[h].ino
        BY <2>1 DEF HandleRow
      <4> QED
        BY <3>1, <4>1
    <3>2. ASSUME handles' = [handles EXCEPT ![h] = Closed]
          PROVE  \E new : handles' = [handles EXCEPT ![h] = new] /\ new.ino \in {handles[h].ino, Nowhere}
      <4>1. Closed.ino = Nowhere
        BY DEF Closed
      <4> QED
        BY <3>2, <4>1
    <3>3. CASE OpenRegister(h)
      BY <3>1, <3>3 DEF OpenRegister
    <3>4. CASE Release(h)
      BY <3>1, <3>4 DEF Release
    <3>5. CASE ReleaseLookForOthers(h)
      BY <3>1, <3>2, <3>5 DEF ReleaseLookForOthers
    <3>6. CASE ReleaseLookup(h)
      BY <3>1, <3>2, <3>6 DEF ReleaseLookup
    <3>7. CASE OpenFails(h) \/ ReleaseFails(h)
      BY <3>2, <3>7 DEF OpenFails, ReleaseFails
    <3> QED
      BY <1>10, <3>3, <3>4, <3>5, <3>6, <3>7
  <2> QED
    BY <1>7, <1>10, <2>1, <2>2
<1>11. ASSUME UNCHANGED stranded, NEW h \in Handles, ReleaseCleanup(h) PROVE StrandedApart'
  <2>1. handles[h].ino \notin stranded /\ stranded \subseteq Ids /\ Nowhere \notin stranded
    BY RootIsId DEF StrandedApart, Sound, TypeOK
  <2>2. \A j \in stranded : inodes'[j] = inodes[j]
    BY <1>11, <2>1 DEF ReleaseCleanup, Sound, TypeOK
  <2>3. \A g \in Handles : handles'[g].ino \in {handles[g].ino, Nowhere}
    <3>1. /\ Forgotten(handles[h].ino) \in [Handles -> HandleRow]
          /\ \A g \in Handles : Forgotten(handles[h].ino)[g].ino = handles[g].ino
      BY ForgottenHandles DEF Sound
    <3>2. Closed.ino = Nowhere /\ handles \in [Handles -> HandleRow]
      BY DEF Closed, Sound, TypeOK, HandleRow
    <3>3. \/ handles' = [Forgotten(handles[h].ino) EXCEPT ![h] = Closed]
          \/ handles' = [handles EXCEPT ![h] = Closed]
      BY <1>11 DEF ReleaseCleanup
    <3> QED
      BY <3>1, <3>2, <3>3
  <2> QED
    BY <1>11, <2>1, <2>2, <2>3, StrandedKept DEF StrandedApart
<1>12. CASE Crash
  <2>1. \A h \in Handles : handles'[h].ino = Nowhere
    BY <1>12 DEF Crash, Closed
  <2>2. Nowhere \notin Ids /\ UNCHANGED inodes
    BY <1>12, RootIsId DEF Crash
  <2>3. \A i \in stranded' : i \in Ids /\ Exists(i) /\ inodes[i].nlink = 0
    BY <1>12 DEF Crash
  <2> QED
    BY <2>1, <2>2, <2>3 DEF StrandedApart, Exists
<1>13. CASE Operation /\ UNCHANGED stranded
  <2>1. ASSUME NEW h \in Handles,
               \/ OpenRegister(h) \/ OpenFails(h) \/ Release(h)
               \/ ReleaseLookForOthers(h) \/ ReleaseLookup(h)
        PROVE  StrandedApart'
    <3>1. UNCHANGED inodes
      BY <2>1 DEF OpenRegister, OpenFails, Release, ReleaseLookForOthers, ReleaseLookup
    <3> QED
      BY <1>10, <1>13, <2>1, <3>1
  <2> QED
    BY <1>3, <1>4, <1>5, <1>6, <1>8, <1>9, <1>11, <1>13, <2>1 DEF Operation
<1>14. ASSUME NEW h \in Handles, ReleaseFails(h) PROVE StrandedApart'
  BY <1>10, <1>14 DEF ReleaseFails
<1> QED
  BY <1>1, <1>12, <1>13, <1>14 DEF Next

\* An unlinked file that was open when the process died is left alone for good: no
\* open leads to it, and no new file or directory gets its number (insert_node),
\* so what UnlinkedInodesCleaned excepts is that inode and none after it.
THEOREM NamespaceStrandedApart == Spec => []StrandedApart
<1>1. Init => StrandedApart
  BY DEF Init, StrandedApart
<1> QED
  BY <1>1, StepStranded, AlwaysSound, PTL DEF Spec

(***************************************************************************)
(* Directories, when no name is removed between the steps of an open, nor  *)
(* while one handle of an inode is released and another is open.           *)
(***************************************************************************)
DirsHaveOneLink == \A i \in Ids : IsDir(i) => inodes[i].nlink = 1

Using(h) == handles[h].pc \in {"opening", "open"}

\* A handle in use leads to the file it was opened for.
HandlesBound ==
  \A h \in Handles : Using(h) =>
    /\ ~handles[h].lost
    /\ Exists(handles[h].ino) /\ inodes[handles[h].ino].kind = "file"
    /\ handles[h].pc = "opening" => inodes[handles[h].ino].nlink > 0

\* A release that goes on to the cleanup of an inode in use finds its links.
CleanupsSpareUsed ==
  \A h, g \in Handles :
    handles[h].pc \in {"closing", "cleaning"} /\ Using(g) /\ handles[g].ino = handles[h].ino
      => inodes[handles[h].ino].nlink > 0

EntriesInDirs == \A p \in Places : entries[p] # Nowhere => IsDir(p[1])

\* The root is in every set of inodes that has a directory and, with each member,
\* the directories it has an entry in: is_descendant climbs to the root.
Upward(table, S) == \A p \in Places : table[p] \in S => p[1] \in S
RootReached ==
  \A i \in Ids, S \in SUBSET Ids : IsDir(i) /\ i \in S /\ Upward(entries, S) => Root \in S

\* The inductive invariant for the tree, beside Sound.
Tree == DirsHaveOneLink /\ HandlesBound /\ CleanupsSpareUsed /\ EntriesInDirs /\ RootReached

LEMMA UpwardIsUpwardClosed ==
  ASSUME TypeOK, NEW S \in SUBSET Ids
  PROVE  UpwardClosed(S) <=> Upward(entries, S)
BY DEF TypeOK, UpwardClosed, Upward, Parents, Places

LEMMA InitTree == Init => Tree
<1> SUFFICES ASSUME Init PROVE Tree
  OBVIOUS
<1>1. \A i \in Ids : Exists(i) => i = Root
  BY DEF Init, Exists
<1>2. \A p \in Places : entries[p] = Nowhere
  BY DEF Init, Places
<1>3. \A h \in Handles : handles[h].pc = "closed"
  BY DEF Init, Closed
<1>4. DirsHaveOneLink
  BY <1>1, InitSound DEF DirsHaveOneLink, IsDir, Sound, RootKept
<1>5. RootReached
  BY <1>1 DEF RootReached, IsDir
<1> QED
  BY <1>2, <1>3, <1>4, <1>5 DEF Tree, HandlesBound, CleanupsSpareUsed, Using, EntriesInDirs

\* An entry that is added takes no directory away from the root.
LEMMA GrowthReached ==
  ASSUME Sound, Tree, NEW table \in Tables,
         \A p \in Places : entries[p] # Nowhere => table[p] = entries[p],
         NEW S \in SUBSET Ids, Upward(table, S), NEW i \in S, IsDir(i)
  PROVE  Root \in S
<1>1. Upward(entries, S)
  BY RootIsId DEF Upward
<1> QED
  BY <1>1 DEF Tree, RootReached

\* The removal of the entry of a leaf `target` and the move of `source` to a
\* directory that is not below it leave every other directory under the root.
LEMMA MoveReached ==
  ASSUME Sound, Tree, NEW table, NEW source, NEW target, NEW newParent,
         \A p \in Places : entries[p] \notin {source, target, Nowhere} => table[p] = entries[p],
         IsDir(target) => ~HasChildren(target),
         IsDir(source) => /\ IsDir(newParent) /\ newParent # target
                          /\ ~IsDescendant(newParent, source)
                          /\ \E p \in Places : p[1] = newParent /\ table[p] = source,
         NEW S \in SUBSET Ids, Upward(table, S), NEW i \in S, IsDir(i), i # target
  PROVE  Root \in S
<1> DEFINE Dirs == {j \in S : IsDir(j) /\ j # target}
<1>1. \A p \in Places : entries[p] \in Dirs /\ entries[p] # source => p[1] \in Dirs
  <2> TAKE p \in Places
  <2> HAVE entries[p] \in Dirs /\ entries[p] # source
  <2>1. entries[p] # Nowhere /\ table[p] = entries[p]
    BY RootIsId DEF IsDir, Exists
  <2>2. p[1] \in S /\ IsDir(p[1])
    BY <2>1 DEF Upward, Tree, EntriesInDirs
  <2>3. p = <<p[1], p[2]>> /\ p[2] \in Names
    BY DEF Places
  <2>4. HasChildren(p[1])
    BY <2>1, <2>3 DEF HasChildren
  <2> QED
    BY <2>2, <2>4
<1>2. CASE source \notin Dirs
  <2>1. Upward(entries, Dirs)
    BY <1>1, <1>2 DEF Upward
  <2> QED
    BY <2>1 DEF Tree, RootReached
<1>3. CASE source \in Dirs
  <2>1. newParent \in Dirs
    BY <1>3 DEF Upward
  <2>2. PICK A \in SUBSET Ids : newParent \in A /\ UpwardClosed(A) /\ source \notin A
    BY <1>3 DEF IsDescendant
  <2>3. Upward(entries, A)
    BY <2>2, UpwardIsUpwardClosed DEF Sound
  <2>4. Upward(entries, Dirs \cap A)
    BY <1>1, <2>2, <2>3 DEF Upward
  <2> QED
    BY <2>1, <2>2, <2>4 DEF Tree, RootReached
<1> QED
  BY <1>2, <1>3

\* The end of a removal: a directory is deleted, and a file stays for those who
\* use it.
LEMMA RemovalTree ==
  ASSUME ~RemoveBetween, Sound, Tree, NEW table, NEW i \in Ids \ {Root}, Exists(i),
         RemoveEntryNode(table, i), Links(entries, i) >= 1
  PROVE  /\ DirsHaveOneLink' /\ HandlesBound' /\ CleanupsSpareUsed'
         /\ \A j : IsDir(j)' <=> IsDir(j) /\ j # i
<1>1. inodes[i].nlink \in Nat \ {0}
  BY NamesFinite DEF Sound, LinksCounted
<1>2. TypeOK
  BY DEF Sound
<1>3. \A h \in Handles : handles[h].ino = i => handles[h].pc # "opening"
  BY DEF RemoveEntryNode, Settled
<1>4. CASE inodes[i].nlink > 1 \/ HasOpenFile(i)
  <2>1. inodes' = [inodes EXCEPT ![i] = [inodes[i] EXCEPT !.nlink = inodes[i].nlink - 1]]
        /\ handles' = handles
    BY <1>4 DEF RemoveEntryNode, Unlinked
  <2>2. inodes'[i] = [inodes[i] EXCEPT !.nlink = inodes[i].nlink - 1]
    BY <1>2, <2>1 DEF TypeOK
  <2>3. /\ inodes'[i] # NoInode /\ inodes'[i].nlink = inodes[i].nlink - 1
        /\ inodes'[i].kind = inodes[i].kind
    BY <1>1, <1>2, <2>2, InodeRows
  <2>4. \A j \in Ids \ {i} : inodes'[j] = inodes[j]
    BY <1>2, <2>1 DEF TypeOK
  <2>5. \A j : (Exists(j)' <=> Exists(j)) /\ (Exists(j) => inodes'[j].kind = inodes[j].kind)
    BY <2>3, <2>4 DEF Exists
  <2>6. ~IsDir(i)
    BY <1>1, <1>4 DEF IsDir, HasOpenFile, Tree, DirsHaveOneLink, HandlesBound, Using
  <2>7. \A j : IsDir(j)' <=> IsDir(j)
    BY <2>5 DEF IsDir
  <2>8. DirsHaveOneLink'
    BY <2>4, <2>6, <2>7 DEF Tree, DirsHaveOneLink
  <2>9. HandlesBound'
    <3>1. \A h \in Handles : handles'[h] = handles[h]
      BY <2>1
    <3>2. \A h \in Handles : Using(h)' => Using(h) /\ Exists(handles[h].ino)
      BY <3>1 DEF Using, Tree, HandlesBound
    <3> QED
      BY <1>3, <2>4, <2>5, <3>1, <3>2 DEF Tree, HandlesBound, Exists
  <2>10. CleanupsSpareUsed'
    <3> SUFFICES ASSUME NEW h \in Handles, NEW g \in Handles,
                        handles[h].pc \in {"closing", "cleaning"}, Using(g),
                        handles[g].ino = handles[h].ino
                 PROVE  inodes'[handles[h].ino].nlink > 0
      BY <2>1 DEF CleanupsSpareUsed, Using
    <3>1. inodes[handles[h].ino].nlink > 0 /\ handles[h].ino \in Ids
      BY DEF Tree, CleanupsSpareUsed, HandlesBound, Exists
    <3>2. CASE handles[h].ino = i
      <4>1. Releasing(i)
        BY <3>2 DEF Releasing
      <4>2. inodes[i].nlink > 1
        BY <1>4, <4>1 DEF RemoveEntryNode, Settled
      <4> QED
        BY <1>1, <2>3, <3>2, <4>2
    <3> QED
      BY <2>4, <3>1, <3>2
  <2> QED
    BY <2>6, <2>7, <2>8, <2>9, <2>10
<1>5. CASE ~(inodes[i].nlink > 1 \/ HasOpenFile(i))
  <2>1. inodes' = [inodes EXCEPT ![i] = NoInode] /\ handles' = Forgotten(i)
    BY <1>5 DEF RemoveEntryNode
  <2>2. inodes'[i] = NoInode /\ \A j \in Ids \ {i} : inodes'[j] = inodes[j]
    BY <1>2, <2>1 DEF TypeOK
  <2>3. \A j : Exists(j)' <=> Exists(j) /\ j # i
    BY <2>2 DEF Exists
  <2>4. \A j : IsDir(j)' <=> IsDir(j) /\ j # i
    BY <2>2, <2>3 DEF IsDir, Exists
  <2>5. \A h \in Handles : Using(h) => handles[h].ino # i
    BY <1>3, <1>5 DEF Using, HasOpenFile
  <2>6. \A h \in Handles :
          /\ handles'[h].pc = handles[h].pc /\ handles'[h].ino = handles[h].ino
          /\ Using(h) => handles'[h] = handles[h]
    BY <1>2, <2>1, <2>5, ForgottenHandles
  <2>7. DirsHaveOneLink'
    BY <2>2, <2>4 DEF Tree, DirsHaveOneLink
  <2>8. HandlesBound'
    BY <2>2, <2>3, <2>5, <2>6 DEF Tree, HandlesBound, Using, Exists
  <2>9. CleanupsSpareUsed'
    BY <2>2, <2>3, <2>5, <2>6 DEF Tree, CleanupsSpareUsed, HandlesBound, Using, Exists
  <2> QED
    BY <2>4, <2>7, <2>8, <2>9
<1> QED
  BY <1>4, <1>5

LEMMA RemoveTree ==
  ASSUME ~RemoveBetween, Sound, Tree, NEW d \in Ids, NEW n \in Names, RemoveChildInode(d, n)
  PROVE  Tree'
<1> DEFINE p == <<d, n>>
<1> DEFINE i == entries[p]
<1> DEFINE table == [entries EXCEPT ![p] = Nowhere]
<1>1. p \in Places /\ entries \in Tables
  BY DEF Places, Sound, TypeOK, Tables
<1>2. i \in Ids \ {Root} /\ Exists(i) /\ RemoveEntryNode(table, i) /\ entries' = table
  BY <1>1, RootIsId DEF RemoveChildInode, Sound, RootKept, EntriesNameInodes, Exists, RemoveEntryNode
<1>3. \A q \in Places : table[q] = IF q = p THEN Nowhere ELSE entries[q]
  BY <1>1 DEF Tables
<1>4. Links(entries, i) >= 1
  BY <1>1, EntrySet
<1>5. IsDir(i) => ~HasChildren(i)
  BY DEF RemoveChildInode
<1> HIDE DEF i, table
<1>6. /\ DirsHaveOneLink' /\ HandlesBound' /\ CleanupsSpareUsed'
      /\ \A j : IsDir(j)' <=> IsDir(j) /\ j # i
  BY <1>2, <1>4, RemovalTree
<1>7. EntriesInDirs'
  <2> SUFFICES ASSUME NEW q \in Places, table[q] # Nowhere PROVE IsDir(q[1])'
    BY <1>2 DEF EntriesInDirs
  <2>1. entries[q] # Nowhere /\ IsDir(q[1])
    BY <1>3 DEF Tree, EntriesInDirs
  <2>2. q = <<q[1], q[2]>> /\ q[2] \in Names
    BY DEF Places
  <2>3. HasChildren(q[1])
    BY <2>1, <2>2 DEF HasChildren
  <2> QED
    BY <1>5, <1>6, <2>1, <2>3
<1>8. RootReached'
  <2> SUFFICES ASSUME NEW j \in Ids, NEW S \in SUBSET Ids, IsDir(j)', j \in S, Upward(table, S)
               PROVE  Root \in S
    BY <1>2 DEF RootReached, Upward
  <2>1. ~IsDir(Nowhere)
    BY RootIsId DEF IsDir, Exists
  <2>2. \A q \in Places : entries[q] \notin {Nowhere, i, Nowhere} => table[q] = entries[q]
    BY <1>3 DEF i
  <2> QED
    BY <1>5, <1>6, <2>1, <2>2, MoveReached
<1> QED
  BY <1>6, <1>7, <1>8 DEF Tree

LEMMA RenameTree ==
  ASSUME ~RemoveBetween, Sound, Tree, NEW d \in Ids, NEW n \in Names, NEW e \in Ids,
         NEW m \in Names, Rename(d, n, e, m)
  PROVE  Tree'
<1> DEFINE p == <<d, n>>
<1> DEFINE q == <<e, m>>
<1> DEFINE source == entries[p]
<1> DEFINE target == entries[q]
<1> DEFINE moved == [entries EXCEPT ![p] = Nowhere, ![q] = source]
<1>1. p \in Places /\ q \in Places /\ q[1] = e /\ entries \in Tables
  BY DEF Places, Sound, TypeOK, Tables
<1>2. /\ source # Nowhere /\ source # target /\ IsDir(e)
      /\ IsDir(source) => ~IsDescendant(e, source)
      /\ target # Nowhere => ~HasChildren(target)
  BY DEF Rename, Renamable
<1>3. \A r \in Places : moved[r] = IF r = q THEN source ELSE IF r = p THEN Nowhere ELSE entries[r]
  BY <1>1 DEF Tables
<1>4. entries' = moved
  BY DEF Rename, RemoveEntryNode
<1>5. IsDir(target) => ~HasChildren(target)
  BY <1>2, RootIsId DEF IsDir, Exists
<1>6. e # target
  <2>1. target # Nowhere => HasChildren(e)
    BY DEF HasChildren
  <2> QED
    BY <1>2, <2>1, RootIsId
<1>7. /\ DirsHaveOneLink' /\ HandlesBound' /\ CleanupsSpareUsed'
      /\ \A j : IsDir(j)' <=> IsDir(j) /\ j # target
  <2>1. CASE target = Nowhere
    <3>1. inodes' = inodes /\ handles' = handles
      BY <2>1 DEF Rename
    <3>2. ~IsDir(target)
      BY <2>1, RootIsId DEF IsDir, Exists
    <3>3. \A j : IsDir(j)' <=> IsDir(j)
      BY <3>1 DEF IsDir, Exists
    <3> QED
      BY <3>1, <3>2, <3>3 DEF Tree, DirsHaveOneLink, HandlesBound, CleanupsSpareUsed, Using, Exists
  <2>2. CASE target # Nowhere
    <3>1. target \in Ids \ {Root} /\ Exists(target) /\ RemoveEntryNode(moved, target)
      BY <1>1, <2>2 DEF Rename, Sound, RootKept, EntriesNameInodes, Exists
    <3>2. Links(entries, target) >= 1
      BY <1>1, EntrySet
    <3> HIDE DEF moved, target
    <3> QED
      BY <3>1, <3>2, RemovalTree
  <2> QED
    BY <2>1, <2>2
<1> HIDE DEF source, target, moved
<1>8. EntriesInDirs'
  <2> SUFFICES ASSUME NEW r \in Places, moved[r] # Nowhere PROVE IsDir(r[1])'
    BY <1>4 DEF EntriesInDirs
  <2>1. CASE r = q
    BY <1>1, <1>2, <1>6, <1>7, <2>1
  <2>2. CASE r # q
    <3>1. entries[r] # Nowhere /\ IsDir(r[1])
      BY <1>3, <2>2 DEF Tree, EntriesInDirs
    <3>2. r = <<r[1], r[2]>> /\ r[2] \in Names
      BY DEF Places
    <3>3. HasChildren(r[1])
      BY <3>1, <3>2 DEF HasChildren
    <3> QED
      BY <1>5, <1>7, <3>1, <3>3
  <2> QED
    BY <2>1, <2>2
<1>9. RootReached'
  <2> SUFFICES ASSUME NEW j \in Ids, NEW S \in SUBSET Ids, IsDir(j)', j \in S, Upward(moved, S)
               PROVE  Root \in S
    BY <1>4 DEF RootReached, Upward
  <2>1. \A r \in Places : entries[r] \notin {source, target, Nowhere} => moved[r] = entries[r]
    BY <1>3 DEF source, target
  <2>2. \E r \in Places : r[1] = e /\ moved[r] = source
    BY <1>1, <1>3
  <2>3. j \in S /\ IsDir(j) /\ j # target
    BY <1>7
  <2> QED
    BY <1>2, <1>5, <1>6, <2>1, <2>2, <2>3, MoveReached
<1> QED
  BY <1>7, <1>8, <1>9 DEF Tree

LEMMA InsertTree ==
  ASSUME Sound, Tree, NEW d \in Ids, NEW n \in Names, NEW kind \in Kinds, Insert(d, n, kind),
         \A h \in Handles :
           \/ handles'[h] = handles[h]
           \/ kind = "file" /\ handles'[h] = Opened(NewInode)
  PROVE  Tree'
<1> DEFINE new == [kind |-> kind, nlink |-> 1]
<1> DEFINE p == <<d, n>>
<1>1. NewInode \in Ids \ {Root} /\ NewInode # Nowhere /\ ~Exists(NewInode)
  BY RootExists, NewInodeIsNew DEF Sound, Insert, IsDir
<1>2. p \in Places /\ p[1] = d /\ IsDir(d) /\ entries[p] = Nowhere /\ entries \in Tables
  BY DEF Insert, Places, Sound, TypeOK, Tables
<1>3. entries' = [entries EXCEPT ![p] = NewInode] /\ entries' \in Tables
  BY <1>1, <1>2 DEF Insert, Tables
<1>4. \A q \in Places : entries'[q] = IF q = p THEN NewInode ELSE entries[q]
  BY <1>2, <1>3 DEF Tables
<1>5. new # NoInode /\ new.nlink = 1 /\ new.kind = kind
  BY NoInodeAssumption DEF Kinds
<1>6. inodes'[NewInode] = new /\ \A j \in Ids \ {NewInode} : inodes'[j] = inodes[j]
  BY <1>1 DEF Insert, Sound, TypeOK
<1>7. \A j : Exists(j)' <=> Exists(j) \/ j = NewInode
  BY <1>1, <1>5, <1>6 DEF Exists
<1>8. \A j : Exists(j) => inodes'[j] = inodes[j]
  BY <1>1, <1>6 DEF Exists
<1>9. \A j : IsDir(j)' <=> IsDir(j) \/ (j = NewInode /\ kind = "dir")
  BY <1>1, <1>5, <1>6, <1>7, <1>8 DEF IsDir
<1>10. DirsHaveOneLink'
  BY <1>5, <1>6, <1>8, <1>9 DEF Tree, DirsHaveOneLink, IsDir
<1>11. \A h \in Handles : Using(h)' =>
         \/ handles'[h] = handles[h] /\ Using(h)
         \/ kind = "file" /\ handles'[h] = Opened(NewInode)
  BY DEF Using
<1>12. HandlesBound'
  BY <1>5, <1>6, <1>7, <1>8, <1>11 DEF Tree, HandlesBound, Opened
<1>13. CleanupsSpareUsed'
  <2> SUFFICES ASSUME NEW h \in Handles, NEW g \in Handles,
                      handles'[h].pc \in {"closing", "cleaning"}, Using(g)',
                      handles'[g].ino = handles'[h].ino
               PROVE  inodes'[handles'[h].ino].nlink > 0
    BY DEF CleanupsSpareUsed
  <2>1. handles'[h] = handles[h]
    BY DEF Opened
  <2>2. CASE handles'[g] = Opened(NewInode)
    BY <1>5, <1>6, <2>2 DEF Opened
  <2>3. CASE handles'[g] = handles[g] /\ Using(g)
    BY <1>8, <2>1, <2>3 DEF Tree, CleanupsSpareUsed, HandlesBound
  <2> QED
    BY <1>11, <2>2, <2>3
<1>14. EntriesInDirs'
  BY <1>2, <1>4, <1>9 DEF Tree, EntriesInDirs
<1>15. RootReached'
  <2> SUFFICES ASSUME NEW j \in Ids, NEW S \in SUBSET Ids, IsDir(j)', j \in S, Upward(entries', S)
               PROVE  Root \in S
    BY DEF RootReached, Upward
  <2>1. \A q \in Places : entries[q] # Nowhere => entries'[q] = entries[q]
    BY <1>2, <1>4
  <2>2. \E i \in S : IsDir(i)
    <3>1. CASE j = NewInode
      <4>1. d \in S
        BY <1>2, <1>4, <3>1 DEF Upward
      <4> QED
        BY <1>2, <4>1
    <3> QED
      BY <1>9, <3>1
  <2> QED
    BY <1>3, <2>1, <2>2, GrowthReached
<1> QED
  BY <1>10, <1>12, <1>13, <1>14, <1>15 DEF Tree

LEMMA LinkTree ==
  ASSUME Sound, Tree, NEW i \in Ids, NEW d \in Ids, NEW n \in Names, Link(i, d, n)
  PROVE  Tree'
<1> DEFINE p == <<d, n>>
<1>1. i # Nowhere /\ Exists(i) /\ ~IsDir(i)
  BY RootIsId DEF Link
<1>2. p \in Places /\ p[1] = d /\ IsDir(d) /\ entries[p] = Nowhere /\ entries \in Tables
  BY DEF Link, Places, Sound, TypeOK, Tables
<1>3. entries' = [entries EXCEPT ![p] = i] /\ entries' \in Tables /\ handles' = handles
  BY <1>1, <1>2 DEF Link, Tables
<1>4. \A q \in Places : entries'[q] = IF q = p THEN i ELSE entries[q]
  BY <1>2, <1>3 DEF Tables
<1>5. /\ inodes'[i] # NoInode /\ inodes'[i].nlink > 0 /\ inodes'[i].kind = inodes[i].kind
      /\ \A j \in Ids \ {i} : inodes'[j] = inodes[j]
  <2>1. inodes' = [inodes EXCEPT ![i] = [inodes[i] EXCEPT !.nlink = inodes[i].nlink + 1]]
    BY DEF Link, Linked
  <2>2. inodes[i].nlink \in Nat /\ inodes[i].nlink + 1 \in Nat /\ inodes[i].nlink + 1 > 0
    BY <1>1, InodeRows DEF Sound
  <2>3. inodes'[i] = [inodes[i] EXCEPT !.nlink = inodes[i].nlink + 1]
    BY <2>1 DEF Sound, TypeOK
  <2>4. \A j \in Ids \ {i} : inodes'[j] = inodes[j]
    BY <2>1 DEF Sound, TypeOK
  <2> QED
    BY <1>1, <2>2, <2>3, <2>4, InodeRows DEF Sound
<1>6. \A j : (Exists(j)' <=> Exists(j)) /\ (Exists(j) => inodes'[j].kind = inodes[j].kind)
  BY <1>1, <1>5 DEF Exists
<1>7. \A j : IsDir(j)' <=> IsDir(j)
  BY <1>6 DEF IsDir
<1>8. DirsHaveOneLink'
  BY <1>1, <1>5, <1>7 DEF Tree, DirsHaveOneLink
<1>9. HandlesBound'
  BY <1>3, <1>5, <1>6 DEF Tree, HandlesBound, Using, Exists
<1>10. CleanupsSpareUsed'
  BY <1>3, <1>5 DEF Tree, CleanupsSpareUsed, HandlesBound, Using, Exists
<1>11. EntriesInDirs'
  BY <1>2, <1>4, <1>7 DEF Tree, EntriesInDirs
<1>12. RootReached'
  <2> SUFFICES ASSUME NEW j \in Ids, NEW S \in SUBSET Ids, IsDir(j)', j \in S, Upward(entries', S)
               PROVE  Root \in S
    BY DEF RootReached, Upward
  <2>1. \A q \in Places : entries[q] # Nowhere => entries'[q] = entries[q]
    BY <1>2, <1>4
  <2> QED
    BY <1>3, <1>7, <2>1, GrowthReached
<1> QED
  BY <1>8, <1>9, <1>10, <1>11, <1>12 DEF Tree

\* A step of a handle that changes neither table.
LEMMA HandleStepTree ==
  ASSUME Sound, Tree, NEW h \in Handles, NEW new,
         UNCHANGED <<inodes, entries>>, handles' = [handles EXCEPT ![h] = new],
         new.pc \in {"opening", "open"} =>
           /\ ~new.lost /\ Exists(new.ino) /\ inodes[new.ino].kind = "file"
           /\ inodes[new.ino].nlink > 0 \/ (Using(h) /\ new.ino = handles[h].ino /\ new.pc = "open"),
         new.pc \in {"closing", "cleaning"} =>
           \A g \in Handles : Using(g) /\ handles[g].ino = new.ino => inodes[new.ino].nlink > 0
  PROVE  Tree'
<1>0. handles'[h] = new /\ \A g \in Handles \ {h} : handles'[g] = handles[g]
  BY DEF Sound, TypeOK
<1>1. \A j : (Exists(j)' <=> Exists(j)) /\ (IsDir(j)' <=> IsDir(j))
  BY DEF Exists, IsDir
<1>2. DirsHaveOneLink' /\ EntriesInDirs'
  BY <1>1 DEF Tree, DirsHaveOneLink, EntriesInDirs
<1>3. HandlesBound'
  BY <1>0, <1>1 DEF Tree, HandlesBound, Using
<1>4. CleanupsSpareUsed'
  <2> SUFFICES ASSUME NEW k \in Handles, NEW g \in Handles,
                      handles'[k].pc \in {"closing", "cleaning"}, Using(g)',
                      handles'[g].ino = handles'[k].ino
               PROVE  inodes[handles'[k].ino].nlink > 0
    BY DEF CleanupsSpareUsed
  <2>1. k # g
    BY DEF Using
  <2>2. CASE k = h
    BY <1>0, <2>1, <2>2 DEF Using
  <2>3. CASE k # h /\ g = h
    BY <1>0, <2>3 DEF Using, Tree, CleanupsSpareUsed
  <2>4. CASE k # h /\ g # h
    BY <1>0, <2>4 DEF Using, Tree, CleanupsSpareUsed
  <2> QED
    BY <2>2, <2>3, <2>4
<1>5. RootReached'
  BY <1>1 DEF Tree, RootReached, Upward
<1> QED
  BY <1>2, <1>3, <1>4, <1>5 DEF Tree

LEMMA CreateTree ==
  ASSUME Sound, Tree, NEW h \in Handles, NEW d \in Ids, NEW n \in Names, Create(h, d, n)
  PROVE  Tree'
<1> DEFINE p == <<d, n>>
<1> DEFINE existing == entries[p]
<1>1. CASE existing = Nowhere
  <2>1. Insert(d, n, "file") /\ handles' = [handles EXCEPT ![h] = Opened(NewInode)]
    BY <1>1 DEF Create
  <2>2. \A g \in Handles : handles'[g] = handles[g] \/ handles'[g] = Opened(NewInode)
    BY <2>1 DEF Sound, TypeOK
  <2> QED
    BY <2>1, <2>2, InsertTree DEF Kinds
<1>2. CASE existing # Nowhere
  <2>1. handles' = [handles EXCEPT ![h] = Opened(existing)] /\ UNCHANGED <<inodes, entries>>
        /\ inodes[existing].kind = "file"
    BY <1>2 DEF Create
  <2>2. p \in Places /\ entries \in Tables
    BY DEF Places, Sound, TypeOK, Tables
  <2>3. existing \in Ids \ {Root} /\ Exists(existing)
    BY <1>2, <2>2 DEF Sound, RootKept, EntriesNameInodes, Exists
  <2>4. inodes[existing].nlink > 0
    <3>1. Links(entries, existing) >= 1 /\ Links(entries, existing) \in Nat
      BY <2>2, EntrySet, NamesFinite
    <3> QED
      BY <2>3, <3>1 DEF Sound, LinksCounted
  <2>5. /\ Opened(existing).pc = "open" /\ ~Opened(existing).lost
        /\ Opened(existing).ino = existing
    BY DEF Opened
  <2> HIDE DEF existing
  <2> QED
    BY <2>1, <2>3, <2>4, <2>5, HandleStepTree
<1> QED
  BY <1>1, <1>2

LEMMA HandlesTree ==
  ASSUME ~RemoveBetween, Sound, Tree, NEW h \in Handles,
         \/ \E i \in Ids : OpenLookup(h, i)
         \/ OpenRegister(h) \/ OpenFails(h) \/ Release(h)
         \/ ReleaseLookForOthers(h) \/ ReleaseLookup(h) \/ ReleaseFails(h)
  PROVE  Tree'
<1>0. handles[h] \in HandleRow
  BY DEF Sound, TypeOK, HandleRow
<1>1. ASSUME NEW i \in Ids, OpenLookup(h, i) PROVE Tree'
  <2> DEFINE new == [Opened(i) EXCEPT !.pc = "opening"]
  <2>1. new.pc = "opening" /\ new.ino = i /\ ~new.lost
    BY DEF Opened
  <2>2. handles' = [handles EXCEPT ![h] = new]
    BY <1>1 DEF OpenLookup
  <2> HIDE DEF new
  <2> QED
    BY <1>1, <2>1, <2>2, HandleStepTree DEF OpenLookup
<1>2. ASSUME NEW pc \in {"open", "removed", "closing", "cleaning"},
             handles' = [handles EXCEPT ![h].pc = pc], UNCHANGED <<inodes, entries>>,
             pc = "open" => Using(h),
             pc \in {"closing", "cleaning"} =>
               \A g \in Handles : Using(g) /\ handles[g].ino = handles[h].ino
                                    => inodes[handles[h].ino].nlink > 0
      PROVE  Tree'
  <2> DEFINE new == [handles[h] EXCEPT !.pc = pc]
  <2>1. new.pc = pc /\ new.ino = handles[h].ino /\ new.lost = handles[h].lost
    BY <1>0 DEF HandleRow
  <2>2. handles' = [handles EXCEPT ![h] = new]
    BY <1>2
  <2>3. pc = "open" => ~handles[h].lost /\ Exists(handles[h].ino)
                       /\ inodes[handles[h].ino].kind = "file"
    BY <1>2 DEF Tree, HandlesBound
  <2>4. new.pc \in {"opening", "open"} =>
          /\ ~new.lost /\ Exists(new.ino) /\ inodes[new.ino].kind = "file"
          /\ Using(h) /\ new.ino = handles[h].ino /\ new.pc = "open"
    <3> HIDE DEF new
    <3>1. new.pc \in {"opening", "open"} => pc = "open"
      BY <2>1
    <3> QED
      BY <1>2, <2>1, <2>3, <3>1
  <2>5. new.pc \in {"closing", "cleaning"} =>
          \A g \in Handles : Using(g) /\ handles[g].ino = new.ino => inodes[new.ino].nlink > 0
    <3> HIDE DEF new
    <3> QED
      BY <1>2, <2>1
  <2> HIDE DEF new
  <2> QED
    BY <1>2, <2>2, <2>4, <2>5, HandleStepTree
<1>3. ASSUME handles' = [handles EXCEPT ![h] = Closed], UNCHANGED <<inodes, entries>>
      PROVE  Tree'
  BY <1>3, HandleStepTree DEF Closed
<1>4. CASE OpenRegister(h)
  BY <1>2, <1>4 DEF OpenRegister, Using
<1>5. CASE Release(h)
  BY <1>2, <1>5 DEF Release
<1>6. CASE ReleaseLookForOthers(h)
  <2>1. CASE HasOpenFile(handles[h].ino)
    BY <1>3, <1>6, <2>1 DEF ReleaseLookForOthers
  <2>2. CASE ~HasOpenFile(handles[h].ino)
    <3>1. \A g \in Handles : Using(g) /\ handles[g].ino = handles[h].ino
                             => inodes[handles[h].ino].nlink > 0
      BY <2>2 DEF HasOpenFile, Using, Tree, HandlesBound
    <3> QED
      BY <1>2, <1>6, <2>2, <3>1 DEF ReleaseLookForOthers
  <2> QED
    BY <2>1, <2>2
<1>7. CASE ReleaseLookup(h)
  <2>1. CASE Exists(handles[h].ino) /\ inodes[handles[h].ino].nlink = 0
    <3>1. \A g \in Handles : Using(g) /\ handles[g].ino = handles[h].ino
                             => inodes[handles[h].ino].nlink > 0
      BY <1>7 DEF ReleaseLookup, Tree, CleanupsSpareUsed
    <3> QED
      BY <1>2, <1>7, <2>1, <3>1 DEF ReleaseLookup
  <2>2. CASE ~(Exists(handles[h].ino) /\ inodes[handles[h].ino].nlink = 0)
    BY <1>3, <1>7, <2>2 DEF ReleaseLookup
  <2> QED
    BY <2>1, <2>2
<1>8. CASE OpenFails(h) \/ ReleaseFails(h)
  BY <1>3, <1>8 DEF OpenFails, ReleaseFails
<1> QED
  BY <1>1, <1>4, <1>5, <1>6, <1>7, <1>8

LEMMA ReleaseCleanupTree ==
  ASSUME Sound, Tree, NEW h \in Handles, ReleaseCleanup(h)
  PROVE  Tree'
<1> DEFINE i == handles[h].ino
<1>0. TypeOK /\ handles \in [Handles -> HandleRow] /\ handles[h].pc = "cleaning"
  BY DEF Sound, TypeOK, HandleRow, ReleaseCleanup
<1>1. CASE Exists(i) /\ inodes[i].nlink = 0
  <2>1. /\ inodes' = [inodes EXCEPT ![i] = NoInode] /\ entries' = entries
        /\ handles' = [Forgotten(i) EXCEPT ![h] = Closed]
    BY <1>1 DEF ReleaseCleanup
  <2>2. i \in Ids /\ ~IsDir(i)
    BY <1>1 DEF Exists, Tree, DirsHaveOneLink
  <2>3. inodes'[i] = NoInode /\ \A j \in Ids \ {i} : inodes'[j] = inodes[j]
    BY <2>1, <2>2 DEF Sound, TypeOK
  <2>4. \A j : Exists(j)' <=> Exists(j) /\ j # i
    BY <2>3 DEF Exists
  <2>5. \A j : IsDir(j)' <=> IsDir(j)
    BY <2>2, <2>3, <2>4 DEF IsDir, Exists
  <2>6. \A g \in Handles : Using(g) => handles[g].ino # i
    BY <1>0, <1>1 DEF Tree, CleanupsSpareUsed
  <2>7. \A g \in Handles :
          \/ handles'[g] = Closed
          \/ /\ handles'[g].pc = handles[g].pc /\ handles'[g].ino = handles[g].ino
             /\ Using(g) => handles'[g] = handles[g]
    <3>1. /\ Forgotten(i) \in [Handles -> HandleRow]
          /\ \A g \in Handles :
               /\ Forgotten(i)[g].pc = handles[g].pc /\ Forgotten(i)[g].ino = handles[g].ino
               /\ Using(g) => Forgotten(i)[g] = handles[g]
      BY <1>0, <2>6, ForgottenHandles
    <3> HIDE DEF i
    <3> QED
      BY <2>1, <3>1
  <2>8. DirsHaveOneLink'
    BY <2>2, <2>3, <2>5 DEF Tree, DirsHaveOneLink
  <2>9. HandlesBound'
    BY <2>3, <2>4, <2>6, <2>7 DEF Tree, HandlesBound, Using, Closed, Exists
  <2>10. CleanupsSpareUsed'
    BY <2>3, <2>4, <2>6, <2>7 DEF Tree, CleanupsSpareUsed, HandlesBound, Using, Closed, Exists
  <2>11. EntriesInDirs' /\ RootReached'
    BY <2>1, <2>5 DEF Tree, EntriesInDirs, RootReached, Upward
  <2> QED
    BY <2>8, <2>9, <2>10, <2>11 DEF Tree
<1>2. CASE ~(Exists(i) /\ inodes[i].nlink = 0)
  <2>1. handles' = [handles EXCEPT ![h] = Closed] /\ UNCHANGED <<inodes, entries>>
    BY <1>2 DEF ReleaseCleanup
  <2> QED
    BY <2>1, HandleStepTree DEF Closed
<1> QED
  BY <1>1, <1>2

LEMMA StepTree == ~RemoveBetween /\ Sound /\ Tree /\ [Next]_vars => Tree'
<1> SUFFICES ASSUME ~RemoveBetween, Sound, Tree, [Next]_vars PROVE Tree'
  OBVIOUS
<1>1. CASE UNCHANGED vars
  BY <1>1 DEF vars, Tree, DirsHaveOneLink, HandlesBound, CleanupsSpareUsed, EntriesInDirs,
    RootReached, Upward, Using, IsDir, Exists
<1>2. ASSUME NEW d \in Ids, NEW n \in Names, NEW kind \in Kinds, Make(d, n, kind) PROVE Tree'
  <2>1. Insert(d, n, kind) /\ handles' = handles
    BY <1>2 DEF Make
  <2> QED
    BY <2>1, InsertTree
<1>3. CASE Crash
  <2>1. /\ UNCHANGED <<inodes, entries>>
        /\ \A i : (Exists(i)' <=> Exists(i)) /\ (IsDir(i)' <=> IsDir(i))
    BY <1>3 DEF Crash, Exists, IsDir
  <2>2. \A h \in Handles : handles'[h].pc = "closed"
    BY <1>3 DEF Crash, Closed
  <2>3. HandlesBound' /\ CleanupsSpareUsed'
    BY <2>2 DEF HandlesBound, CleanupsSpareUsed, Using
  <2>4. DirsHaveOneLink' /\ EntriesInDirs' /\ RootReached'
    BY <2>1 DEF Tree, DirsHaveOneLink, EntriesInDirs, RootReached, Upward
  <2> QED
    BY <2>3, <2>4 DEF Tree
<1> QED
  BY <1>1, <1>2, <1>3, RemoveTree, LinkTree, RenameTree, CreateTree, HandlesTree,
    ReleaseCleanupTree DEF Next, Operation

LEMMA AlwaysTree == ASSUME ~RemoveBetween PROVE Spec => []Tree
BY InitTree, StepTree, AlwaysSound, PTL DEF Spec

\* While names keep away from an open or a release that is under way, no rename
\* makes a cycle or cuts off a subtree (rename, is_descendant, has_children).
THEOREM NamespaceDirectoryTree == ASSUME ~RemoveBetween PROVE Spec => []DirectoryTree
<1>1. Sound /\ Tree => DirectoryTree
  <2> SUFFICES ASSUME Sound, Tree PROVE DirectoryTree
    OBVIOUS
  <2>0. entries \in Tables /\ DOMAIN entries = Places
    BY DEF Sound, TypeOK, Tables, Places
  <2>1. \A p \in DOMAIN entries : entries[p] # Nowhere => IsDir(p[1]) /\ Exists(entries[p])
    BY <2>0 DEF Sound, EntriesNameInodes, Tree, EntriesInDirs
  <2>2. ASSUME NEW i \in Ids, IsDir(i)
        PROVE  Cardinality({p \in DOMAIN entries : entries[p] = i}) = IF i = Root THEN 0 ELSE 1
    <3>1. Cardinality({p \in DOMAIN entries : entries[p] = i}) = Links(entries, i)
      BY <2>0 DEF Links, NamesOf
    <3>2. CASE i = Root
      BY <3>1, <3>2, NoNameNoLinks DEF Sound, RootKept
    <3>3. CASE i # Root
      BY <2>2, <3>1, <3>3 DEF Sound, LinksCounted, IsDir, Tree, DirsHaveOneLink
    <3> QED
      BY <3>2, <3>3
  <2>3. ASSUME NEW i \in Ids, IsDir(i) PROVE IsDescendant(i, Root)
    BY <2>3, UpwardIsUpwardClosed DEF IsDescendant, Sound, Tree, RootReached
  <2> QED
    BY <2>1, <2>2, <2>3 DEF DirectoryTree
<1> QED
  BY <1>1, AlwaysSound, AlwaysTree, PTL

(***************************************************************************)
(* What an open handle may lose its file to.                               *)
(***************************************************************************)
Cleaning(h) == handles[h].pc \in {"closing", "cleaning"}

\* The inode of an open handle is deleted by the write transaction of a release.
DeletedByRelease(h) ==
  Exists(handles[h].ino) /\ inodes'[handles[h].ino] = NoInode =>
    \E g \in Handles : handles[g].ino = handles[h].ino
                       /\ handles[g].pc = "cleaning" /\ handles'[g].pc = "closed"

\* While a handle is open, no release of its inode begins a cleanup.
NoCleanupBegun(h) ==
  handles'[h].pc = "open" =>
    \A g \in Handles : Cleaning(g)' /\ handles'[g].ino = handles[h].ino =>
      Cleaning(g) /\ handles[g].ino = handles[h].ino

\* An open handle loses its file only to a release that had looked for other open
\* handles of it before this one was registered: no unlink, rmdir or rename takes
\* it away, and no release that begins later (_remove_entry_node, _release).
OpenFileLostToReleaseOnly ==
  [][\A h \in Handles :
       handles[h].pc = "open" => DeletedByRelease(h) /\ NoCleanupBegun(h)]_vars

\* A row that is only updated is not deleted.
LEMMA RemovalSparesOpen ==
  ASSUME Sound, NEW table, NEW p \in Places, entries[p] # Nowhere,
         RemoveEntryNode(table, entries[p]),
         NEW h \in Handles, handles[h].pc = "open"
  PROVE  DeletedByRelease(h) /\ NoCleanupBegun(h)
<1> DEFINE i == entries[p]
<1>1. i \in Ids \ {Root} /\ Exists(i) /\ entries \in Tables
  BY DEF Sound, TypeOK, RootKept, EntriesNameInodes, Exists, Tables, Places
<1>2. inodes[i].nlink = Links(entries, i) /\ Links(entries, i) \in Nat /\ Links(entries, i) >= 1
  BY <1>1, NamesFinite, EntrySet DEF Sound, LinksCounted
<1>3. handles' = handles \/ handles' = Forgotten(i)
  BY DEF RemoveEntryNode
<1>4. \A g \in Handles : handles'[g].pc = handles[g].pc /\ handles'[g].ino = handles[g].ino
  BY <1>3, ForgottenHandles DEF Sound
<1>5. CASE HasOpenFile(i)
  <2>1. inodes' = [inodes EXCEPT ![i] = [inodes[i] EXCEPT !.nlink = inodes[i].nlink - 1]]
    BY <1>5 DEF RemoveEntryNode, Unlinked
  <2>2. inodes[i].nlink - 1 \in Nat
    BY <1>2
  <2>3. [inodes[i] EXCEPT !.nlink = inodes[i].nlink - 1] # NoInode
    BY <1>1, <2>2, InodeRows DEF Sound
  <2>4. \A j \in Ids : inodes[j] # NoInode => inodes'[j] # NoInode
    BY <2>1, <2>3 DEF Sound, TypeOK
  <2> QED
    BY <1>4, <2>4 DEF DeletedByRelease, NoCleanupBegun, Cleaning, Exists
<1>6. CASE ~HasOpenFile(i)
  <2>1. handles[h].ino # i
    BY <1>6 DEF HasOpenFile
  <2>2. \A j \in Ids \ {i} : inodes'[j] = inodes[j]
    BY DEF RemoveEntryNode, Unlinked, Sound, TypeOK
  <2> QED
    BY <1>4, <2>1, <2>2 DEF DeletedByRelease, NoCleanupBegun, Cleaning, Exists
<1> QED
  BY <1>5, <1>6

LEMMA StepSparesOpen ==
  ASSUME Sound, [Next]_vars, NEW h \in Handles, handles[h].pc = "open"
  PROVE  DeletedByRelease(h) /\ NoCleanupBegun(h)
<1>0. handles \in [Handles -> HandleRow] /\ TypeOK
  BY DEF Sound, TypeOK, HandleRow
<1>1. ASSUME UNCHANGED <<inodes, handles>> PROVE DeletedByRelease(h) /\ NoCleanupBegun(h)
  BY <1>1 DEF DeletedByRelease, NoCleanupBegun, Cleaning, Exists
\* A handle takes a step, and no row goes.
<1>2. ASSUME \A j \in Ids : inodes[j] # NoInode => inodes'[j] # NoInode,
             NEW g \in Handles, NEW new, handles' = [handles EXCEPT ![g] = new],
             \/ new.pc \notin {"closing", "cleaning"}
             \/ Cleaning(g) /\ new.ino = handles[g].ino
             \/ new.ino = handles[g].ino /\ ~HasOpenFile(new.ino)
      PROVE  DeletedByRelease(h) /\ NoCleanupBegun(h)
  <2>1. handles'[g] = new /\ \A f \in Handles \ {g} : handles'[f] = handles[f]
    BY <1>0, <1>2
  <2>2. HasOpenFile(handles[h].ino)
    BY DEF HasOpenFile
  <2>3. NoCleanupBegun(h)
    BY <1>2, <2>1, <2>2 DEF NoCleanupBegun, Cleaning
  <2> QED
    BY <1>2, <2>3 DEF DeletedByRelease, Exists
<1>3. ASSUME NEW d \in Ids, NEW n \in Names, NEW kind \in Kinds, Insert(d, n, kind)
      PROVE  \A j \in Ids : inodes[j] # NoInode => inodes'[j] # NoInode
  <2>1. [kind |-> kind, nlink |-> 1] # NoInode
    BY NoInodeAssumption DEF Kinds
  <2> QED
    BY <1>0, <1>3, <2>1 DEF Insert, TypeOK
<1>4. ASSUME NEW d \in Ids, NEW n \in Names, NEW kind \in Kinds, Make(d, n, kind)
      PROVE  DeletedByRelease(h) /\ NoCleanupBegun(h)
  <2>1. handles' = handles /\ \A j \in Ids : inodes[j] # NoInode => inodes'[j] # NoInode
    BY <1>3, <1>4 DEF Make
  <2> QED
    BY <2>1 DEF DeletedByRelease, NoCleanupBegun, Cleaning, Exists
<1>5. ASSUME NEW i \in Ids, NEW d \in Ids, NEW n \in Names, Link(i, d, n)
      PROVE  DeletedByRelease(h) /\ NoCleanupBegun(h)
  <2>1. inodes' = [inodes EXCEPT ![i] = [inodes[i] EXCEPT !.nlink = inodes[i].nlink + 1]]
        /\ handles' = handles /\ Exists(i)
    BY <1>5 DEF Link, Linked
  <2>2. [inodes[i] EXCEPT !.nlink = inodes[i].nlink + 1] # NoInode
    BY <1>0, <2>1, InodeRows
  <2>3. \A j \in Ids : inodes[j] # NoInode => inodes'[j] # NoInode
    BY <1>0, <2>1, <2>2 DEF TypeOK
  <2> QED
    BY <2>1, <2>3 DEF DeletedByRelease, NoCleanupBegun, Cleaning, Exists
<1>6. ASSUME NEW d \in Ids, NEW n \in Names, RemoveChildInode(d, n)
      PROVE  DeletedByRelease(h) /\ NoCleanupBegun(h)
  BY <1>6, RemovalSparesOpen DEF RemoveChildInode, Places
<1>7. ASSUME NEW d \in Ids, NEW n \in Names, NEW e \in Ids, NEW m \in Names, Rename(d, n, e, m)
      PROVE  DeletedByRelease(h) /\ NoCleanupBegun(h)
  <2>1. CASE entries[<<e, m>>] = Nowhere
    BY <1>1, <1>7, <2>1 DEF Rename
  <2>2. CASE entries[<<e, m>>] # Nowhere
    <3> DEFINE moved == [entries EXCEPT ![<<d, n>>] = Nowhere, ![<<e, m>>] = entries[<<d, n>>]]
    <3>1. RemoveEntryNode(moved, entries[<<e, m>>]) /\ <<e, m>> \in Places
      BY <1>7, <2>2 DEF Rename, Places
    <3> HIDE DEF moved
    <3> QED
      BY <2>2, <3>1, RemovalSparesOpen
  <2> QED
    BY <2>1, <2>2
<1>8. ASSUME NEW g \in Handles, NEW d \in Ids, NEW n \in Names, Create(g, d, n)
      PROVE  DeletedByRelease(h) /\ NoCleanupBegun(h)
  <2>1. CASE entries[<<d, n>>] = Nowhere
    <3>1. Insert(d, n, "file") /\ handles' = [handles EXCEPT ![g] = Opened(NewInode)]
      BY <1>8, <2>1 DEF Create
    <3>2. Opened(NewInode).pc = "open" /\ "file" \in Kinds
      BY DEF Opened, Kinds
    <3>3. \A j \in Ids : inodes[j] # NoInode => inodes'[j] # NoInode
      BY <1>3, <3>1, <3>2
    <3> QED
      BY <1>2, <3>1, <3>2, <3>3
  <2>2. CASE entries[<<d, n>>] # Nowhere
    <3>1. handles' = [handles EXCEPT ![g] = Opened(entries[<<d, n>>])] /\ inodes' = inodes
      BY <1>8, <2>2 DEF Create
    <3>2. Opened(entries[<<d, n>>]).pc = "open"
      BY DEF Opened
    <3> QED
      BY <1>2, <3>1, <3>2
  <2> QED
    BY <2>1, <2>2
\* A handle that only reads the tables.
<1>9. ASSUME NEW g \in Handles,
             \/ \E i \in Ids : OpenLookup(g, i)
             \/ OpenRegister(g) \/ OpenFails(g) \/ Release(g)
             \/ ReleaseLookForOthers(g) \/ ReleaseLookup(g) \/ ReleaseFails(g)
      PROVE  DeletedByRelease(h) /\ NoCleanupBegun(h)
  <2>0. inodes' = inodes /\ handles[g] \in HandleRow
    BY <1>0, <1>9 DEF OpenLookup, OpenRegister, OpenFails, Release, ReleaseLookForOthers,
      ReleaseLookup, ReleaseFails
  <2>1. ASSUME handles' = [handles EXCEPT ![g] = Closed] PROVE DeletedByRelease(h) /\ NoCleanupBegun(h)
    <3>1. Closed.pc = "closed"
      BY DEF Closed
    <3> QED
      BY <1>2, <2>0, <2>1, <3>1
  <2>2. ASSUME NEW pc \in {"open", "removed", "closing", "cleaning"},
               handles' = [handles EXCEPT ![g].pc = pc],
               pc \in {"closing", "cleaning"} => Cleaning(g) \/ ~HasOpenFile(handles[g].ino)
        PROVE  DeletedByRelease(h) /\ NoCleanupBegun(h)
    <3> DEFINE new == [handles[g] EXCEPT !.pc = pc]
    <3>1. handles' = [handles EXCEPT ![g] = new] /\ new.pc = pc /\ new.ino = handles[g].ino
      BY <1>0, <2>2, HandleRows
    <3> HIDE DEF new
    <3> QED
      BY <1>2, <2>0, <2>2, <3>1
  <2>3. ASSUME NEW i \in Ids, OpenLookup(g, i) PROVE DeletedByRelease(h) /\ NoCleanupBegun(h)
    <3> DEFINE new == [Opened(i) EXCEPT !.pc = "opening"]
    <3>1. handles' = [handles EXCEPT ![g] = new] /\ new.pc = "opening"
      BY <2>3 DEF OpenLookup, Opened
    <3> HIDE DEF new
    <3> QED
      BY <1>2, <2>0, <3>1
  <2>4. CASE OpenRegister(g) \/ Release(g)
    BY <2>2, <2>4 DEF OpenRegister, Release
  <2>5. CASE ReleaseLookForOthers(g)
    BY <2>1, <2>2, <2>5 DEF ReleaseLookForOthers
  <2>6. CASE ReleaseLookup(g)
    BY <2>1, <2>2, <2>6 DEF ReleaseLookup, Cleaning
  <2>7. CASE OpenFails(g) \/ ReleaseFails(g)
    BY <2>1, <2>7 DEF OpenFails, ReleaseFails
  <2> QED
    BY <1>9, <2>3, <2>4, <2>5, <2>6, <2>7
\* The deletion by a release.
<1>10. ASSUME NEW g \in Handles, ReleaseCleanup(g) PROVE DeletedByRelease(h) /\ NoCleanupBegun(h)
  <2> DEFINE i == handles[g].ino
  <2>1. handles[g].pc = "cleaning" /\ Closed.pc = "closed"
    BY <1>10 DEF ReleaseCleanup, Closed
  <2>2. /\ handles'[g] = Closed
        /\ \A f \in Handles \ {g} : handles'[f].pc = handles[f].pc /\ handles'[f].ino = handles[f].ino
    <3>1. /\ Forgotten(i) \in [Handles -> HandleRow]
          /\ \A f \in Handles : Forgotten(i)[f].pc = handles[f].pc /\ Forgotten(i)[f].ino = handles[f].ino
      BY <1>0, ForgottenHandles
    <3>2. handles' = [Forgotten(i) EXCEPT ![g] = Closed] \/ handles' = [handles EXCEPT ![g] = Closed]
      BY <1>10 DEF ReleaseCleanup
    <3> HIDE DEF i
    <3> QED
      BY <1>0, <3>1, <3>2
  <2>3. \A j \in Ids : j # i => inodes'[j] = inodes[j]
    BY <1>0, <1>10 DEF ReleaseCleanup, TypeOK
  <2>4. NoCleanupBegun(h)
    BY <2>1, <2>2 DEF NoCleanupBegun, Cleaning
  <2>5. DeletedByRelease(h)
    BY <2>1, <2>2, <2>3 DEF DeletedByRelease, Exists
  <2> QED
    BY <2>4, <2>5
<1>11. CASE Crash
  <2>1. inodes' = inodes /\ \A g \in Handles : handles'[g].pc = "closed"
    BY <1>11 DEF Crash, Closed
  <2> QED
    BY <2>1 DEF DeletedByRelease, NoCleanupBegun, Exists
<1>12. CASE UNCHANGED vars
  BY <1>1, <1>12 DEF vars
<1> QED
  BY <1>4, <1>5, <1>6, <1>7, <1>8, <1>9, <1>10, <1>11, <1>12 DEF Next, Operation

\* Whatever goes between the steps of open and release, an open handle loses its
\* file only to the release of another handle that overlaps its open: no unlink or
\* rename deletes an open file, and no release sets out to while it is open.
THEOREM NamespaceOpenFileLostToReleaseOnly == Spec => OpenFileLostToReleaseOnly
<1>1. Sound /\ [Next]_vars =>
        [\A h \in Handles : handles[h].pc = "open" => DeletedByRelease(h) /\ NoCleanupBegun(h)]_vars
  BY StepSparesOpen
<1> QED
  BY <1>1, AlwaysSound, PTL DEF Spec, OpenFileLostToReleaseOnly

(***************************************************************************)
(* Directory listings (DirectoryListing), for any handles, names and size  *)
(* of a page.                                                              *)
(***************************************************************************)
\* A set that has 0 and every successor of a member has every number.  (The
\* intervals 0 .. n of numbers outside the set would have no smallest one.)
LEMMA SetOfNumbers ==
  ASSUME NEW A, 0 \in A, \A n \in Nat : n \in A => n + 1 \in A
  PROVE  \A n \in Nat : n \in A
<1> SUFFICES ASSUME NEW m \in Nat, m \notin A PROVE FALSE
  OBVIOUS
<1> DEFINE T == {0 .. n : n \in Nat \ A}
           R == StrictSubsetOrdering(Nat)
<1>1. \A n \in Nat : 0 .. n \in FiniteSubsetsOf(Nat)
  <2> SUFFICES ASSUME NEW n \in Nat PROVE 0 .. n \in FiniteSubsetsOf(Nat)
    OBVIOUS
  <2>1. IsFiniteSet(0 .. n)
    BY FS_Interval
  <2> QED
    BY <2>1 DEF FiniteSubsetsOf
<1>2. T \subseteq FiniteSubsetsOf(Nat) /\ T # {}
  BY <1>1
<1>3. IsWellFoundedOn(R, FiniteSubsetsOf(Nat))
  BY FS_StrictSubsetOrderingWellFounded
<1>4. PICK x \in T : \A y \in T : ~ (<<y, x>> \in R)
  <2> HIDE DEF T, R
  <2> QED
    BY <1>2, <1>3, WFMin
<1>5. PICK n \in Nat \ A : x = 0 .. n
  BY <1>4
<1>6. n # 0 /\ n - 1 \in Nat
  BY <1>5
<1>7. n - 1 \notin A
  BY <1>5, <1>6
<1>8. 0 .. n - 1 \in T
  BY <1>6, <1>7
<1>9. /\ 0 .. n - 1 \in SUBSET Nat /\ 0 .. n \in SUBSET Nat
      /\ 0 .. n - 1 \subseteq 0 .. n /\ 0 .. n - 1 # 0 .. n
  BY <1>6
<1>10. <<0 .. n - 1, x>> \in R
  BY <1>5, <1>9 DEF StrictSubsetOrdering
<1> QED
  BY <1>4, <1>8, <1>10

LEMMA SameCardinality == \A S : Cardinality(S) = Cardinality(S)
BY DEF Cardinality, Cardinality

(***************************************************************************)
(* The order of the index.                                                 *)
(***************************************************************************)
\* row has the members of S, in order.
Orders(row, k, S) ==
  /\ row \in [1 .. k -> S]
  /\ \A i, j \in 1 .. k : i < j => row[i] < row[j]
  /\ \A n \in S : \E i \in 1 .. k : row[i] = n

LEMMA OrderExists ==
  ASSUME NEW N \in Nat, NEW S \in SUBSET (1 .. N)
  PROVE  Cardinality(S) \in Nat /\ \E row : Orders(row, Cardinality(S), S)
<1> DEFINE Ordered(T) == IsFiniteSet(T) /\ \E row : Orders(row, Cardinality(T), T)
           A == {n \in Nat : \A T \in SUBSET (1 .. n) : Ordered(T)}
<1>1. 0 \in A
  <2>1. ASSUME NEW T \in SUBSET (1 .. 0) PROVE Ordered(T)
    <3>1. T = {}
      OBVIOUS
    <3>2. Cardinality(T) = 0 /\ IsFiniteSet(T)
      BY <3>1, FS_EmptySet
    <3>3. Orders([i \in 1 .. 0 |-> i], 0, T)
      BY <3>1 DEF Orders
    <3> QED
      BY <3>2, <3>3
  <2> HIDE DEF Ordered
  <2> QED
    BY <2>1
<1>2. ASSUME NEW n \in Nat, n \in A PROVE n + 1 \in A
  <2>1. ASSUME NEW T \in SUBSET (1 .. n + 1), n + 1 \notin T PROVE Ordered(T)
    <3>1. T \in SUBSET (1 .. n)
      BY <2>1
    <3> HIDE DEF Ordered
    <3> QED
      BY <1>2, <3>1
  <2>2. ASSUME NEW T \in SUBSET (1 .. n + 1), n + 1 \in T PROVE Ordered(T)
    <3> DEFINE R == T \ {n + 1}
               k == Cardinality(R)
    <3>1. R \in SUBSET (1 .. n)
      BY <2>2
    <3>2. Ordered(R)
      <4> HIDE DEF Ordered, R
      <4> QED
        BY <1>2, <3>1
    <3>3. PICK row : Orders(row, k, R)
      BY <3>2
    <3>4. IsFiniteSet(T) /\ k \in Nat /\ Cardinality(T) = k + 1
      <4>1. T = R \cup {n + 1} /\ n + 1 \notin R
        BY <2>2
      <4> HIDE DEF R
      <4> QED
        BY <3>2, <4>1, FS_AddElement, FS_CardinalityType
    <3> DEFINE longer == [i \in 1 .. k + 1 |-> IF i = k + 1 THEN n + 1 ELSE row[i]]
    <3> HIDE DEF k
    <3>5. /\ \A i \in 1 .. k : longer[i] = row[i] /\ row[i] \in R /\ i \in 1 .. k + 1
          /\ longer[k + 1] = n + 1 /\ k + 1 \in 1 .. k + 1
          /\ longer \in [1 .. k + 1 -> T]
      <4>1. \A i \in 1 .. k : row[i] \in R
        BY <3>3 DEF Orders
      <4>2. \A i \in 1 .. k : i \in 1 .. k + 1 /\ i # k + 1
        BY <3>4
      <4>3. \A i \in 1 .. k + 1 : i = k + 1 \/ i \in 1 .. k
        BY <3>4
      <4>4. k + 1 \in 1 .. k + 1
        BY <3>4
      <4>5. R \subseteq T
        OBVIOUS
      <4> HIDE DEF R
      <4> QED
        BY <2>2, <4>1, <4>2, <4>3, <4>4, <4>5
    <3> HIDE DEF longer
    <3>6. ASSUME NEW i \in 1 .. k + 1, NEW j \in 1 .. k + 1, i < j
          PROVE  longer[i] < longer[j]
      <4>1. i \in 1 .. k
        BY <3>4, <3>6
      <4>2. row[i] \in 1 .. n /\ longer[i] = row[i]
        BY <3>1, <3>5, <4>1
      <4>3. CASE j = k + 1
        BY <3>5, <4>2, <4>3
      <4>4. CASE j # k + 1
        <5>1. j \in 1 .. k
          BY <3>4, <4>4
        <5>2. row[i] < row[j]
          BY <3>3, <3>6, <4>1, <5>1 DEF Orders
        <5> QED
          BY <3>5, <4>2, <5>1, <5>2
      <4> QED
        BY <4>3, <4>4
    <3>7. ASSUME NEW e \in T PROVE \E i \in 1 .. k + 1 : longer[i] = e
      <4>1. CASE e = n + 1
        BY <3>5, <4>1
      <4>2. CASE e # n + 1
        <5>1. e \in R
          BY <4>2
        <5>2. PICK i \in 1 .. k : row[i] = e
          BY <3>3, <5>1 DEF Orders
        <5> QED
          BY <3>5, <5>2
      <4> QED
        BY <4>1, <4>2
    <3>8. Orders(longer, Cardinality(T), T)
      BY <3>4, <3>5, <3>6, <3>7 DEF Orders
    <3> QED
      BY <3>4, <3>8
  <2> HIDE DEF Ordered
  <2> QED
    BY <2>1, <2>2
<1>3. N \in A
  <2> HIDE DEF A
  <2> QED
    BY <1>1, <1>2, SetOfNumbers
<1>4. Ordered(S)
  <2> HIDE DEF Ordered
  <2> QED
    BY <1>3
<1> QED
  BY <1>4, FS_CardinalityType

LEMMA AscendingOrders ==
  ASSUME ListingParameters, NEW S \in SUBSET EntryNames
  PROVE  \E k \in Nat : /\ Orders(Ascending(S), k, S)
                        /\ Ascending(S) \in Seq(S) /\ Len(Ascending(S)) = k
<1> DEFINE Fits(row) == ToSet(row) = S /\ InOrder(row)
           k == Cardinality(S)
           found == Ascending(S)
<1>1. k \in Nat /\ \E row : Orders(row, k, S)
  BY OrderExists DEF ListingParameters, EntryNames
<1>2. k = Cardinality(S)
  BY SameCardinality
<1>3. found = CHOOSE r \in [1 .. k -> S] : Fits(r)
  BY <1>2 DEF Ascending
<1> HIDE DEF k
<1>4. PICK row : Orders(row, k, S)
  BY <1>1
<1>5. row \in [1 .. k -> S] /\ Fits(row)
  <2>1. row \in [1 .. k -> S] /\ DOMAIN row = 1 .. k
    BY <1>4 DEF Orders
  <2> QED
    BY <1>4, <2>1 DEF Orders, ToSet, InOrder
<1>6. found \in [1 .. k -> S] /\ Fits(found)
  <2> HIDE DEF Fits, found
  <2> QED
    BY <1>3, <1>5
<1> HIDE DEF found
<1>7. Orders(found, k, S)
  <2>1. found \in [1 .. k -> S] /\ DOMAIN found = 1 .. k
    BY <1>6
  <2> QED
    BY <1>6, <2>1 DEF Orders, ToSet, InOrder
<1>8. found \in Seq(S) /\ Len(found) = k
  BY <1>1, <1>6
<1> QED
  BY <1>1, <1>7, <1>8 DEF found

\* A page is a part of the row of the index.
LEMMA LimitedIs ==
  ASSUME ListingParameters, NEW S \in SUBSET EntryNames, NEW start \in Nat,
         NEW row, row = Ascending(S)
  PROVE  /\ Limited(S, start) \in Seq(S)
         /\ start < Len(row) => Len(Limited(S, start)) \in 1 .. (Len(row) - start)
         /\ ~ (start < Len(row)) => Len(Limited(S, start)) = 0
         /\ \A i \in 1 .. Len(Limited(S, start)) :
              Limited(S, start)[i] = row[start + i]
<1>1. PICK k \in Nat : Orders(row, k, S) /\ row \in Seq(S) /\ Len(row) = k
  BY AscendingOrders
<1> DEFINE last == IF start + PageLimit < Len(row) THEN start + PageLimit ELSE Len(row)
<1>2. Limited(S, start) = SubSeq(row, start + 1, last)
  BY DEF Limited
<1>3. /\ Len(row) \in Nat /\ last \in Nat /\ last <= Len(row)
      /\ start < Len(row) => start < last
      /\ row \in Seq(S)
  BY <1>1 DEF ListingParameters
<1> HIDE DEF last
<1>4. \A i \in start + 1 .. last : row[i] \in S
  BY <1>3
<1>5. /\ SubSeq(row, start + 1, last) \in Seq(S)
      /\ Len(SubSeq(row, start + 1, last)) =
           IF start + 1 <= last THEN last - (start + 1) + 1 ELSE 0
      /\ \A i \in 1 .. last - (start + 1) + 1 :
           SubSeq(row, start + 1, last)[i] = row[start + 1 + i - 1]
  BY <1>3, <1>4, SubSeqProperties
<1> QED
  BY <1>2, <1>3, <1>5

(***************************************************************************)
(* The listings.                                                           *)
(***************************************************************************)
Undisturbed(h) == undisturbed[h].unchanged \/ undisturbed[h].sameHandle

Increasing(row) == \A i, j \in 1 .. Len(row) : i < j => row[i] < row[j]
Lists(row, n) == \E i \in 1 .. Len(row) : row[i] = n

\* n comes after everything listed.
Beyond(row, n) == \A i \in 1 .. Len(row) : row[i] < n

ListingTyped ==
  /\ present \in SUBSET EntryNames
  /\ cursors \in [DirHandles -> [Offsets -> 0 .. NameCount]]
  /\ offset \in [DirHandles -> Nat]
  /\ listed \in [DirHandles -> Seq(EntryNames)]
  /\ done \in [DirHandles -> BOOLEAN]
  /\ steady \in [DirHandles -> SUBSET present]
  /\ undisturbed \in [DirHandles -> [unchanged : BOOLEAN, sameHandle : BOOLEAN]]

\* The offset counts the entries that the caller has got, and no name is
\* remembered at the offsets of "." and "..".
OffsetCounts(h) ==
  /\ Len(listed[h]) = IF offset[h] <= 2 THEN 0 ELSE offset[h] - 2
  /\ \A o \in 0 .. 2 : cursors[h][o] = 0

\* What is remembered are the names given out: of this listing, once it has
\* begun, and all of them as long as the handle is the same.
CursorsTrue(h) ==
  \A o \in 3 .. offset[h] :
    /\ cursors[h][o] \in {0, listed[h][o - 2]}
    /\ undisturbed[h].sameHandle => cursors[h][o] = listed[h][o - 2]

\* The listing is a beginning of the directory in the order of the index, as far
\* as the entries are concerned that have been there all the time.
NoGaps(h) ==
  /\ Increasing(listed[h])
  /\ \A n \in steady[h] : Lists(listed[h], n) \/ Beyond(listed[h], n)
  /\ done[h] => \A n \in steady[h] : Lists(listed[h], n)

\* As long as the directory is the same, those are all of them.
AllSteady(h) ==
  /\ steady[h] = present
  /\ \A i \in 1 .. Len(listed[h]) : listed[h][i] \in present

HandleInv(h) ==
  /\ OffsetCounts(h)
  /\ Undisturbed(h) => CursorsTrue(h) /\ NoGaps(h)
  /\ undisturbed[h].unchanged => AllSteady(h)

ListingInv == ListingTyped /\ \A h \in DirHandles : HandleInv(h)

LEMMA ListingInitInv == ListingParameters /\ ListingInit => ListingInv
<1> SUFFICES ASSUME ListingParameters, ListingInit PROVE ListingInv
  OBVIOUS
<1>1. ListingTyped
  BY DEF ListingParameters, ListingInit, NoCursors, ListingTyped, EntryNames
<1>2. ASSUME NEW h \in DirHandles PROVE HandleInv(h)
  <2>1. offset[h] = 0 /\ listed[h] = << >> /\ ~ done[h] /\ steady[h] = present
    BY DEF ListingInit
  <2>2. \A o \in 0 .. 2 : cursors[h][o] = 0
    BY DEF ListingInit, NoCursors, Offsets, ListingParameters
  <2> QED
    BY <2>1, <2>2 DEF HandleInv, OffsetCounts, CursorsTrue, NoGaps, AllSteady, Increasing, Beyond, Lists
<1> QED
  BY <1>1, <1>2 DEF ListingInv

\* A page goes on where the listing is: it is the beginning of what is beyond.
GoesOn(row, page) ==
  /\ page \in Seq(present)
  /\ Increasing(page)
  /\ \A i \in 1 .. Len(page) : Beyond(row, page[i])
  /\ \A n \in present : Beyond(row, n) => Lists(page, n) \/ (page # << >> /\ Beyond(page, n))

\* The names after the last one that was given out.
LEMMA PageAfterGoesOn ==
  ASSUME ListingParameters, present \in SUBSET EntryNames,
         NEW row \in Seq(EntryNames), Increasing(row), NEW name \in 0 .. NameCount,
         \A n \in EntryNames : n > name <=> Beyond(row, n)
  PROVE  GoesOn(row, ChildrenAfter(name))
<1> DEFINE S == {n \in present : n > name}
           all == Ascending(S)
           page == ChildrenAfter(name)
<1>1. S \in SUBSET EntryNames
  OBVIOUS
<1>2. PICK k \in Nat : Orders(all, k, S) /\ all \in Seq(S) /\ Len(all) = k
  BY <1>1, AscendingOrders
<1>3. page = Limited(S, 0)
  BY DEF ChildrenAfter
<1> HIDE DEF all, page
<1>4. /\ page \in Seq(S)
      /\ 0 < Len(all) => Len(page) \in 1 .. Len(all)
      /\ ~ (0 < Len(all)) => Len(page) = 0
      /\ \A i \in 1 .. Len(page) : page[i] = all[i]
  <2> HIDE DEF S
  <2>1. /\ page \in Seq(S)
        /\ 0 < Len(all) => Len(page) \in 1 .. (Len(all) - 0)
        /\ ~ (0 < Len(all)) => Len(page) = 0
        /\ \A i \in 1 .. Len(page) : page[i] = all[0 + i]
    BY <1>1, <1>3, LimitedIs DEF all
  <2>2. Len(all) \in Nat /\ Len(page) \in Nat
    BY <1>2, <2>1
  <2> QED
    BY <2>1, <2>2
<1>5. Len(page) \in Nat /\ Len(page) <= k /\ (page = << >> => k = 0)
  BY <1>2, <1>4
<1>6. page \in Seq(present)
  BY <1>4
<1>7. Increasing(page)
  BY <1>2, <1>4, <1>5 DEF Increasing, Orders
<1>8. ASSUME NEW i \in 1 .. Len(page) PROVE Beyond(row, page[i])
  BY <1>4
<1>9. ASSUME NEW n \in present, Beyond(row, n)
      PROVE  Lists(page, n) \/ (page # << >> /\ Beyond(page, n))
  <2>1. PICK i \in 1 .. k : all[i] = n
    BY <1>2, <1>9 DEF Orders
  <2>2. CASE i <= Len(page)
    <3>1. i \in 1 .. Len(page) /\ page[i] = n
      BY <1>4, <1>5, <2>1, <2>2
    <3> QED
      BY <3>1 DEF Lists
  <2>3. CASE ~ (i <= Len(page))
    <3>1. \A j \in 1 .. Len(page) : page[j] < n
      BY <1>2, <1>4, <1>5, <2>1, <2>3 DEF Orders
    <3> QED
      BY <1>5, <3>1 DEF Beyond
  <2> QED
    BY <2>2, <2>3
<1> QED
  BY <1>6, <1>7, <1>8, <1>9 DEF GoesOn, page

\* The page with a number, while the directory is as it was.
LEMMA PageByNumberGoesOn ==
  ASSUME ListingParameters, present \in SUBSET EntryNames,
         NEW row \in Seq(present), Increasing(row),
         \A n \in present : Lists(row, n) \/ Beyond(row, n)
  PROVE  GoesOn(row, ChildrenPage(Len(row)))
<1> DEFINE all == Ascending(present)
           page == ChildrenPage(Len(row))
           m == Len(row)
<1>1. PICK k \in Nat : Orders(all, k, present) /\ all \in Seq(present) /\ Len(all) = k
  BY AscendingOrders
<1>2. page = Limited(present, m)
  BY DEF ChildrenPage
<1>3. m \in Nat /\ \A i \in 1 .. m : row[i] \in present
  OBVIOUS
<1> HIDE DEF all, page, m
<1>4. /\ page \in Seq(present)
      /\ m < k => Len(page) \in 1 .. (k - m)
      /\ ~ (m < k) => Len(page) = 0
      /\ \A i \in 1 .. Len(page) : page[i] = all[m + i]
  BY <1>1, <1>2, <1>3, LimitedIs DEF all
<1>5. /\ \A n \in present : n \in Nat
      /\ \A i \in 1 .. k : all[i] \in present /\ all[i] \in Nat
  <2>1. \A n \in present : n \in Nat
    BY DEF EntryNames, ListingParameters
  <2>2. \A i \in 1 .. k : all[i] \in present
    BY <1>1 DEF Orders
  <2> QED
    BY <2>1, <2>2
\* What is listed are the first m entries.
<1> DEFINE A == {n \in Nat : n <= m => n <= k /\ \A i \in 1 .. n : row[i] = all[i]}
<1>6. 0 \in A
  OBVIOUS
<1>7. ASSUME NEW n \in Nat, n \in A PROVE n + 1 \in A
  <2> SUFFICES ASSUME n + 1 <= m
               PROVE  n + 1 <= k /\ \A i \in 1 .. n + 1 : row[i] = all[i]
    OBVIOUS
  <2>1. n <= k /\ \A i \in 1 .. n : row[i] = all[i]
    BY <1>3, <1>7
  <2>2. n + 1 \in 1 .. m /\ row[n + 1] \in present /\ row[n + 1] \in Nat
    <3>1. n + 1 \in 1 .. m
      BY <1>3
    <3> QED
      BY <1>3, <1>5, <3>1
  <2>3. PICK j \in 1 .. k : all[j] = row[n + 1]
    BY <1>1, <2>2 DEF Orders
  <2>4. j > n
    <3> SUFFICES ASSUME j <= n PROVE FALSE
      BY <2>3
    <3>1. j \in 1 .. m /\ row[j] = all[j] /\ j < n + 1
      BY <1>3, <2>1, <2>3
    <3>2. row[j] < row[n + 1]
      BY <2>2, <3>1 DEF Increasing, m
    <3> QED
      BY <2>2, <2>3, <3>1, <3>2
  <2>5. n + 1 \in 1 .. k
    BY <2>3, <2>4
  <2>6. ~ (all[n + 1] < row[n + 1])
    <3> SUFFICES ASSUME all[n + 1] < row[n + 1] PROVE FALSE
      OBVIOUS
    <3>1. ~ Beyond(row, all[n + 1])
      BY <1>5, <2>2, <2>5 DEF Beyond, m
    <3>2. Lists(row, all[n + 1])
      BY <1>5, <2>5, <3>1
    <3>3. PICK i \in 1 .. m : row[i] = all[n + 1]
      BY <3>2 DEF Lists, m
    <3>4. CASE i <= n
      <4>1. i \in 1 .. k /\ i < n + 1 /\ row[i] = all[i]
        BY <1>3, <2>1, <3>3, <3>4
      <4>2. all[i] < all[n + 1]
        BY <1>1, <2>5, <4>1 DEF Orders
      <4> QED
        BY <1>5, <2>5, <3>3, <4>1, <4>2
    <3>5. CASE i > n
      <4>1. i = n + 1 \/ row[n + 1] < row[i]
        BY <1>3, <2>2, <3>3, <3>5 DEF Increasing, m
      <4> QED
        BY <1>5, <2>2, <2>5, <3>3, <4>1
    <3> QED
      BY <1>3, <3>3, <3>4, <3>5
  <2>7. j = n + 1 \/ all[n + 1] < all[j]
    BY <1>1, <2>3, <2>4, <2>5 DEF Orders
  <2>8. row[n + 1] = all[n + 1]
    BY <2>3, <2>6, <2>7
  <2> QED
    BY <2>1, <2>5, <2>8
<1>8. m <= k /\ \A i \in 1 .. m : row[i] = all[i]
  <2>1. m \in A
    <3> HIDE DEF A
    <3> QED
      BY <1>3, <1>6, <1>7, SetOfNumbers
  <2> QED
    BY <1>3, <2>1
<1>9. /\ Len(page) \in Nat /\ Len(page) <= k - m
      /\ page = << >> => k = m
      /\ \A i \in 1 .. Len(page) : page[i] = all[m + i] /\ m + i \in 1 .. k
  BY <1>3, <1>4, <1>8
<1>10. Increasing(page)
  BY <1>1, <1>3, <1>9 DEF Increasing, Orders
<1>11. ASSUME NEW i \in 1 .. Len(page) PROVE Beyond(row, page[i])
  <2>1. ASSUME NEW j \in 1 .. m PROVE row[j] < page[i]
    <3>1. j \in 1 .. k /\ m + i \in 1 .. k /\ j < m + i /\ row[j] = all[j] /\ page[i] = all[m + i]
      BY <1>3, <1>8, <1>9
    <3> QED
      BY <1>1, <3>1 DEF Orders
  <2> QED
    BY <2>1 DEF Beyond, m
<1>12. ASSUME NEW n \in present, Beyond(row, n)
       PROVE  Lists(page, n) \/ (page # << >> /\ Beyond(page, n))
  <2>1. PICK i \in 1 .. k : all[i] = n
    BY <1>1, <1>12 DEF Orders
  <2>2. n \in Nat
    BY <1>5
  <2>3. i > m
    <3> SUFFICES ASSUME i <= m PROVE FALSE
      BY <1>3, <2>1
    <3>1. i \in 1 .. m /\ row[i] = n
      BY <1>3, <1>8, <2>1
    <3> QED
      BY <1>12, <2>2, <3>1 DEF Beyond, m
  <2>4. CASE i - m <= Len(page)
    <3>1. i - m \in 1 .. Len(page) /\ m + (i - m) = i
      BY <1>3, <1>9, <2>1, <2>3, <2>4
    <3> QED
      BY <1>9, <2>1, <3>1 DEF Lists
  <2>5. CASE ~ (i - m <= Len(page))
    <3>1. ASSUME NEW j \in 1 .. Len(page) PROVE page[j] < n
      <4>1. m + j \in 1 .. k /\ m + j < i /\ page[j] = all[m + j]
        BY <1>3, <1>9, <2>1, <2>5
      <4> QED
        BY <1>1, <2>1, <4>1 DEF Orders
    <3>2. page # << >>
      BY <1>3, <1>9, <2>1, <2>3
    <3> QED
      BY <3>1, <3>2 DEF Beyond
  <2> QED
    BY <2>4, <2>5
<1> QED
  BY <1>4, <1>10, <1>11, <1>12 DEF GoesOn, page, m

LEMMA SeqOfMore ==
  ASSUME NEW S, NEW T, S \subseteq T, NEW s \in Seq(S)
  PROVE  s \in Seq(T)
OBVIOUS

LEMMA PageTyped ==
  ASSUME ListingParameters, ListingTyped, NEW h \in DirHandles
  PROVE  Page(h) \in Seq(present)
<1>1. ASSUME NEW name PROVE ChildrenAfter(name) \in Seq(present)
  <2> DEFINE S == {n \in present : n > name}
  <2>1. S \in SUBSET EntryNames /\ S \subseteq present
    BY DEF ListingTyped
  <2> HIDE DEF S
  <2>2. Limited(S, 0) \in Seq(S)
    BY <2>1, LimitedIs
  <2>3. Limited(S, 0) \in Seq(present)
    BY <2>1, <2>2
  <2> QED
    BY <2>3 DEF ChildrenAfter, S
<1>2. ASSUME NEW start \in Nat PROVE ChildrenPage(start) \in Seq(present)
  <2>1. present \in SUBSET EntryNames
    BY DEF ListingTyped
  <2>2. Limited(present, start) \in Seq(present)
    BY <2>1, LimitedIs
  <2> QED
    BY <2>2 DEF ChildrenPage
<1>3. offset[h] \in Nat
  BY DEF ListingTyped
<1>4. CASE offset[h] <= 2
  <2>1. Page(h) = ChildrenAfter(IF offset[h] = 0 THEN 0 ELSE cursors[h][offset[h]])
    BY <1>4 DEF Page
  <2> QED
    BY <1>1, <2>1
<1>5. CASE ~ (offset[h] <= 2)
  <2>1. offset[h] # 0 /\ offset[h] - 2 \in Nat
    BY <1>3, <1>5
  <2>2. Page(h) = IF cursors[h][offset[h]] # 0 THEN ChildrenAfter(cursors[h][offset[h]])
                  ELSE ChildrenPage(offset[h] - 2)
    BY <1>5, <2>1 DEF Page
  <2> QED
    BY <1>1, <1>2, <2>1, <2>2
<1> QED
  BY <1>4, <1>5

LEMMA PageGoesOn ==
  ASSUME ListingParameters, ListingInv, NEW h \in DirHandles, Undisturbed(h)
  PROVE  GoesOn(listed[h], Page(h))
<1> DEFINE row == listed[h]
           o == offset[h]
<1>1. /\ present \in SUBSET EntryNames /\ row \in Seq(EntryNames) /\ o \in Nat
      /\ Len(row) = IF o <= 2 THEN 0 ELSE o - 2
      /\ \A i \in 0 .. 2 : cursors[h][i] = 0
      /\ CursorsTrue(h) /\ NoGaps(h)
      /\ undisturbed[h].unchanged => AllSteady(h)
  BY DEF ListingInv, ListingTyped, HandleInv, OffsetCounts
<1>2. Increasing(row)
  BY <1>1 DEF NoGaps
<1>3. CASE o <= 2
  <2>1. row = << >>
    BY <1>1, <1>3
  <2>2. Page(h) = ChildrenAfter(0)
    <3>1. o \in 0 .. 2
      BY <1>1, <1>3
    <3> QED
      BY <1>1, <1>3, <3>1 DEF Page
  <2>3. \A n \in EntryNames : n > 0 <=> Beyond(row, n)
    BY <2>1 DEF EntryNames, Beyond, ListingParameters
  <2>4. 0 \in 0 .. NameCount
    BY DEF ListingParameters
  <2> HIDE DEF row
  <2>5. GoesOn(row, ChildrenAfter(0))
    BY <1>1, <1>2, <2>3, <2>4, PageAfterGoesOn
  <2> QED
    BY <2>2, <2>5 DEF row
<1>4. CASE o > 2 /\ cursors[h][o] # 0
  <2> DEFINE name == cursors[h][o]
  <2>1. o - 2 \in 1 .. Len(row) /\ Len(row) = o - 2 /\ name = row[o - 2] /\ o \in 3 .. o
    <3>1. o \in 3 .. o
      BY <1>1, <1>4
    <3>2. name = row[o - 2]
      BY <1>1, <1>4, <3>1 DEF CursorsTrue
    <3> HIDE DEF name, row, o
    <3>3. Len(row) = o - 2 /\ o - 2 \in 1 .. Len(row)
      BY <1>1, <1>4
    <3> QED
      BY <3>1, <3>2, <3>3
  <2>2. name \in EntryNames /\ name \in 0 .. NameCount
    <3> HIDE DEF name, row, o
    <3>1. row[o - 2] \in EntryNames
      BY <1>1, <2>1
    <3>2. EntryNames \subseteq 0 .. NameCount
      BY DEF EntryNames, ListingParameters
    <3> QED
      BY <2>1, <3>1, <3>2
  <2>3. ASSUME NEW n \in EntryNames PROVE n > name <=> Beyond(row, n)
    <3>1. n \in Nat /\ name \in Nat /\ \A i \in 1 .. Len(row) : row[i] \in Nat
      BY <1>1, <2>2 DEF EntryNames, ListingParameters
    <3> HIDE DEF row, name, o
    <3>2. \A i \in 1 .. Len(row) : i = o - 2 \/ row[i] < name
      BY <1>1, <1>2, <2>1 DEF Increasing
    <3>3. Beyond(row, n) => n > name
      BY <2>1, <3>1 DEF Beyond
    <3>4. ASSUME n > name, NEW i \in 1 .. Len(row) PROVE row[i] < n
      <4>1. CASE i = o - 2
        BY <2>1, <3>1, <3>4, <4>1
      <4>2. CASE row[i] < name
        BY <3>1, <3>4, <4>2
      <4> QED
        BY <3>2, <4>1, <4>2
    <3> QED
      BY <3>3, <3>4 DEF Beyond
  <2>4. Page(h) = ChildrenAfter(name)
    BY <1>1, <1>4 DEF Page
  <2> HIDE DEF row, name
  <2>5. GoesOn(row, ChildrenAfter(name))
    BY <1>1, <1>2, <2>2, <2>3, PageAfterGoesOn
  <2> QED
    BY <2>4, <2>5 DEF row
<1>5. CASE o > 2 /\ cursors[h][o] = 0
  <2>1. Len(row) = o - 2 /\ o \in 3 .. o /\ o - 2 \in 1 .. Len(row)
    BY <1>1, <1>5
  <2>2. row[o - 2] # 0
    BY <1>1, <2>1 DEF EntryNames, ListingParameters
  <2>3. ~ undisturbed[h].sameHandle
    BY <1>1, <1>5, <2>1, <2>2 DEF CursorsTrue
  <2>4. AllSteady(h)
    BY <1>1, <2>3 DEF Undisturbed
  <2>5. row \in Seq(present)
    BY <1>1, <2>4 DEF AllSteady
  <2>6. \A n \in present : Lists(row, n) \/ Beyond(row, n)
    BY <1>1, <2>4 DEF AllSteady, NoGaps
  <2>7. Page(h) = ChildrenPage(Len(row))
    BY <1>1, <1>5, <2>1 DEF Page
  <2> HIDE DEF row
  <2>8. GoesOn(row, ChildrenPage(Len(row)))
    BY <1>1, <1>2, <2>5, <2>6, PageByNumberGoesOn
  <2> QED
    BY <2>7, <2>8 DEF row
<1> QED
  BY <1>1, <1>3, <1>4, <1>5

\* Only h changes.
LEMMA OthersKept ==
  ASSUME ListingInv, NEW h \in DirHandles, present' = present,
         \A g \in DirHandles : g # h =>
           /\ cursors'[g] = cursors[g] /\ offset'[g] = offset[g] /\ listed'[g] = listed[g]
           /\ done'[g] = done[g] /\ steady'[g] = steady[g] /\ undisturbed'[g] = undisturbed[g],
         HandleInv(h)', ListingTyped'
  PROVE  ListingInv'
<1>1. ASSUME NEW g \in DirHandles, g # h PROVE HandleInv(g)'
  <2>1. HandleInv(g)
    BY DEF ListingInv
  <2> QED
    BY <1>1, <2>1 DEF HandleInv, OffsetCounts, Undisturbed, CursorsTrue, NoGaps, AllSteady
<1> QED
  BY <1>1 DEF ListingInv

LEMMA ReadDirEnds ==
  ASSUME ListingParameters, ListingInv, NEW h \in DirHandles,
         offset[h] >= 2, Page(h) = << >>,
         cursors' = [cursors EXCEPT ![h] = Remembered(h, << >>)],
         done' = [done EXCEPT ![h] = TRUE],
         UNCHANGED <<offset, listed, present, steady, undisturbed>>
  PROVE  ListingInv'
<1>1. ListingTyped /\ HandleInv(h)
  BY DEF ListingInv
<1>2. cursors' = cursors
  <2>1. Remembered(h, << >>) = cursors[h]
    <3>1. \A i \in Offsets :
            ~ (i >= FirstOffset(offset[h])
               /\ i + 1 - FirstOffset(offset[h]) <= Len(<< >>))
      <4>1. FirstOffset(offset[h]) \in Int
        <5>1. offset[h] \in Nat
          BY <1>1 DEF ListingTyped
        <5> QED
          BY <5>1 DEF FirstOffset
      <4>2. Len(<< >>) = 0 /\ Offsets \subseteq Int
        BY DEF Offsets, ListingParameters
      <4> QED
        BY <4>1, <4>2
    <3>2. offset[h] # 0
      OBVIOUS
    <3>3. cursors[h] = [i \in Offsets |-> cursors[h][i]]
      BY <1>1 DEF ListingTyped
    <3> QED
      BY <3>1, <3>2, <3>3 DEF Remembered
  <2> QED
    BY <1>1, <2>1 DEF ListingTyped
<1>3. ASSUME Undisturbed(h), NEW n \in steady[h] PROVE Lists(listed[h], n)
  <2>1. GoesOn(listed[h], << >>)
    BY <1>3, PageGoesOn
  <2>2. n \in present
    BY <1>1 DEF ListingTyped
  <2>3. ~ Beyond(listed[h], n)
    BY <2>1, <2>2 DEF GoesOn, Lists
  <2> QED
    BY <1>1, <1>3, <2>3 DEF HandleInv, NoGaps
<1>4. HandleInv(h)'
  BY <1>1, <1>2, <1>3 DEF HandleInv, OffsetCounts, Undisturbed, CursorsTrue, NoGaps, AllSteady
<1>5. ListingTyped'
  BY <1>1, <1>2 DEF ListingTyped
<1> QED
  BY <1>1, <1>2, <1>4, <1>5, OthersKept DEF ListingTyped

\* The listing with the next k entries of a page that goes on with it.
LEMMA LongerListing ==
  ASSUME NEW S, S \subseteq Nat, NEW row \in Seq(S), NEW page \in Seq(S),
         NEW k \in 0 .. Len(page), NEW more, more = row \o SubSeq(page, 1, k)
  PROVE  /\ more \in Seq(S) /\ Len(more) = Len(row) + k
         /\ \A i \in 1 .. Len(more) :
              /\ i <= Len(row) => more[i] = row[i]
              /\ i > Len(row) => i - Len(row) \in 1 .. k /\ more[i] = page[i - Len(row)]
<1>1. SubSeq(page, 1, k) \in Seq(S) /\ Len(SubSeq(page, 1, k)) = k
      /\ \A i \in 1 .. k : SubSeq(page, 1, k)[i] = page[i]
  OBVIOUS
<1> DEFINE s == SubSeq(page, 1, k)
<1> HIDE DEF s
<1>2. s \in Seq(S) /\ Len(s) = k /\ \A i \in 1 .. k : s[i] = page[i]
  BY <1>1 DEF s
<1>3. more = row \o s
  BY DEF s
<1> QED
  BY <1>2, <1>3

\* A longer listing: as much of it as was in order and without gaps still is.
Continues(row, page, k, more) ==
  /\ more \in Seq(EntryNames) /\ Len(more) = Len(row) + k
  /\ \A i \in 1 .. Len(row) : more[i] = row[i]
  /\ \A i \in 1 .. k : more[Len(row) + i] = page[i]
  /\ Increasing(more)
  /\ \A n \in present : Lists(row, n) \/ Beyond(row, n)
       => Lists(more, n) \/ Beyond(more, n)

LEMMA LongerHasNoGaps ==
  ASSUME ListingParameters, present \in SUBSET EntryNames,
         NEW row \in Seq(EntryNames), Increasing(row),
         NEW page, GoesOn(row, page), NEW k \in 0 .. Len(page),
         NEW more, more = row \o SubSeq(page, 1, k)
  PROVE  Continues(row, page, k, more)
<1>1. /\ page \in Seq(present) /\ page \in Seq(EntryNames) /\ Increasing(page)
      /\ \A i \in 1 .. Len(page) : Beyond(row, page[i])
      /\ EntryNames \subseteq Nat
  <2>1. EntryNames \subseteq Nat
    BY DEF EntryNames, ListingParameters
  <2>2. page \in Seq(present) /\ Increasing(page) /\ \A i \in 1 .. Len(page) : Beyond(row, page[i])
    BY DEF GoesOn
  <2>3. page \in Seq(EntryNames)
    BY <2>2
  <2> QED
    BY <2>1, <2>2, <2>3
<1> DEFINE m == Len(row)
<1>2. /\ more \in Seq(EntryNames) /\ Len(more) = m + k
      /\ \A i \in 1 .. Len(more) : /\ i <= m => more[i] = row[i]
                                   /\ i > m => i - m \in 1 .. k /\ more[i] = page[i - m]
  BY <1>1, LongerListing
<1>3. m \in Nat /\ Len(page) \in Nat /\ k \in Nat /\ k <= Len(page)
      /\ (\A i \in 1 .. m : row[i] \in Nat) /\ (\A i \in 1 .. Len(page) : page[i] \in Nat)
  <2>1. m \in Nat /\ Len(page) \in Nat
    BY <1>1
  <2>2. \A i \in 1 .. m : row[i] \in EntryNames
    OBVIOUS
  <2>3. \A i \in 1 .. Len(page) : page[i] \in EntryNames
    BY <1>1
  <2>4. k \in Nat /\ k <= Len(page)
    BY <2>1
  <2>5. EntryNames \subseteq Nat
    BY <1>1
  <2> HIDE DEF m
  <2> QED
    BY <2>1, <2>2, <2>3, <2>4, <2>5
<1> HIDE DEF m
<1>4. /\ \A i \in 1 .. m : i \in 1 .. Len(more) /\ more[i] = row[i]
      /\ \A i \in 1 .. k : i \in 1 .. Len(page) /\ m + i \in 1 .. Len(more) /\ more[m + i] = page[i]
  <2>1. ASSUME NEW i \in 1 .. m PROVE i \in 1 .. Len(more) /\ more[i] = row[i]
    BY <1>2, <1>3
  <2>2. ASSUME NEW i \in 1 .. k
        PROVE  i \in 1 .. Len(page) /\ m + i \in 1 .. Len(more) /\ more[m + i] = page[i]
    <3>1. m + i \in 1 .. Len(more) /\ m + i > m /\ (m + i) - m = i /\ i \in 1 .. Len(page)
      BY <1>2, <1>3
    <3> QED
      BY <1>2, <3>1
  <2> QED
    BY <2>1, <2>2
<1>5. Increasing(more)
  <2>1. ASSUME NEW i \in 1 .. Len(more), NEW j \in 1 .. Len(more), i < j
        PROVE  more[i] < more[j]
    <3>1. CASE j <= m
      <4>1. i \in 1 .. m /\ j \in 1 .. m
        BY <1>3, <2>1, <3>1
      <4> QED
        BY <1>4, <2>1, <4>1 DEF Increasing, m
    <3>2. CASE i <= m /\ j > m
      <4>1. i \in 1 .. m /\ j - m \in 1 .. Len(page) /\ more[j] = page[j - m]
        BY <1>2, <1>3, <2>1, <3>2
      <4> QED
        BY <1>1, <1>4, <4>1 DEF Beyond, m
    <3>3. CASE i > m
      <4>1. /\ i - m \in 1 .. Len(page) /\ more[i] = page[i - m]
            /\ j - m \in 1 .. Len(page) /\ more[j] = page[j - m]
            /\ i - m < j - m
        <5>1. /\ i \in Int /\ j \in Int /\ m \in Nat /\ k \in Nat /\ Len(page) \in Nat
              /\ k <= Len(page) /\ j > m
          BY <1>2, <1>3, <2>1, <3>3
        <5>2. i - m \in 1 .. k /\ more[i] = page[i - m] /\ j - m \in 1 .. k /\ more[j] = page[j - m]
          BY <1>2, <2>1, <3>3, <5>1
        <5>3. \A x \in 1 .. k : x \in 1 .. Len(page)
          BY <5>1
        <5>4. i - m < j - m
          BY <2>1, <5>1
        <5> QED
          BY <5>2, <5>3, <5>4
      <4> QED
        BY <1>1, <4>1 DEF Increasing
    <3> QED
      BY <1>3, <2>1, <3>1, <3>2, <3>3
  <2> QED
    BY <2>1 DEF Increasing
<1>6. ASSUME NEW n \in present, Lists(row, n) PROVE Lists(more, n)
  BY <1>4, <1>6 DEF Lists, m
<1>7. ASSUME NEW n \in present, Beyond(row, n) PROVE Lists(more, n) \/ Beyond(more, n)
  <2>1. n \in Nat
    BY <1>1
  <2>2. CASE Lists(page, n)
    <3>1. PICK i \in 1 .. Len(page) : page[i] = n
      BY <2>2 DEF Lists
    <3>2. CASE i <= k
      <4>1. i \in 1 .. k
        BY <1>3, <3>2
      <4> QED
        BY <1>4, <3>1, <4>1 DEF Lists
    <3>3. CASE i > k
      <4>1. ASSUME NEW j \in 1 .. Len(more) PROVE more[j] < n
        <5>1. CASE j <= m
          BY <1>3, <1>4, <1>7, <5>1 DEF Beyond, m
        <5>2. CASE j > m
          <6>1. j - m \in 1 .. Len(page) /\ more[j] = page[j - m] /\ j - m < i
            BY <1>2, <1>3, <3>3, <5>2
          <6> QED
            BY <1>1, <3>1, <6>1 DEF Increasing
        <5> QED
          BY <1>2, <1>3, <5>1, <5>2
      <4> QED
        BY <4>1 DEF Beyond
    <3> QED
      BY <1>3, <3>2, <3>3
  <2>3. CASE Beyond(page, n)
    <3>1. ASSUME NEW j \in 1 .. Len(more) PROVE more[j] < n
      <4>1. CASE j <= m
        BY <1>3, <1>4, <1>7, <4>1 DEF Beyond, m
      <4>2. CASE j > m
        <5>1. j - m \in 1 .. Len(page) /\ more[j] = page[j - m]
          BY <1>2, <1>3, <4>2
        <5> QED
          BY <2>3, <5>1 DEF Beyond
      <4> QED
        BY <1>2, <1>3, <4>1, <4>2
    <3> QED
      BY <3>1 DEF Beyond
  <2> QED
    BY <1>7, <2>2, <2>3 DEF GoesOn
<1> QED
  BY <1>2, <1>4, <1>5, <1>6, <1>7 DEF m, Continues

\* Names in order are as many as there are numbers, at most.
LEMMA IncreasingShort ==
  ASSUME ListingParameters, NEW row \in Seq(EntryNames), Increasing(row)
  PROVE  Len(row) <= NameCount
<1> DEFINE A == {n \in Nat : n + 1 <= Len(row) => row[n + 1] >= n + 1}
<1>0. /\ Len(row) \in Nat /\ NameCount \in Nat
      /\ \A i \in 1 .. Len(row) : row[i] \in Nat /\ row[i] >= 1 /\ row[i] <= NameCount
  BY DEF EntryNames, ListingParameters
<1>1. 0 \in A
  BY <1>0
<1>2. ASSUME NEW n \in Nat, n \in A PROVE n + 1 \in A
  <2> SUFFICES ASSUME n + 2 <= Len(row) PROVE row[n + 2] >= n + 2
    OBVIOUS
  <2>1. n + 1 \in 1 .. Len(row) /\ n + 2 \in 1 .. Len(row) /\ n + 1 < n + 2
    BY <1>0
  <2>2. row[n + 1] >= n + 1
    BY <1>2, <2>1
  <2>3. row[n + 1] < row[n + 2]
    BY <2>1 DEF Increasing
  <2> QED
    BY <1>0, <2>1, <2>2, <2>3
<1>3. CASE Len(row) # 0
  <2>1. Len(row) - 1 \in Nat
    BY <1>0, <1>3
  <2>2. Len(row) - 1 \in A
    <3> HIDE DEF A
    <3> QED
      BY <1>1, <1>2, <2>1, SetOfNumbers
  <2> QED
    BY <1>0, <1>3, <2>1, <2>2
<1> QED
  BY <1>0, <1>3

\* The cursors after a page: those of the page, and the ones before.
PageRemembered(h, page, first) ==
  /\ cursors' \in [DirHandles -> [Offsets -> 0 .. NameCount]]
  /\ \A i \in Offsets :
       /\ i < first => cursors'[h][i] = IF offset[h] = 0 THEN 0 ELSE cursors[h][i]
       /\ i >= first /\ i + 1 - first <= Len(page) => cursors'[h][i] = page[i + 1 - first]

LEMMA CursorsAfter ==
  ASSUME ListingParameters, ListingTyped, NEW h \in DirHandles, NEW page \in Seq(EntryNames),
         cursors' = [cursors EXCEPT ![h] = Remembered(h, page)]
  PROVE  PageRemembered(h, page, FirstOffset(offset[h]))
<1> DEFINE first == FirstOffset(offset[h])
<1>1. first \in Nat /\ Offsets \subseteq Nat
      /\ Len(page) \in Nat /\ \A i \in 1 .. Len(page) : page[i] \in 0 .. NameCount
  <2>1. offset[h] \in Nat /\ NameCount \in Nat
    BY DEF ListingTyped, ListingParameters
  <2>2. first \in Nat /\ Offsets \subseteq Nat
    BY <2>1 DEF FirstOffset, Offsets
  <2>3. EntryNames \subseteq 0 .. NameCount
    BY <2>1 DEF EntryNames
  <2>4. Len(page) \in Nat /\ \A i \in 1 .. Len(page) : page[i] \in EntryNames
    OBVIOUS
  <2>5. \A i \in 1 .. Len(page) : page[i] \in 0 .. NameCount
    BY <2>3, <2>4
  <2> QED
    BY <2>2, <2>4, <2>5
<1>2. ASSUME NEW o \in Offsets
      PROVE  Remembered(h, page)[o] =
               IF o >= first /\ o + 1 - first <= Len(page) THEN page[o + 1 - first]
               ELSE IF offset[h] = 0 THEN 0 ELSE cursors[h][o]
  BY DEF Remembered
<1> HIDE DEF first
<1>3. ASSUME NEW o \in Offsets
      PROVE  Remembered(h, page)[o] \in 0 .. NameCount
  <2>1. CASE o >= first /\ o + 1 - first <= Len(page)
    <3>1. o + 1 - first \in 1 .. Len(page)
      BY <1>1, <2>1
    <3> QED
      BY <1>1, <1>2, <2>1, <3>1
  <2>2. CASE ~ (o >= first /\ o + 1 - first <= Len(page))
    <3>1. 0 \in 0 .. NameCount /\ cursors[h][o] \in 0 .. NameCount
      BY DEF ListingTyped, ListingParameters
    <3> QED
      BY <1>2, <2>2, <3>1
  <2> QED
    BY <2>1, <2>2
<1>4. Remembered(h, page) \in [Offsets -> 0 .. NameCount]
  <2> DEFINE r == Remembered(h, page)
  <2>1. r = [o \in Offsets |-> r[o]]
    BY DEF Remembered
  <2> HIDE DEF r
  <2>2. \A o \in Offsets : r[o] \in 0 .. NameCount
    BY <1>3 DEF r
  <2>3. r \in [Offsets -> 0 .. NameCount]
    BY <2>1, <2>2
  <2> QED
    BY <2>3 DEF r
<1>5. cursors' \in [DirHandles -> [Offsets -> 0 .. NameCount]]
      /\ cursors'[h] = Remembered(h, page)
  BY <1>4 DEF ListingTyped
<1>6. ASSUME NEW o \in Offsets, o < first
      PROVE  cursors'[h][o] = IF offset[h] = 0 THEN 0 ELSE cursors[h][o]
  BY <1>1, <1>2, <1>5, <1>6
<1>7. ASSUME NEW o \in Offsets, o >= first, o + 1 - first <= Len(page)
      PROVE  cursors'[h][o] = page[o + 1 - first]
  BY <1>1, <1>2, <1>5, <1>7
<1> QED
  BY <1>5, <1>6, <1>7 DEF first, PageRemembered

\* readdir gives out some entries of a page.
Takes(h, page, dots, taken) ==
  /\ dots = Dots(offset[h]) /\ taken \in 1 .. (dots + Len(page))
  /\ cursors' = [cursors EXCEPT ![h] = Remembered(h, page)]
  /\ offset' = [offset EXCEPT ![h] = @ + taken]
  /\ listed' = [listed EXCEPT ![h] =
                   IF taken > dots THEN @ \o SubSeq(page, 1, taken - dots) ELSE @]
  /\ UNCHANGED <<done, present, steady, undisturbed>>

\* The numbers of entries and offsets, o before and o + taken after.
LEMMA TakenCounts ==
  ASSUME NEW o \in Nat, NEW l \in Nat, NEW len, len = (IF o <= 2 THEN 0 ELSE o - 2),
         NEW dots, dots = Dots(o), NEW taken, taken \in 1 .. (dots + l)
  PROVE  /\ dots \in Nat /\ taken \in Nat /\ len \in Nat
         /\ (IF taken > dots THEN taken - dots ELSE 0) \in 0 .. l
         /\ FirstOffset(o) = len + 3
         /\ len + (IF taken > dots THEN taken - dots ELSE 0)
              = IF o + taken <= 2 THEN 0 ELSE o + taken - 2
         /\ o < len + 3
BY DEF Dots, FirstOffset

LEMMA ReadDirTakes ==
  ASSUME ListingParameters, ListingInv, NEW h \in DirHandles, ~ done[h], NEW page, page = Page(h),
         NEW dots, NEW taken, Takes(h, page, dots, taken)
  PROVE  ListingInv'
<1>0. PICK o, row, more, first, k :
        /\ o = offset[h] /\ row = listed[h] /\ more = listed'[h]
        /\ first = FirstOffset(offset[h])
        /\ k = IF taken > dots THEN taken - dots ELSE 0
  OBVIOUS
<1>1. ListingTyped /\ HandleInv(h)
  BY DEF ListingInv
<1>2. o \in Nat /\ row \in Seq(EntryNames)
  BY <1>0, <1>1 DEF ListingTyped
<1>3. EntryNames \subseteq Nat /\ present \in SUBSET EntryNames
  BY <1>1 DEF ListingTyped, EntryNames, ListingParameters
<1>4. page \in Seq(present)
  BY <1>1, PageTyped
<1>a. page \in Seq(EntryNames)
  BY <1>3, <1>4, SeqOfMore
<1>b. PICK len, l : len = Len(row) /\ l = Len(page)
  OBVIOUS
<1>c. len \in Nat /\ l \in Nat
  BY <1>2, <1>a, <1>b
<1>d. len = IF o <= 2 THEN 0 ELSE o - 2
  BY <1>0, <1>1, <1>b DEF HandleInv, OffsetCounts
<1>e. /\ dots \in Nat /\ taken \in Nat /\ k \in 0 .. l /\ first = len + 3 /\ o < len + 3
      /\ len + k = IF o + taken <= 2 THEN 0 ELSE o + taken - 2
  <2>1. dots = Dots(o) /\ taken \in 1 .. (dots + l)
    BY <1>0, <1>b DEF Takes
  <2>2. o \in Nat
    BY <1>2
  <2> QED
    BY <1>0, <1>c, <1>d, <2>1, <2>2, TakenCounts
<1>f. k \in Nat /\ k <= l /\ o \in Nat /\ first \in Nat
  BY <1>2, <1>c, <1>e
<1>5. more = row \o SubSeq(page, 1, k)
  <2>1. more = IF taken > dots THEN row \o SubSeq(page, 1, taken - dots) ELSE row
    BY <1>0, <1>1 DEF ListingTyped, Takes
  <2>2. row \o SubSeq(page, 1, 0) = row
    <3>1. SubSeq(page, 1, 0) = << >>
      BY SubSeqEmpty
    <3> QED
      BY <1>2, <3>1, ConcatEmptySeq
  <2> QED
    BY <1>0, <2>1, <2>2
<1>6. more \in Seq(EntryNames) /\ Len(more) = len + k
  <2>1. k \in 0 .. Len(page)
    BY <1>b, <1>e
  <2> QED
    BY <1>2, <1>3, <1>5, <1>a, <1>b, <2>1, LongerListing
<1>7. offset'[h] = o + taken /\ Len(more) = (IF o + taken <= 2 THEN 0 ELSE o + taken - 2)
  <2>1. offset'[h] = o + taken
    BY <1>0, <1>1 DEF ListingTyped, Takes
  <2> QED
    BY <1>6, <1>e, <2>1
<1>8. PageRemembered(h, page, first)
  <2>1. cursors' = [cursors EXCEPT ![h] = Remembered(h, page)]
    BY DEF Takes
  <2> QED
    BY <1>0, <1>1, <1>a, <2>1, CursorsAfter
<1>9. ListingTyped'
  <2>1. listed' \in [DirHandles -> Seq(EntryNames)]
    BY <1>0, <1>1, <1>6 DEF ListingTyped, Takes
  <2>2. offset' \in [DirHandles -> Nat]
    <3>1. offset[h] + taken \in Nat
      BY <1>0, <1>e, <1>f
    <3> QED
      BY <1>1, <3>1 DEF ListingTyped, Takes
  <2>3. UNCHANGED EntryNames /\ UNCHANGED Offsets
    BY DEF EntryNames, Offsets
  <2> QED
    BY <1>1, <1>8, <2>1, <2>2, <2>3 DEF ListingTyped, Takes, PageRemembered
<1>10. \A i \in 0 .. 2 : cursors'[h][i] = 0
  <2>1. \A i \in 0 .. 2 : i \in Offsets /\ i < first
    BY <1>c, <1>e DEF Offsets, ListingParameters
  <2>2. \A i \in 0 .. 2 : cursors[h][i] = 0
    BY <1>1 DEF HandleInv, OffsetCounts
  <2> QED
    BY <1>8, <2>1, <2>2 DEF PageRemembered
<1>11. ASSUME Undisturbed(h) PROVE Continues(row, page, k, more)
  <2>1. GoesOn(row, page)
    BY <1>0, <1>11, PageGoesOn
  <2>2. Increasing(row)
    BY <1>0, <1>1, <1>11 DEF HandleInv, NoGaps
  <2>3. k \in 0 .. Len(page)
    BY <1>b, <1>e
  <2> QED
    BY <1>2, <1>3, <1>5, <2>1, <2>2, <2>3, LongerHasNoGaps
<1>12. ASSUME Undisturbed(h), NEW i \in 3 .. (o + taken)
       PROVE  /\ cursors'[h][i] \in {0, more[i - 2]}
              /\ undisturbed[h].sameHandle => cursors'[h][i] = more[i - 2]
  <2>1. Increasing(more)
    BY <1>11, <1>12 DEF Continues
  <2>2. len + k <= NameCount
    BY <1>6, <2>1, IncreasingShort
  <2>3. i \in Nat /\ i >= 3 /\ i <= o + taken
    BY <1>e, <1>f
  <2>4. i \in Offsets
    BY <1>e, <1>f, <2>2, <2>3 DEF Offsets, ListingParameters
  <2>5. CASE i < first
    <3>1. i \in 3 .. o /\ o # 0 /\ i - 2 \in 1 .. len
      BY <1>c, <1>d, <1>e, <1>f, <2>3, <2>5
    <3>2. cursors'[h][i] = cursors[h][i]
      BY <1>0, <1>8, <2>4, <2>5, <3>1 DEF PageRemembered
    <3>3. more[i - 2] = row[i - 2]
      BY <1>11, <1>12, <1>b, <3>1 DEF Continues
    <3>4. CursorsTrue(h)
      BY <1>1, <1>12 DEF HandleInv
    <3> QED
      BY <1>0, <3>1, <3>2, <3>3, <3>4 DEF CursorsTrue
  <2>6. CASE i >= first
    <3>1. PICK j : j = i + 1 - first
      OBVIOUS
    <3>2. j \in 1 .. k /\ len + j = i - 2 /\ j <= l
      BY <1>c, <1>d, <1>e, <1>f, <2>3, <2>6, <3>1
    <3>3. cursors'[h][i] = page[j]
      BY <1>8, <1>b, <2>4, <2>6, <3>1, <3>2 DEF PageRemembered
    <3>4. more[i - 2] = page[j]
      BY <1>11, <1>12, <1>b, <3>2 DEF Continues
    <3> QED
      BY <3>3, <3>4
  <2> QED
    BY <1>f, <2>3, <2>5, <2>6
<1>13. OffsetCounts(h)'
  <2>1. Len(listed'[h]) = (IF offset'[h] <= 2 THEN 0 ELSE offset'[h] - 2)
    <3>1. more = listed'[h]
      BY <1>0
    <3>2. o \in Nat /\ taken \in Nat
      BY <1>e, <1>f
    <3> QED
      BY <1>7, <3>1, <3>2
  <2> QED
    BY <1>10, <2>1 DEF OffsetCounts
<1>14. Undisturbed(h)' = Undisturbed(h) /\ undisturbed' = undisturbed
  BY DEF Undisturbed, Takes
<1>15. ASSUME Undisturbed(h) PROVE CursorsTrue(h)'
  BY <1>0, <1>7, <1>12, <1>14, <1>15 DEF CursorsTrue
<1>16. ASSUME Undisturbed(h) PROVE NoGaps(h)'
  <2>1. NoGaps(h) /\ steady[h] \subseteq present
    BY <1>1, <1>16 DEF HandleInv, ListingTyped
  <2>2. Increasing(more)
    BY <1>11, <1>16 DEF Continues
  <2>3. \A n \in steady[h] : Lists(more, n) \/ Beyond(more, n)
    BY <1>0, <1>11, <1>16, <2>1 DEF NoGaps, Continues
  <2>4. steady' = steady /\ ~ done'[h]
    BY DEF Takes
  <2> QED
    BY <1>0, <2>2, <2>3, <2>4 DEF NoGaps
<1>17. ASSUME undisturbed[h].unchanged PROVE AllSteady(h)'
  <2>1. AllSteady(h) /\ Undisturbed(h)
    BY <1>1, <1>17 DEF HandleInv, Undisturbed
  <2>2. ASSUME NEW i \in 1 .. Len(more) PROVE more[i] \in present
    <3>1. i \in Nat /\ i >= 1 /\ i <= len + k
      BY <1>6, <1>c, <1>f
    <3>2. CASE i <= len
      <4>1. i \in 1 .. Len(row)
        BY <1>b, <1>c, <3>1, <3>2
      <4> QED
        BY <1>0, <1>11, <2>1, <4>1 DEF AllSteady, Continues
    <3>3. CASE ~ (i <= len)
      <4>1. PICK j : j = i - len
        OBVIOUS
      <4>2. j \in 1 .. k /\ len + j = i /\ j \in 1 .. l
        BY <1>c, <1>f, <3>1, <3>3, <4>1
      <4>3. more[i] = page[j]
        BY <1>11, <1>b, <2>1, <4>2 DEF Continues
      <4>4. page[j] \in present
        BY <1>4, <1>b, <4>2
      <4> QED
        BY <4>3, <4>4
    <3> QED
      BY <3>2, <3>3
  <2>3. steady' = steady /\ present' = present
    BY DEF Takes
  <2> QED
    BY <1>0, <2>1, <2>2, <2>3 DEF AllSteady
<1>18. HandleInv(h)'
  BY <1>13, <1>14, <1>15, <1>16, <1>17 DEF HandleInv
<1> QED
  BY <1>1, <1>9, <1>18, OthersKept DEF ListingTyped, Takes

LEMMA ReadDirKeeps ==
  ASSUME ListingParameters, ListingInv, NEW h \in DirHandles, ReadDir(h)
  PROVE  ListingInv'
<1>1. PICK page, dots : page = Page(h) /\ dots = Dots(offset[h])
  OBVIOUS
<1>2. ~ done[h] /\ offset[h] \in Nat
  BY DEF ReadDir, ListingInv, ListingTyped
<1>3. CASE dots = 0 /\ page = << >>
  <2>1. offset[h] >= 2
    BY <1>1, <1>2, <1>3 DEF Dots
  <2>2. /\ cursors' = [cursors EXCEPT ![h] = Remembered(h, << >>)]
        /\ done' = [done EXCEPT ![h] = TRUE]
        /\ UNCHANGED <<offset, listed, present, steady, undisturbed>>
    BY <1>1, <1>3 DEF ReadDir
  <2>3. Page(h) = << >>
    BY <1>1, <1>3
  <2> QED
    BY <2>1, <2>2, <2>3, ReadDirEnds
<1>4. CASE ~ (dots = 0 /\ page = << >>)
  <2>1. PICK taken \in 1 .. (dots + Len(page)) :
          /\ offset' = [offset EXCEPT ![h] = @ + taken]
          /\ listed' = [listed EXCEPT ![h] =
               IF taken > dots THEN @ \o SubSeq(page, 1, taken - dots) ELSE @]
          /\ UNCHANGED done
    BY <1>1, <1>4 DEF ReadDir
  <2>2. cursors' = [cursors EXCEPT ![h] = Remembered(h, page)]
        /\ UNCHANGED <<present, steady, undisturbed>>
    BY <1>1 DEF ReadDir
  <2>3. Takes(h, page, dots, taken)
    BY <1>1, <2>1, <2>2 DEF Takes
  <2> QED
    BY <1>1, <1>2, <2>3, ReadDirTakes
<1> QED
  BY <1>3, <1>4

LEMMA SeekBackKeeps ==
  ASSUME ListingParameters, ListingInv, NEW h \in DirHandles, SeekBack(h)
  PROVE  ListingInv'
<1>1. ListingTyped /\ HandleInv(h)
  BY DEF ListingInv
<1>2. PICK o \in 1 .. offset[h] :
        /\ offset' = [offset EXCEPT ![h] = o]
        /\ listed' = [listed EXCEPT ![h] = SubSeq(@, 1, IF o < 2 THEN 0 ELSE o - 2)]
  BY DEF SeekBack
<1>3. /\ done' = [done EXCEPT ![h] = FALSE]
      /\ UNCHANGED <<present, cursors, steady, undisturbed>>
  BY DEF SeekBack
<1>4. PICK row, k, less : row = listed[h] /\ k = (IF o < 2 THEN 0 ELSE o - 2) /\ less = listed'[h]
  OBVIOUS
<1>5. offset[h] \in Nat /\ row \in Seq(EntryNames) /\ o \in Nat /\ o >= 1 /\ o <= offset[h]
  BY <1>1, <1>4 DEF ListingTyped
<1>6. Len(row) = IF offset[h] <= 2 THEN 0 ELSE offset[h] - 2
  BY <1>1, <1>4 DEF HandleInv, OffsetCounts
<1>7. k \in Nat /\ k <= Len(row) /\ k = IF o <= 2 THEN 0 ELSE o - 2
  BY <1>4, <1>5, <1>6
<1>8. less = SubSeq(row, 1, k)
  BY <1>1, <1>2, <1>4 DEF ListingTyped
<1>9. /\ less \in Seq(EntryNames) /\ Len(less) = k
      /\ \A i \in 1 .. k : i \in 1 .. Len(row) /\ less[i] = row[i]
  <2>1. \A i \in 1 .. k : i \in 1 .. Len(row) /\ row[i] \in EntryNames
    BY <1>5, <1>7
  <2>2. /\ SubSeq(row, 1, k) \in Seq(EntryNames)
        /\ Len(SubSeq(row, 1, k)) = IF 1 <= k THEN k - 1 + 1 ELSE 0
        /\ \A i \in 1 .. k - 1 + 1 : SubSeq(row, 1, k)[i] = row[1 + i - 1]
    BY <1>7, <2>1, SubSeqProperties
  <2> QED
    BY <1>7, <1>8, <2>1, <2>2
<1>10. ListingTyped'
  <2>1. listed' \in [DirHandles -> Seq(EntryNames)]
    BY <1>1, <1>2, <1>4, <1>9 DEF ListingTyped
  <2>2. offset' \in [DirHandles -> Nat]
    BY <1>1, <1>2 DEF ListingTyped
  <2> QED
    BY <1>1, <1>3, <2>1, <2>2 DEF ListingTyped
<1>11. OffsetCounts(h)'
  <2>1. offset'[h] = o
    BY <1>1, <1>2 DEF ListingTyped
  <2>2. Len(listed'[h]) = IF o <= 2 THEN 0 ELSE o - 2
    BY <1>4, <1>7, <1>9
  <2> QED
    BY <1>1, <1>3, <2>1, <2>2 DEF HandleInv, OffsetCounts
<1>12. ASSUME Undisturbed(h) PROVE CursorsTrue(h)'
  <2>1. CursorsTrue(h)
    BY <1>1, <1>12 DEF HandleInv
  <2>2. offset'[h] = o
    BY <1>1, <1>2 DEF ListingTyped
  <2>3. \A i \in 3 .. o : i \in 3 .. offset[h] /\ i - 2 \in 1 .. k
    BY <1>5, <1>7
  <2> QED
    BY <1>3, <1>4, <1>9, <2>1, <2>2, <2>3 DEF CursorsTrue
<1>13. ASSUME Undisturbed(h) PROVE NoGaps(h)'
  <2>1. NoGaps(h) /\ steady[h] \subseteq present
    BY <1>1, <1>13 DEF HandleInv, ListingTyped
  <2>2. Increasing(less)
    BY <1>4, <1>7, <1>9, <2>1 DEF NoGaps, Increasing
  <2>3. ASSUME NEW n \in steady[h] PROVE Lists(less, n) \/ Beyond(less, n)
    <3>1. CASE Beyond(row, n)
      BY <1>9, <3>1 DEF Beyond
    <3>2. CASE Lists(row, n)
      <4>1. PICK i \in 1 .. Len(row) : row[i] = n
        BY <3>2 DEF Lists
      <4>2. CASE i <= k
        <5>1. i \in 1 .. k
          BY <1>5, <1>7, <4>2
        <5> QED
          BY <1>9, <4>1, <5>1 DEF Lists
      <4>3. CASE ~ (i <= k)
        <5>1. \A j \in 1 .. k : j \in 1 .. Len(row) /\ j < i
          BY <1>5, <1>7, <4>3
        <5>2. \A j \in 1 .. k : less[j] < n
          BY <1>4, <1>9, <2>1, <4>1, <5>1 DEF NoGaps, Increasing
        <5> QED
          BY <1>9, <5>2 DEF Beyond
      <4> QED
        BY <4>2, <4>3
    <3> QED
      BY <1>4, <2>1, <3>1, <3>2 DEF NoGaps
  <2>4. steady' = steady /\ ~ done'[h]
    BY <1>1, <1>3 DEF ListingTyped
  <2> QED
    BY <1>4, <2>2, <2>3, <2>4 DEF NoGaps
<1>14. ASSUME undisturbed[h].unchanged PROVE AllSteady(h)'
  <2>1. AllSteady(h)
    BY <1>1, <1>14 DEF HandleInv
  <2>2. \A i \in 1 .. Len(less) : less[i] \in present
    BY <1>4, <1>9, <2>1 DEF AllSteady
  <2> QED
    BY <1>3, <1>4, <2>1, <2>2 DEF AllSteady
<1>15. HandleInv(h)'
  BY <1>3, <1>11, <1>12, <1>13, <1>14 DEF HandleInv, Undisturbed
<1> QED
  BY <1>1, <1>2, <1>3, <1>10, <1>15, OthersKept DEF ListingTyped

LEMMA RewindKeeps ==
  ASSUME ListingParameters, ListingInv, NEW h \in DirHandles, Rewind(h)
  PROVE  ListingInv'
<1>1. ListingTyped /\ HandleInv(h)
  BY DEF ListingInv
<1>2. /\ offset' = [offset EXCEPT ![h] = 0]
      /\ listed' = [listed EXCEPT ![h] = << >>]
      /\ done' = [done EXCEPT ![h] = FALSE]
      /\ steady' = [steady EXCEPT ![h] = present]
      /\ undisturbed' =
           [undisturbed EXCEPT ![h] = [unchanged |-> TRUE, sameHandle |-> TRUE]]
      /\ UNCHANGED <<present, cursors>>
  BY DEF Rewind
<1>3. offset'[h] = 0 /\ listed'[h] = << >> /\ ~ done'[h] /\ steady'[h] = present
  BY <1>1, <1>2 DEF ListingTyped
<1>4. ListingTyped'
  BY <1>1, <1>2 DEF ListingTyped
<1>5. HandleInv(h)'
  <2>1. OffsetCounts(h)'
    BY <1>1, <1>2, <1>3 DEF HandleInv, OffsetCounts
  <2>2. CursorsTrue(h)' /\ NoGaps(h)' /\ AllSteady(h)'
    BY <1>2, <1>3 DEF CursorsTrue, NoGaps, AllSteady, Increasing, Beyond, Lists
  <2> QED
    BY <2>1, <2>2 DEF HandleInv
<1> QED
  BY <1>1, <1>2, <1>4, <1>5, OthersKept DEF ListingTyped

LEMMA ReopenKeeps ==
  ASSUME ListingParameters, ListingInv, NEW h \in DirHandles, Reopen(h)
  PROVE  ListingInv'
<1>1. ListingTyped /\ HandleInv(h)
  BY DEF ListingInv
<1>2. /\ cursors' = [cursors EXCEPT ![h] = NoCursors]
      /\ undisturbed' = [undisturbed EXCEPT ![h].sameHandle = FALSE]
      /\ UNCHANGED <<present, offset, listed, done, steady>>
  BY DEF Reopen, caller
<1>3. /\ undisturbed'[h].unchanged = undisturbed[h].unchanged
      /\ ~ undisturbed'[h].sameHandle
  BY <1>1, <1>2 DEF ListingTyped
<1>4. cursors'[h] = [o \in Offsets |-> 0]
  BY <1>1, <1>2 DEF ListingTyped, NoCursors
<1>5. ListingTyped'
  <2>1. [o \in Offsets |-> 0] \in [Offsets -> 0 .. NameCount]
    BY DEF ListingParameters
  <2>2. cursors' \in [DirHandles -> [Offsets -> 0 .. NameCount]]
    BY <1>1, <1>2, <2>1 DEF ListingTyped, NoCursors
  <2>3. undisturbed' \in [DirHandles -> [unchanged : BOOLEAN, sameHandle : BOOLEAN]]
    BY <1>1, <1>2 DEF ListingTyped
  <2> QED
    BY <1>1, <1>2, <2>2, <2>3 DEF ListingTyped
<1>6. HandleInv(h)'
  <2>1. OffsetCounts(h)'
    <3>1. \A o \in 0 .. 2 : cursors'[h][o] = 0
      BY <1>4 DEF Offsets, ListingParameters
    <3> QED
      BY <1>1, <1>2, <3>1 DEF HandleInv, OffsetCounts
  <2>2. ASSUME undisturbed[h].unchanged PROVE CursorsTrue(h)' /\ NoGaps(h)' /\ AllSteady(h)'
    <3>1. NoGaps(h)' /\ AllSteady(h)'
      BY <1>1, <1>2, <2>2 DEF HandleInv, Undisturbed, NoGaps, AllSteady
    <3>2. offset[h] <= NameCount + 2 /\ offset[h] \in Nat
      <4>1. /\ Increasing(listed[h]) /\ listed[h] \in Seq(EntryNames)
            /\ Len(listed[h]) = IF offset[h] <= 2 THEN 0 ELSE offset[h] - 2
        BY <1>1, <2>2 DEF HandleInv, Undisturbed, NoGaps, OffsetCounts, ListingTyped
      <4>2. Len(listed[h]) <= NameCount
        BY <4>1, IncreasingShort
      <4>3. offset[h] \in Nat /\ NameCount \in Nat
        BY <1>1 DEF ListingTyped, ListingParameters
      <4> QED
        BY <4>1, <4>2, <4>3
    <3>3. \A o \in 3 .. offset[h] : o \in Offsets
      BY <3>2 DEF Offsets, ListingParameters
    <3>4. \A o \in 3 .. offset[h] : cursors'[h][o] = 0
      BY <1>4, <3>3
    <3>5. CursorsTrue(h)'
      BY <1>2, <1>3, <3>4 DEF CursorsTrue
    <3> QED
      BY <3>1, <3>5
  <2> QED
    BY <1>3, <2>1, <2>2 DEF HandleInv, Undisturbed
<1> QED
  BY <1>1, <1>2, <1>5, <1>6, OthersKept DEF ListingTyped

LEMMA ChangeKeeps ==
  ASSUME ListingParameters, ListingInv, NEW S \in SUBSET EntryNames, Change(S)
  PROVE  ListingInv'
<1>1. ListingTyped
  BY DEF ListingInv
<1>2. /\ present' = S
      /\ steady' = [h \in DirHandles |-> steady[h] \cap S]
      /\ undisturbed' = [h \in DirHandles |-> [undisturbed[h] EXCEPT !.unchanged = FALSE]]
      /\ UNCHANGED <<cursors, offset, listed, done>>
  BY DEF Change, caller
<1>3. ListingTyped'
  <2>1. undisturbed' \in [DirHandles -> [unchanged : BOOLEAN, sameHandle : BOOLEAN]]
    BY <1>1, <1>2 DEF ListingTyped
  <2>2. steady' \in [DirHandles -> SUBSET S]
    BY <1>2
  <2> QED
    BY <1>1, <1>2, <2>1, <2>2 DEF ListingTyped
<1>4. ASSUME NEW h \in DirHandles PROVE HandleInv(h)'
  <2>1. HandleInv(h)
    BY DEF ListingInv
  <2>2. /\ ~ undisturbed'[h].unchanged
        /\ undisturbed'[h].sameHandle = undisturbed[h].sameHandle
        /\ steady'[h] \subseteq steady[h]
    BY <1>1, <1>2 DEF ListingTyped
  <2> QED
    BY <1>2, <2>1, <2>2 DEF HandleInv, OffsetCounts, Undisturbed, CursorsTrue, NoGaps
<1> QED
  BY <1>3, <1>4 DEF ListingInv

LEMMA ListingStep ==
  ASSUME ListingParameters, ListingInv, [ListingNext]_(listingVars)
  PROVE  ListingInv'
<1>1. CASE UNCHANGED listingVars
  BY <1>1 DEF listingVars, ListingInv, ListingTyped, HandleInv, OffsetCounts, Undisturbed,
    CursorsTrue, NoGaps, AllSteady
<1>2. ASSUME NEW n \in EntryNames,
             Change(present \cup {n}) \/ Change(present \ {n})
      PROVE  ListingInv'
  <2>1. present \cup {n} \in SUBSET EntryNames /\ present \ {n} \in SUBSET EntryNames
    BY DEF ListingInv, ListingTyped
  <2> QED
    BY <1>2, <2>1, ChangeKeeps
<1> QED
  BY <1>1, <1>2, ReadDirKeeps, SeekBackKeeps, RewindKeeps, ReopenKeeps DEF ListingNext

LEMMA ListingSpecInv == ASSUME ListingParameters PROVE ListingSpec => []ListingInv
<1>1. ListingInit => ListingInv
  BY ListingInitInv
<1>2. ListingInv /\ [ListingNext]_(listingVars) => ListingInv'
  BY ListingStep
<1> QED
  BY <1>1, <1>2, PTL DEF ListingSpec

\* readdir (inode_fuse.py, metadata/namespace.py): whatever is created and
\* removed meanwhile and wherever the pages are cut, a listing on one handle, or
\* of a directory that does not change, gives out no name twice and misses none
\* that has been there all the time.
THEOREM ListingListedOnce == ListingSpec => []ListedOnce
<1>0. ListingParameters
  BY ListingAssumption
<1> USE <1>0
<1>1. ListingInv => ListedOnce
  <2> SUFFICES ASSUME ListingInv, NEW h \in DirHandles, Undisturbed(h)
               PROVE  /\ IsInjective(listed[h])
                      /\ done[h] => steady[h] \subseteq ToSet(listed[h])
    BY DEF ListedOnce, Undisturbed
  <2>1. listed[h] \in Seq(EntryNames) /\ NoGaps(h)
    BY DEF ListingInv, ListingTyped, HandleInv
  <2>2. DOMAIN listed[h] = 1 .. Len(listed[h])
        /\ \A i \in 1 .. Len(listed[h]) : listed[h][i] \in Nat
    <3>1. EntryNames \subseteq Nat
      BY DEF EntryNames, ListingParameters
    <3>2. listed[h] \in Seq(Nat)
      BY <2>1, <3>1, SeqOfMore
    <3> QED
      BY <3>2
  <2>3. IsInjective(listed[h])
    <3> SUFFICES ASSUME NEW i \in 1 .. Len(listed[h]), NEW j \in 1 .. Len(listed[h]),
                        listed[h][i] = listed[h][j]
                 PROVE  i = j
      BY <2>2 DEF IsInjective
    <3> QED
      BY <2>1, <2>2 DEF NoGaps, Increasing
  <2>4. ASSUME done[h], NEW n \in steady[h] PROVE n \in ToSet(listed[h])
    BY <2>1, <2>2, <2>4 DEF NoGaps, Lists, ToSet
  <2> QED
    BY <2>3, <2>4
<1> QED
  BY <1>1, ListingSpecInv, PTL
=============================================================================
