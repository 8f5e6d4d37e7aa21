------------------------ MODULE AdvisoryLocksProofs -------------------------
(***************************************************************************)
(* Proofs about AdvisoryLocks: the table of ranges is a correct            *)
(* implementation of byte locks, for any owners and any length of a file.  *)
(*                                                                         *)
(* release_owner does not take the lock of the file system.  The types and *)
(* the refusals hold whenever a handle is closed.  The other two results   *)
(* name the step of a release that must not happen: NotWithin for disjoint *)
(* locks, NothingLost for the implementation of byte locks.  The code does *)
(* not exclude these steps; if no handle is closed beside another call     *)
(* (~ReleaseBetween) they do not happen.                                   *)
(***************************************************************************)
EXTENDS AdvisoryLocks, FiniteSetTheorems, TLAPS

(***************************************************************************)
(* The inductive invariant.                                                *)
(***************************************************************************)
Shaped(S) == S \subseteq FileLock /\ \A l \in S : l.start <= Last(l.end)

Apart(S) ==
  \A l, k \in S : (l # k /\ Overlaps(l, k.start, k.end)) =>
                    l.owner # k.owner /\ l.type = "read" /\ k.type = "read"

\* What a request is about to install still belongs to the table it read.
RequestFits ==
  request # Idle /\ request.stage = "carved" =>
    \E o \in Owners, start \in Offsets, end \in Ends :
      /\ start <= Last(end)
      /\ request.kept = Unlocked(o, start, end)
      /\ \/ request.added = {}
         \/ \E type \in LockTypes :
              /\ request.added = {[owner |-> o, type |-> type, start |-> start, end |-> end]}
              /\ Conflict(o, type, start, end) = {}

\* So does what a release is about to install.
ReleaseFits == \A r \in releases : r.kept = {l \in locks : l.owner # r.owner}

IInv == TypeOK /\ Shaped(Table) /\ Apart(Table) /\ RequestFits /\ ReleaseFits

(***************************************************************************)
(* Intervals.                                                              *)
(***************************************************************************)
LEMMA LastType == \A end \in Ends : Last(end) \in Offsets
  BY MaxOffsetAssumption, NoneAssumption DEF Ends, Offsets, Last

\* The parts that are left of a lock lie in it, beside the range and apart.
LEMMA CarvedParts ==
  ASSUME NEW l \in FileLock, l.start <= Last(l.end),
         NEW start \in Offsets, NEW end \in Ends, start <= Last(end),
         Overlaps(l, start, end)
  PROVE  /\ \A k \in Carved(l, start, end) :
              /\ k \in FileLock /\ k.owner = l.owner /\ k.type = l.type
              /\ k.start <= Last(k.end)
              /\ l.start <= k.start /\ Last(k.end) <= Last(l.end)
              /\ Last(k.end) < start \/ Last(end) < k.start
         /\ \A b \in Offsets : Covers(l, b) /\ ~(start <= b /\ b <= Last(end)) =>
              \E k \in Carved(l, start, end) : Covers(k, b)
         /\ \A k, m \in Carved(l, start, end) : k # m => ~Overlaps(k, m.start, m.end)
<1> DEFINE front == [l EXCEPT !.end = start - 1]
           behind == [l EXCEPT !.start = end + 1]
           InFront == l.start < start
           Behind == end # None /\ (l.end = None \/ l.end > end)
<1>0. /\ l.start \in 0 .. MaxOffset /\ l.end \in Ends /\ start \in 0 .. MaxOffset
      /\ Last(l.end) \in 0 .. MaxOffset /\ Last(end) \in 0 .. MaxOffset
      /\ MaxOffset \in Nat
  BY LastType, MaxOffsetAssumption DEF FileLock, Offsets
<1>1. ASSUME InFront
      PROVE  /\ front \in FileLock /\ front.owner = l.owner /\ front.type = l.type
             /\ front.start = l.start /\ Last(front.end) = start - 1
  <2>1. start - 1 \in 0 .. MaxOffset - 1
    BY <1>0, <1>1
  <2>2. start - 1 \in Ends /\ Last(start - 1) = start - 1
    BY <2>1, <1>0, NoneAssumption DEF Ends, Last
  <2> QED BY <2>2 DEF FileLock
<1>2. ASSUME Behind
      PROVE  /\ behind \in FileLock /\ behind.owner = l.owner /\ behind.type = l.type
             /\ behind.start = end + 1 /\ behind.end = l.end /\ Last(end) = end
             /\ end + 1 <= Last(l.end) /\ end \in 0 .. MaxOffset - 1
  <2>1. end \in 0 .. MaxOffset - 1 /\ Last(end) = end
    BY <1>2 DEF Ends, Last
  <2>2. end + 1 \in Offsets
    BY <1>0, <2>1 DEF Offsets
  <2>3. l.end # None => l.end \in 0 .. MaxOffset - 1 /\ Last(l.end) = l.end
    BY <1>0 DEF Ends, Last
  <2>4. l.end = None => Last(l.end) = MaxOffset
    BY DEF Last
  <2>5. end + 1 <= Last(l.end)
    BY <1>0, <1>2, <2>1, <2>3, <2>4
  <2> QED BY <2>1, <2>2, <2>5 DEF FileLock
<1>3. \A k : k \in Carved(l, start, end) <=> (InFront /\ k = front) \/ (Behind /\ k = behind)
  BY DEF Carved
<1>4. Overlaps(l, start, end) => l.start <= Last(end) /\ start <= Last(l.end)
  BY DEF Overlaps
<1> HIDE DEF front, behind
<1>5. ASSUME NEW k \in Carved(l, start, end)
      PROVE  /\ k \in FileLock /\ k.owner = l.owner /\ k.type = l.type
             /\ k.start <= Last(k.end)
             /\ l.start <= k.start /\ Last(k.end) <= Last(l.end)
             /\ Last(k.end) < start \/ Last(end) < k.start
  <2>1. CASE InFront /\ k = front
    BY <1>0, <1>1, <1>4, <2>1
  <2>2. CASE Behind /\ k = behind
    <3>1. /\ behind \in FileLock /\ behind.owner = l.owner /\ behind.type = l.type
          /\ behind.start = Last(end) + 1 /\ Last(behind.end) = Last(l.end)
          /\ Last(end) + 1 <= Last(l.end)
      BY <1>2, <2>2
    <3> QED BY <1>0, <1>4, <2>2, <3>1
  <2> QED BY <1>3, <1>5, <2>1, <2>2
<1>6. ASSUME NEW b \in Offsets, Covers(l, b), ~(start <= b /\ b <= Last(end))
      PROVE  \E k \in Carved(l, start, end) : Covers(k, b)
  <2>0. b \in 0 .. MaxOffset /\ l.start <= b /\ b <= Last(l.end)
    BY <1>6 DEF Covers, Offsets
  <2>1. CASE b < start
    <3>1. InFront
      BY <1>0, <2>0, <2>1
    <3>2. Covers(front, b)
      BY <1>0, <1>1, <2>0, <2>1, <3>1 DEF Covers
    <3> QED BY <1>3, <3>1, <3>2
  <2>2. CASE Last(end) < b
    <3>1. end # None
      BY <1>0, <2>0, <2>2 DEF Last
    <3>2. end \in 0 .. MaxOffset - 1 /\ Last(end) = end
      BY <3>1 DEF Ends, Last
    <3>3. l.end # None => l.end \in 0 .. MaxOffset - 1 /\ Last(l.end) = l.end
      BY <1>0 DEF Ends, Last
    <3>4. Behind
      BY <1>0, <2>0, <2>2, <3>1, <3>2, <3>3
    <3>5. Covers(behind, b)
      BY <1>0, <1>2, <2>0, <2>2, <3>2, <3>4 DEF Covers
    <3> QED BY <1>3, <3>4, <3>5
  <2> QED BY <1>0, <1>6, <2>0, <2>1, <2>2
<1>7. ASSUME InFront, Behind PROVE ~Overlaps(front, behind.start, behind.end)
                                   /\ ~Overlaps(behind, front.start, front.end)
  <2>1. /\ Last(front.end) = start - 1 /\ behind.start = Last(end) + 1
    BY <1>1, <1>2, <1>7
  <2>2. ~(behind.start <= Last(front.end))
    BY <1>0, <2>1
  <2> QED BY <2>2 DEF Overlaps
<1>8. ASSUME NEW k \in Carved(l, start, end), NEW m \in Carved(l, start, end), k # m
      PROVE  ~Overlaps(k, m.start, m.end)
  BY <1>3, <1>7, <1>8
<1> QED BY <1>5, <1>6, <1>8

(***************************************************************************)
(* The table without a range of an owner.                                  *)
(***************************************************************************)
Parts(l, o, start, end) ==
  IF l.owner = o /\ Overlaps(l, start, end) THEN Carved(l, start, end) ELSE {l}

Inside(k, l) ==
  k.owner = l.owner /\ k.type = l.type /\ l.start <= k.start /\ Last(k.end) <= Last(l.end)

LEMMA PartsSound ==
  ASSUME NEW l \in FileLock, l.start <= Last(l.end), NEW o \in Owners,
         NEW start \in Offsets, NEW end \in Ends, start <= Last(end)
  PROVE  /\ \A k \in Parts(l, o, start, end) :
              /\ k \in FileLock /\ k.start <= Last(k.end) /\ Inside(k, l)
              /\ k.owner = o => Last(k.end) < start \/ Last(end) < k.start
         /\ l.owner # o => Parts(l, o, start, end) = {l}
         /\ \A b \in Offsets : Covers(l, b) /\ ~(start <= b /\ b <= Last(end)) =>
              \E k \in Parts(l, o, start, end) : Covers(k, b)
         /\ \A k, m \in Parts(l, o, start, end) : k # m => ~Overlaps(k, m.start, m.end)
<1>0. /\ l.start \in 0 .. MaxOffset /\ start \in 0 .. MaxOffset
      /\ Last(l.end) \in 0 .. MaxOffset /\ Last(end) \in 0 .. MaxOffset
      /\ MaxOffset \in Nat
  BY LastType, MaxOffsetAssumption DEF FileLock, Offsets
<1>1. CASE l.owner = o /\ Overlaps(l, start, end)
  <2>1. Parts(l, o, start, end) = Carved(l, start, end)
    BY <1>1 DEF Parts
  <2> QED BY <1>1, <2>1, CarvedParts DEF Inside
<1>2. CASE ~(l.owner = o /\ Overlaps(l, start, end))
  <2>1. Parts(l, o, start, end) = {l}
    BY <1>2 DEF Parts
  <2>2. Inside(l, l)
    BY <1>0 DEF Inside
  <2>3. l.owner = o => Last(l.end) < start \/ Last(end) < l.start
    BY <1>0, <1>2 DEF Overlaps
  <2> QED BY <2>1, <2>2, <2>3
<1> QED BY <1>1, <1>2

LEMMA UnlockedIsParts ==
  ASSUME NEW o, NEW start, NEW end
  PROVE  \A k : k \in Unlocked(o, start, end) <=> \E l \in locks : k \in Parts(l, o, start, end)
  BY DEF Unlocked, Parts

\* Two locks that lie in two others overlap only if those do.
LEMMA InsideOverlaps ==
  ASSUME NEW k \in FileLock, NEW l \in FileLock, NEW m \in FileLock, NEW n \in FileLock,
         Inside(k, l), Inside(m, n), Overlaps(k, m.start, m.end)
  PROVE  Overlaps(l, n.start, n.end)
<1>1. /\ k.start \in 0 .. MaxOffset /\ l.start \in 0 .. MaxOffset
      /\ m.start \in 0 .. MaxOffset /\ n.start \in 0 .. MaxOffset
      /\ Last(k.end) \in 0 .. MaxOffset /\ Last(l.end) \in 0 .. MaxOffset
      /\ Last(m.end) \in 0 .. MaxOffset /\ Last(n.end) \in 0 .. MaxOffset
  BY LastType DEF FileLock, Offsets
<1> QED BY <1>1, MaxOffsetAssumption DEF Inside, Overlaps

\* What _unlock leaves: locks inside the old ones, apart if those were; the
\* owner's locks beside the range, and everything else as it was.
LEMMA UnlockedSound ==
  ASSUME Shaped(locks), NEW o \in Owners,
         NEW start \in Offsets, NEW end \in Ends, start <= Last(end)
  PROVE  LET kept == Unlocked(o, start, end)
         IN  /\ Shaped(kept)
             /\ \A k \in kept : \E l \in locks : Inside(k, l)
             /\ \A k \in kept : k.owner = o => Last(k.end) < start \/ Last(end) < k.start
             /\ \A k : k.owner # o => (k \in kept <=> k \in locks)
             /\ \A l \in locks, b \in Offsets :
                  Covers(l, b) /\ ~(start <= b /\ b <= Last(end)) =>
                    \E k \in kept : k.owner = l.owner /\ k.type = l.type /\ Covers(k, b)
             /\ Apart(locks) => Apart(kept)
<1> DEFINE kept == Unlocked(o, start, end)
<1>0. /\ \A k : k \in kept <=> \E l \in locks : k \in Parts(l, o, start, end)
      /\ \A l \in locks : l \in FileLock /\ l.start <= Last(l.end)
  BY UnlockedIsParts DEF Shaped
<1> HIDE DEF kept
<1>1. ASSUME NEW k \in kept
      PROVE  /\ k \in FileLock /\ k.start <= Last(k.end)
             /\ \E l \in locks : Inside(k, l)
             /\ k.owner = o => Last(k.end) < start \/ Last(end) < k.start
             /\ k.owner # o => k \in locks
  <2>1. PICK l \in locks : k \in Parts(l, o, start, end)
    BY <1>0
  <2>2. /\ k \in FileLock /\ k.start <= Last(k.end) /\ Inside(k, l)
        /\ k.owner = o => Last(k.end) < start \/ Last(end) < k.start
    BY <1>0, <2>1, PartsSound
  <2>3. k.owner # o => k \in locks
    BY <1>0, <2>1, <2>2, PartsSound DEF Inside
  <2> QED BY <2>2, <2>3
<1>2. ASSUME NEW l \in locks, l.owner # o PROVE l \in kept
  BY <1>0, <1>2, PartsSound
<1>3. ASSUME NEW l \in locks, NEW b \in Offsets, Covers(l, b), ~(start <= b /\ b <= Last(end))
      PROVE  \E k \in kept : k.owner = l.owner /\ k.type = l.type /\ Covers(k, b)
  <2>1. PICK k \in Parts(l, o, start, end) : Covers(k, b)
    BY <1>0, <1>3, PartsSound
  <2>2. k \in kept /\ Inside(k, l)
    BY <1>0, <2>1, PartsSound
  <2> QED BY <2>1, <2>2 DEF Inside
<1>4. ASSUME Apart(locks), NEW k \in kept, NEW m \in kept, k # m, Overlaps(k, m.start, m.end)
      PROVE  k.owner # m.owner /\ k.type = "read" /\ m.type = "read"
  <2>1. PICK l \in locks : k \in Parts(l, o, start, end)
    BY <1>0
  <2>2. PICK n \in locks : m \in Parts(n, o, start, end)
    BY <1>0
  <2>3. k \in FileLock /\ m \in FileLock /\ Inside(k, l) /\ Inside(m, n)
    BY <1>0, <2>1, <2>2, PartsSound
  <2>4. l # n
    BY <1>0, <1>4, <2>1, <2>2, PartsSound
  <2>5. Overlaps(l, n.start, n.end)
    BY <1>0, <1>4, <2>3, InsideOverlaps
  <2>6. l.owner # n.owner /\ l.type = "read" /\ n.type = "read"
    BY <1>4, <2>4, <2>5 DEF Apart
  <2> QED BY <2>3, <2>6 DEF Inside
<1>5. Shaped(kept)
  BY <1>1 DEF Shaped
<1>6. Apart(locks) => Apart(kept)
  BY <1>4 DEF Apart
<1> QED BY <1>1, <1>2, <1>3, <1>5, <1>6 DEF kept

\* A lock that is granted lies apart from what is left of the table.
LEMMA GrantedApart ==
  ASSUME Shaped(locks), Apart(locks), NEW o \in Owners, NEW type \in LockTypes,
         NEW start \in Offsets, NEW end \in Ends, start <= Last(end),
         Conflict(o, type, start, end) = {}
  PROVE  LET new == [owner |-> o, type |-> type, start |-> start, end |-> end]
         IN  new \in FileLock
             /\ Shaped(Unlocked(o, start, end) \cup {new})
             /\ Apart(Unlocked(o, start, end) \cup {new})
<1> DEFINE kept == Unlocked(o, start, end)
           new == [owner |-> o, type |-> type, start |-> start, end |-> end]
<1>1. /\ Shaped(kept) /\ Apart(kept)
      /\ \A k \in kept : k.owner = o => Last(k.end) < start \/ Last(end) < k.start
      /\ \A k : k.owner # o => (k \in kept <=> k \in locks)
  BY UnlockedSound
<1>2. new \in FileLock /\ new.owner = o /\ new.type = type /\ new.start = start /\ new.end = end
  BY DEF FileLock
<1> HIDE DEF kept, new
<1>3. ASSUME NEW k \in kept, Overlaps(k, new.start, new.end) \/ Overlaps(new, k.start, k.end)
      PROVE  k.owner # new.owner /\ k.type = "read" /\ new.type = "read"
  <2>1. /\ k \in FileLock /\ k.start \in 0 .. MaxOffset /\ Last(k.end) \in 0 .. MaxOffset
        /\ start \in 0 .. MaxOffset /\ Last(end) \in 0 .. MaxOffset
    BY <1>1, LastType DEF Shaped, FileLock, Offsets
  <2>2. k.start <= Last(end) /\ start <= Last(k.end)
    BY <1>2, <1>3 DEF Overlaps
  <2>3. k.owner # o
    BY <1>1, <2>1, <2>2, MaxOffsetAssumption
  <2>4. k \in locks /\ Overlaps(k, start, end)
    BY <1>1, <2>2, <2>3 DEF Overlaps
  <2>5. k.type = "read" /\ type = "read"
    BY <2>3, <2>4 DEF Conflict
  <2> QED BY <1>2, <2>3, <2>5
<1>4. Shaped(kept \cup {new})
  BY <1>1, <1>2 DEF Shaped
<1>5. Apart(kept \cup {new})
  BY <1>1, <1>3 DEF Apart
<1> QED BY <1>2, <1>4, <1>5 DEF kept, new

(***************************************************************************)
(* In any setting: the pieces of locks that are installed are ranges of    *)
(* the file, whoever replaces the list.                                    *)
(***************************************************************************)
Typed ==
  /\ TypeOK
  /\ request # Idle => Shaped(request.kept) /\ Shaped(request.added)
  /\ \A r \in releases : Shaped(r.kept)

LEMMA TypesShape == TypeOK => Shaped(locks)
  BY MaxOffsetAssumption DEF TypeOK, Shaped, FileLock, Offsets, Last

LEMMA BeginTyped ==
  ASSUME Typed, NEW o \in Owners, NEW start \in Offsets, NEW end \in Ends,
         NEW added, Begin(o, start, end, added),
         \/ added = {}
         \/ \E type \in LockTypes :
              added = {[owner |-> o, type |-> type, start |-> start, end |-> end]}
  PROVE  Typed'
<1>1. start <= Last(end) /\ Shaped(locks)
  BY TypesShape, MaxOffsetAssumption DEF Typed, Begin, Last, Offsets
<1>2. Shaped(Unlocked(o, start, end))
  BY <1>1, UnlockedSound
<1>3. Shaped(added) /\ Cardinality(added) <= 1
  <2>1. CASE added = {}
    BY <2>1, FS_EmptySet DEF Shaped
  <2>2. ASSUME NEW type \in LockTypes,
               added = {[owner |-> o, type |-> type, start |-> start, end |-> end]}
        PROVE  Shaped(added) /\ Cardinality(added) <= 1
    <3>1. Cardinality(added) = 1
      BY <2>2, FS_Singleton
    <3> QED BY <1>1, <2>2, <3>1 DEF Shaped, FileLock
  <2> QED BY <2>1, <2>2
<1>4. request' = [stage |-> "carved", kept |-> Unlocked(o, start, end), added |-> added]
      /\ UNCHANGED <<locks, releases>>
  BY DEF Begin
<1>5. /\ request' \in Requests
      /\ request'.kept = Unlocked(o, start, end) /\ request'.added = added
  BY <1>2, <1>3, <1>4 DEF Requests, Shaped
<1>6. TypeOK'
  BY <1>3, <1>4, <1>5 DEF Typed, TypeOK
<1> QED BY <1>2, <1>3, <1>4, <1>5, <1>6 DEF Typed, Shaped

LEMMA ReplaceListTyped == ASSUME Typed, ReplaceList PROVE Typed'
<1>1. /\ request # Idle /\ request \in Requests /\ Cardinality(request.added) <= 1
      /\ Shaped(request.kept) /\ Shaped(request.added)
  BY DEF ReplaceList, Typed, TypeOK
<1>2. locks' = request.kept /\ releases' = releases
  BY DEF ReplaceList
<1>3. \/ request' = Idle
      \/ /\ request' \in Requests
         /\ request'.kept = request.kept /\ request'.added = request.added
  BY <1>1 DEF ReplaceList, Requests
<1>4. locks' \subseteq FileLock /\ \A l \in locks' : l.end # None => l.start <= l.end
  BY <1>1, <1>2 DEF Shaped, Last
<1>5. TypeOK'
  BY <1>1, <1>2, <1>3, <1>4 DEF Typed, TypeOK
<1> QED BY <1>1, <1>2, <1>3, <1>5 DEF Typed, Shaped

LEMMA AppendLockTyped == ASSUME Typed, AppendLock PROVE Typed'
<1>1. Shaped(request.added) /\ locks' = locks \cup request.added
      /\ request' = Idle /\ releases' = releases
  BY DEF AppendLock, Typed
<1>2. locks' \subseteq FileLock /\ \A l \in locks' : l.end # None => l.start <= l.end
  BY <1>1 DEF Typed, TypeOK, Shaped, Last
<1>3. TypeOK'
  BY <1>1, <1>2 DEF Typed, TypeOK
<1> QED BY <1>1, <1>3 DEF Typed, Shaped

LEMMA ReleaseOwnerTyped == ASSUME Typed, NEW o \in Owners, ReleaseOwner(o) PROVE Typed'
<1> DEFINE rest == {l \in locks : l.owner # o}
           new == [owner |-> o, kept |-> rest]
<1>1. releases' = releases \cup {new} /\ UNCHANGED <<locks, request>>
  BY DEF ReleaseOwner
<1>2. Shaped(rest)
  BY TypesShape DEF Typed, Shaped
<1>3. new \in Releases /\ new.kept = rest
  BY <1>2 DEF Releases, Shaped
<1> HIDE DEF rest, new
<1>4. TypeOK'
  BY <1>1, <1>3 DEF Typed, TypeOK
<1> QED BY <1>1, <1>2, <1>3, <1>4 DEF Typed, Shaped

LEMMA ReleaseListTyped == ASSUME Typed, ReleaseList PROVE Typed'
<1>1. PICK r \in releases : locks' = r.kept /\ releases' = releases \ {r} /\ UNCHANGED request
  BY DEF ReleaseList
<1>2. Shaped(r.kept)
  BY DEF Typed
<1>3. locks' \subseteq FileLock /\ \A l \in locks' : l.end # None => l.start <= l.end
  BY <1>1, <1>2 DEF Shaped, Last
<1>4. TypeOK'
  BY <1>1, <1>3 DEF Typed, TypeOK
<1> QED BY <1>1, <1>4 DEF Typed, Shaped

LEMMA SpecTyped == Spec => []Typed
<1>1. Init => Typed
  BY DEF Init, Typed, TypeOK
<1>2. Typed /\ [Next]_vars => Typed'
  <2> SUFFICES ASSUME Typed, [Next]_vars PROVE Typed'
    OBVIOUS
  <2>1. ASSUME NEW o \in Owners, NEW start \in Offsets, NEW end \in Ends, Unlock(o, start, end)
        PROVE  Typed'
    BY <2>1, BeginTyped DEF Unlock
  <2>2. ASSUME NEW o \in Owners, NEW start \in Offsets, NEW end \in Ends,
               NEW type \in LockTypes, SetLock(o, type, start, end)
        PROVE  Typed'
    BY <2>2, BeginTyped DEF SetLock
  <2>3. CASE ReplaceList
    BY <2>3, ReplaceListTyped
  <2>4. CASE AppendLock
    BY <2>4, AppendLockTyped
  <2>5. ASSUME NEW o \in Owners, ReleaseOwner(o) PROVE Typed'
    BY <2>5, ReleaseOwnerTyped
  <2>6. CASE ReleaseList
    BY <2>6, ReleaseListTyped
  <2>7. CASE UNCHANGED vars
    BY <2>7 DEF vars, Typed, TypeOK, Shaped
  <2> QED BY <2>1, <2>2, <2>3, <2>4, <2>5, <2>6, <2>7 DEF Next
<1> QED BY <1>1, <1>2, PTL DEF Spec

\* The list and what calls are about to install keep their types; every piece
\* a split leaves is a range of the file (locks.py).
THEOREM LocksTypeOK == Spec => []TypeOK
<1>1. Typed => TypeOK
  BY DEF Typed
<1> QED BY <1>1, SpecTyped, PTL

(***************************************************************************)
(* Disjoint locks.                                                         *)
(***************************************************************************)
\* No release installs its list after a request has replaced the list and before
\* it appends the new lock: what the release brings back was not carved for it.
NotWithin == ReleaseList => request = Idle \/ request.stage # "replaced"

\* Every list that is in place, or about to be, has disjoint locks.
ListsApart ==
  /\ Apart(locks)
  /\ \A r \in releases : Apart(r.kept)
  /\ request # Idle /\ request.stage = "carved" => Apart(request.kept \cup request.added)
  /\ request # Idle /\ request.stage = "replaced" => Apart(locks \cup request.added)

LEMMA SubsetApart == ASSUME NEW S, NEW R \in SUBSET S, Apart(S) PROVE Apart(R)
  BY DEF Apart

LEMMA BeginApart ==
  ASSUME Typed, ListsApart, NEW o \in Owners, NEW start \in Offsets, NEW end \in Ends,
         NEW added, Begin(o, start, end, added),
         \/ added = {}
         \/ \E type \in LockTypes :
              /\ added = {[owner |-> o, type |-> type, start |-> start, end |-> end]}
              /\ Conflict(o, type, start, end) = {}
  PROVE  ListsApart'
<1>1. start <= Last(end) /\ Shaped(locks) /\ Apart(locks)
  BY TypesShape, MaxOffsetAssumption DEF Typed, ListsApart, Begin, Last, Offsets
<1>2. Apart(Unlocked(o, start, end) \cup added)
  <2>1. CASE added = {}
    BY <1>1, <2>1, UnlockedSound
  <2>2. ASSUME NEW type \in LockTypes,
               added = {[owner |-> o, type |-> type, start |-> start, end |-> end]},
               Conflict(o, type, start, end) = {}
        PROVE  Apart(Unlocked(o, start, end) \cup added)
    BY <1>1, <2>2, GrantedApart
  <2> QED BY <2>1, <2>2
<1>3. /\ request' = [stage |-> "carved", kept |-> Unlocked(o, start, end), added |-> added]
      /\ UNCHANGED <<locks, releases>>
  BY DEF Begin
<1>4. /\ request'.stage = "carved" /\ request'.kept = Unlocked(o, start, end)
      /\ request'.added = added
  BY <1>3
<1> QED BY <1>2, <1>3, <1>4 DEF ListsApart, Apart, Overlaps, Last

LEMMA ReplaceListApart == ASSUME Typed, ListsApart, ReplaceList PROVE ListsApart'
<1>1. /\ request # Idle /\ request \in Requests /\ Apart(request.kept \cup request.added)
      /\ locks' = request.kept /\ releases' = releases
  BY DEF ReplaceList, Typed, TypeOK, ListsApart
<1>2. \/ request' = Idle
      \/ request'.stage = "replaced" /\ request'.added = request.added
  BY <1>1 DEF ReplaceList, Requests
<1>3. Apart(request.kept)
  BY <1>1, SubsetApart
<1> QED BY <1>1, <1>2, <1>3 DEF ListsApart, Apart, Overlaps, Last

\* However locks were split and converted, no byte carries two locks of one
\* owner, nor a write lock beside any other (_unlock before the append), whenever
\* handles are closed, as long as no release installs its list within a request
\* (between the two steps of its change of the list).
THEOREM LocksKeptDisjoint == Spec /\ [][NotWithin]_vars => []LocksDisjoint
<1>1. Init => ListsApart
  BY DEF Init, ListsApart, Apart
<1>2. Typed /\ ListsApart /\ [Next]_vars /\ [NotWithin]_vars => ListsApart'
  <2> SUFFICES ASSUME Typed, ListsApart, [Next]_vars, [NotWithin]_vars PROVE ListsApart'
    OBVIOUS
  <2>1. ASSUME NEW o \in Owners, NEW start \in Offsets, NEW end \in Ends, Unlock(o, start, end)
        PROVE  ListsApart'
    BY <2>1, BeginApart DEF Unlock
  <2>2. ASSUME NEW o \in Owners, NEW start \in Offsets, NEW end \in Ends,
               NEW type \in LockTypes, SetLock(o, type, start, end)
        PROVE  ListsApart'
    BY <2>2, BeginApart DEF SetLock
  <2>3. CASE ReplaceList
    BY <2>3, ReplaceListApart
  <2>4. CASE AppendLock
    BY <2>4 DEF AppendLock, ListsApart, Apart, Overlaps, Last
  <2>5. ASSUME NEW o \in Owners, ReleaseOwner(o) PROVE ListsApart'
    <3> DEFINE rest == {l \in locks : l.owner # o}
               new == [owner |-> o, kept |-> rest]
    <3>1. releases' = releases \cup {new} /\ UNCHANGED <<locks, request>> /\ new.kept = rest
      BY <2>5 DEF ReleaseOwner
    <3>2. Apart(rest)
      BY SubsetApart DEF ListsApart
    <3> HIDE DEF rest, new
    <3> QED BY <3>1, <3>2 DEF ListsApart, Apart, Overlaps, Last
  <2>6. CASE ReleaseList
    <3>1. CASE UNCHANGED vars
      BY <3>1 DEF vars, ListsApart, Apart, Overlaps, Last
    <3>2. CASE NotWithin
      <4>1. PICK r \in releases : locks' = r.kept /\ releases' = releases \ {r} /\ UNCHANGED request
        BY <2>6 DEF ReleaseList
      <4>2. request = Idle \/ request.stage # "replaced"
        BY <2>6, <3>2 DEF NotWithin
      <4> QED BY <4>1, <4>2 DEF ListsApart, Apart, Overlaps, Last
    <3> QED BY <3>1, <3>2
  <2>7. CASE UNCHANGED vars
    BY <2>7 DEF vars, ListsApart, Apart, Overlaps, Last
  <2> QED BY <2>1, <2>2, <2>3, <2>4, <2>5, <2>6, <2>7 DEF Next
<1>3. ListsApart => LocksDisjoint
  BY DEF ListsApart, Apart, LocksDisjoint, Table
<1> QED BY <1>1, <1>2, <1>3, SpecTyped, PTL DEF Spec

(***************************************************************************)
(* The invariant for the implementation of byte locks.                     *)
(***************************************************************************)
\* Nobody holds a list that he read before the present one was installed, so no
\* change of the list is undone by an older one.
NothingLost ==
  ReplaceList \/ AppendLock \/ ReleaseList =>
    releases' = {} /\ (request' = Idle \/ request'.stage = "replaced")

LEMMA InitIInv == Init => IInv
  BY DEF Init, IInv, TypeOK, Table, Shaped, Apart, RequestFits, ReleaseFits

\* A request begins: the table is what it was.
LEMMA BeginIInv ==
  ASSUME IInv, NEW o \in Owners, NEW start \in Offsets, NEW end \in Ends,
         NEW added, Begin(o, start, end, added),
         \/ added = {}
         \/ \E type \in LockTypes :
              /\ added = {[owner |-> o, type |-> type, start |-> start, end |-> end]}
              /\ Conflict(o, type, start, end) = {}
  PROVE  IInv' /\ Table' = Table
<1>1. request = Idle
  BY DEF Begin
<1>2. Table = locks /\ Shaped(locks) /\ Apart(locks)
  BY <1>1 DEF IInv, Table
<1>3. start <= Last(end)
  BY MaxOffsetAssumption DEF Begin, Last, Offsets
<1>4. Unlocked(o, start, end) \subseteq FileLock
  BY <1>2, <1>3, UnlockedSound DEF Shaped
<1>5. added \subseteq FileLock /\ Cardinality(added) <= 1
  <2>1. CASE added = {}
    BY <2>1, FS_EmptySet
  <2>2. ASSUME NEW type \in LockTypes,
               added = {[owner |-> o, type |-> type, start |-> start, end |-> end]}
        PROVE  added \subseteq FileLock /\ Cardinality(added) <= 1
    <3>1. Cardinality(added) = 1
      BY <2>2, FS_Singleton
    <3> QED BY <2>2, <3>1 DEF FileLock
  <2> QED BY <2>1, <2>2
<1>6. request' = [stage |-> "carved", kept |-> Unlocked(o, start, end), added |-> added]
      /\ UNCHANGED <<locks, releases>>
  BY DEF Begin
<1>7. request' \in Requests /\ request' # Idle
  BY <1>4, <1>5, <1>6, IdleAssumption DEF Requests
<1>8. /\ request'.stage = "carved" /\ request'.kept = Unlocked(o, start, end)
      /\ request'.added = added
  BY <1>6
<1>9. TypeOK'
  BY <1>5, <1>6, <1>7, <1>8 DEF IInv, TypeOK
<1>10. Table' = Table
  BY <1>2, <1>6, <1>8 DEF Table
<1>11. RequestFits'
  <2>1. Unlocked(o, start, end)' = Unlocked(o, start, end)
        /\ \A type \in LockTypes : Conflict(o, type, start, end)' = Conflict(o, type, start, end)
    BY <1>6 DEF Unlocked, Conflict
  <2> QED BY <1>1, <1>3, <1>6, <1>8, <2>1 DEF RequestFits
<1>12. ReleaseFits'
  BY <1>6 DEF IInv, ReleaseFits
<1>13. Shaped(Table)' /\ Apart(Table)'
  BY <1>10 DEF IInv, Shaped, Apart
<1> QED BY <1>9, <1>10, <1>11, <1>12, <1>13 DEF IInv

\* The list is replaced: the table is what the request promised.
LEMMA ReplaceListTable ==
  ASSUME IInv, ReplaceList
  PROVE  \E o \in Owners, start \in Offsets, end \in Ends :
           /\ start <= Last(end) /\ Shaped(locks) /\ Apart(locks) /\ Table = locks
           /\ Table' = Unlocked(o, start, end) \cup request.added
           /\ \/ request.added = {}
              \/ \E type \in LockTypes :
                   /\ request.added = {[owner |-> o, type |-> type, start |-> start, end |-> end]}
                   /\ Conflict(o, type, start, end) = {}
<1>1. request # Idle /\ request.stage = "carved" /\ request \in Requests
  BY DEF ReplaceList, IInv, TypeOK
<1>2. Table = locks
  BY <1>1 DEF Table
<1>3. PICK o \in Owners, start \in Offsets, end \in Ends :
        /\ start <= Last(end) /\ request.kept = Unlocked(o, start, end)
        /\ \/ request.added = {}
           \/ \E type \in LockTypes :
                /\ request.added = {[owner |-> o, type |-> type, start |-> start, end |-> end]}
                /\ Conflict(o, type, start, end) = {}
  BY <1>1 DEF IInv, RequestFits
<1>4. Table' = request.kept \cup request.added
  <2>1. CASE request.added = {}
    BY <2>1 DEF ReplaceList, Table
  <2>2. CASE request.added # {}
    <3>1. request' = [request EXCEPT !.stage = "replaced"] /\ locks' = request.kept
      BY <2>2 DEF ReplaceList
    <3>2. request' \in Requests /\ request'.stage = "replaced" /\ request'.added = request.added
      BY <1>1, <3>1 DEF Requests
    <3> QED BY <3>1, <3>2, IdleAssumption DEF Table
  <2> QED BY <2>1, <2>2
<1> QED BY <1>2, <1>3, <1>4 DEF IInv

LEMMA ReplaceListIInv == ASSUME IInv, ReplaceList, releases' = {} PROVE IInv'
<1>1. PICK o \in Owners, start \in Offsets, end \in Ends :
        /\ start <= Last(end) /\ Shaped(locks) /\ Apart(locks) /\ Table = locks
        /\ Table' = Unlocked(o, start, end) \cup request.added
        /\ \/ request.added = {}
           \/ \E type \in LockTypes :
                /\ request.added = {[owner |-> o, type |-> type, start |-> start, end |-> end]}
                /\ Conflict(o, type, start, end) = {}
  BY ReplaceListTable
<1>2. Shaped(Table') /\ Apart(Table')
  <2>1. CASE request.added = {}
    BY <1>1, <2>1, UnlockedSound
  <2>2. ASSUME NEW type \in LockTypes,
               request.added = {[owner |-> o, type |-> type, start |-> start, end |-> end]},
               Conflict(o, type, start, end) = {}
        PROVE  Shaped(Table') /\ Apart(Table')
    BY <1>1, <2>2, GrantedApart
  <2> QED BY <1>1, <2>1, <2>2
<1>3. request # Idle /\ request.stage = "carved" /\ request \in Requests
      /\ Cardinality(request.added) <= 1
  BY DEF ReplaceList, IInv, TypeOK
<1>4. \/ request' = Idle
      \/ request' \in Requests /\ request'.stage = "replaced" /\ request'.added = request.added
  <2>1. CASE request.added = {}
    BY <2>1 DEF ReplaceList
  <2>2. CASE request.added # {}
    BY <1>3, <2>2 DEF ReplaceList, Requests
  <2> QED BY <2>1, <2>2
<1>5. locks' \subseteq Table' /\ releases' = {}
  BY <1>3 DEF Table, ReplaceList
<1>6. TypeOK'
  BY <1>2, <1>3, <1>4, <1>5 DEF TypeOK, Shaped, Last
<1>7. RequestFits'
  BY <1>4, <1>5, IdleAssumption DEF RequestFits
<1>8. ReleaseFits'
  BY <1>5 DEF ReleaseFits
<1>9. Shaped(Table)' /\ Apart(Table)'
  BY <1>2 DEF Shaped, Apart, Overlaps, Last
<1> QED BY <1>6, <1>7, <1>8, <1>9 DEF IInv

LEMMA AppendLockIInv ==
  ASSUME IInv, AppendLock, releases' = {}
  PROVE  IInv' /\ Table' = Table
<1>1. request # Idle /\ request.stage = "replaced"
  BY DEF AppendLock
<1>2. locks' = Table /\ request' = Idle /\ releases' = {}
  BY <1>1 DEF AppendLock, Table
<1>3. Table' = Table
  BY <1>2 DEF Table
<1>4. Shaped(Table)' /\ Apart(Table)'
  BY <1>3 DEF IInv, Shaped, Apart, Overlaps, Last
<1>5. TypeOK'
  BY <1>2 DEF IInv, TypeOK, Shaped, Last
<1> QED BY <1>2, <1>3, <1>4, <1>5 DEF IInv, RequestFits, ReleaseFits

LEMMA ReleaseOwnerIInv ==
  ASSUME IInv, NEW o \in Owners, ReleaseOwner(o)
  PROVE  IInv' /\ Table' = Table
<1>2. /\ releases' = releases \cup {[owner |-> o, kept |-> {l \in locks : l.owner # o}]}
      /\ UNCHANGED <<locks, request>>
  BY DEF ReleaseOwner
<1>3. Table' = Table
  BY <1>2 DEF Table
<1>4. Shaped(Table)' /\ Apart(Table)'
  BY <1>3 DEF IInv, Shaped, Apart
<1>5. TypeOK'
  BY <1>2 DEF IInv, TypeOK, Releases
<1>6. RequestFits' /\ ReleaseFits'
  <2>1. \A o1, start, end, type : Unlocked(o1, start, end)' = Unlocked(o1, start, end)
                                /\ Conflict(o1, type, start, end)' = Conflict(o1, type, start, end)
    BY <1>2 DEF Unlocked, Conflict
  <2>2. RequestFits'
    BY <1>2, <2>1 DEF IInv, RequestFits
  <2>3. ReleaseFits'
    BY <1>2 DEF IInv, ReleaseFits
  <2> QED BY <2>2, <2>3
<1> QED BY <1>3, <1>4, <1>5, <1>6 DEF IInv

\* The lock that a request is about to append.
Pending == IF request # Idle /\ request.stage = "replaced" THEN request.added ELSE {}

LEMMA ReleaseListTable ==
  ASSUME IInv, ReleaseList
  PROVE  /\ UNCHANGED request /\ locks' \subseteq locks /\ Table = locks \cup Pending
         /\ \E o \in Owners : Table' = {l \in locks : l.owner # o} \cup Pending
<1>1. PICK r \in releases : locks' = r.kept /\ releases' = releases \ {r} /\ UNCHANGED request
  BY DEF ReleaseList
<1>2. r.kept = {l \in locks : l.owner # r.owner} /\ r.owner \in Owners
  BY <1>1 DEF IInv, ReleaseFits, TypeOK, Releases
<1> QED BY <1>1, <1>2 DEF Table, Pending

LEMMA ReleaseListIInv ==
  ASSUME IInv, ReleaseList, releases' = {}, request' = Idle \/ request'.stage = "replaced"
  PROVE  IInv'
<1>1. UNCHANGED request /\ locks' \subseteq locks /\ Table' \subseteq Table
  BY ReleaseListTable
<1>2. Shaped(Table)' /\ Apart(Table)'
  BY <1>1 DEF IInv, Shaped, Apart, Overlaps, Last
<1>3. TypeOK'
  BY <1>1 DEF IInv, TypeOK
<1> QED BY <1>1, <1>2, <1>3 DEF IInv, RequestFits, ReleaseFits

LEMMA NextIInv == IInv /\ [Next]_vars /\ [NothingLost]_vars => IInv'
<1> SUFFICES ASSUME IInv, [Next]_vars, [NothingLost]_vars PROVE IInv'
  OBVIOUS
<1>1. ASSUME NEW o \in Owners, NEW start \in Offsets, NEW end \in Ends, Unlock(o, start, end)
      PROVE  IInv'
  BY <1>1, BeginIInv DEF Unlock
<1>2. ASSUME NEW o \in Owners, NEW start \in Offsets, NEW end \in Ends,
             NEW type \in LockTypes, SetLock(o, type, start, end)
      PROVE  IInv'
  BY <1>2, BeginIInv DEF SetLock
<1>3. CASE ReplaceList /\ NothingLost
  BY <1>3, ReplaceListIInv DEF NothingLost
<1>4. CASE AppendLock /\ NothingLost
  BY <1>4, AppendLockIInv DEF NothingLost
<1>5. ASSUME NEW o \in Owners, ReleaseOwner(o) PROVE IInv'
  BY <1>5, ReleaseOwnerIInv
<1>6. CASE ReleaseList /\ NothingLost
  BY <1>6, ReleaseListIInv DEF NothingLost
<1>7. CASE UNCHANGED vars
  BY <1>7 DEF vars, IInv, TypeOK, Table, Shaped, Apart, RequestFits, ReleaseFits,
     Unlocked, Conflict
<1> QED BY <1>1, <1>2, <1>3, <1>4, <1>5, <1>6, <1>7 DEF Next

\* The setting of the run: if no handle is closed beside another call, neither of
\* the two steps happens.
LEMMA QuietNothingLost ==
  ASSUME ~ReleaseBetween PROVE Spec => [][NotWithin /\ NothingLost]_vars
<1> DEFINE OneCall == /\ request = Idle \/ releases = {}
                      /\ \A r, s \in releases : r = s
<1>1. Init => OneCall
  BY DEF Init
<1>2. OneCall /\ [Next]_vars => OneCall'
  <2> SUFFICES ASSUME OneCall, [Next]_vars PROVE OneCall'
    OBVIOUS
  <2>1. CASE UNCHANGED vars
    BY <2>1 DEF vars
  <2>2. CASE Next
    BY <2>2 DEF Next, Unlock, SetLock, Begin, Admitted, Quiet, ReplaceList, AppendLock,
      ReleaseOwner, ReleaseList
  <2> QED BY <2>1, <2>2
<1>3. Typed /\ OneCall /\ [Next]_vars => [NotWithin /\ NothingLost]_vars
  <2> SUFFICES ASSUME Typed, OneCall PROVE NotWithin /\ NothingLost
    OBVIOUS
  <2>1. ReleaseList => request = Idle /\ request' = Idle /\ releases' = {}
    BY DEF ReleaseList
  <2>2. AppendLock => releases' = {} /\ request' = Idle
    BY DEF AppendLock
  <2>3. ReplaceList => releases' = {} /\ (request' = Idle \/ request'.stage = "replaced")
    BY DEF ReplaceList, Typed, TypeOK, Requests
  <2> QED BY <2>1, <2>2, <2>3 DEF NotWithin, NothingLost
<1> QED BY <1>1, <1>2, <1>3, SpecTyped, PTL DEF Spec

(***************************************************************************)
(* Byte by byte.                                                           *)
(***************************************************************************)
\* How owner o holds byte b in a table: Held is Mode of the present one.
Mode(S, o, b) ==
  IF \E l \in S : l.owner = o /\ l.type = "write" /\ Covers(l, b) THEN "write"
  ELSE IF \E l \in S : l.owner = o /\ Covers(l, b) THEN "read"
  ELSE "none"

LEMMA HeldIsMode ==
  Held = [o \in Owners |-> [b \in Offsets |-> Mode(Table, o, b)]]
  BY DEF Held, Mode

\* A conflict is a byte that somebody else holds in a conflicting mode.
LEMMA ConflictIsByte ==
  ASSUME Shaped(locks), NEW o \in Owners, NEW type \in LockTypes,
         NEW start \in Offsets, NEW end \in Ends, start <= Last(end)
  PROVE  (Conflict(o, type, start, end) # {}) <=>
           \E p \in Owners \ {o}, b \in start .. Last(end) :
             ~Abstract!Compatible(type, Mode(locks, p, b))
<1>0. start \in 0 .. MaxOffset /\ Last(end) \in 0 .. MaxOffset /\ MaxOffset \in Nat
  BY LastType, MaxOffsetAssumption DEF Offsets
<1>1. ASSUME NEW l \in Conflict(o, type, start, end)
      PROVE  \E p \in Owners \ {o}, b \in start .. Last(end) :
               ~Abstract!Compatible(type, Mode(locks, p, b))
  <2>1. /\ l \in locks /\ l.owner # o /\ ~(l.type = "read" /\ type = "read")
        /\ l.start <= Last(end) /\ start <= Last(l.end)
    BY DEF Conflict, Overlaps
  <2>2. /\ l.owner \in Owners \ {o} /\ l.start \in 0 .. MaxOffset
        /\ Last(l.end) \in 0 .. MaxOffset /\ l.start <= Last(l.end) /\ l.type \in LockTypes
    BY <2>1, LastType DEF Shaped, FileLock, Offsets
  <2>3. PICK b : b = IF l.start <= start THEN start ELSE l.start
    OBVIOUS
  <2>4. b \in start .. Last(end) /\ Covers(l, b)
    BY <1>0, <2>1, <2>2, <2>3 DEF Covers
  <2>5. Mode(locks, l.owner, b) # "none"
        /\ (l.type = "write" => Mode(locks, l.owner, b) = "write")
    BY <2>1, <2>4 DEF Mode
  <2>6. ~Abstract!Compatible(type, Mode(locks, l.owner, b))
    BY <2>1, <2>2, <2>5 DEF Abstract!Compatible, LockTypes
  <2> QED BY <2>2, <2>4, <2>6
<1>2. ASSUME NEW p \in Owners \ {o}, NEW b \in start .. Last(end),
             ~Abstract!Compatible(type, Mode(locks, p, b))
      PROVE  Conflict(o, type, start, end) # {}
  <2>1. PICK l \in locks : /\ l.owner = p /\ Covers(l, b)
                           /\ ~(type = "read" /\ l.type = "read")
    <3>1. CASE Mode(locks, p, b) = "write"
      <4>1. PICK l \in locks : l.owner = p /\ l.type = "write" /\ Covers(l, b)
        BY <3>1 DEF Mode
      <4> QED BY <4>1
    <3>2. CASE Mode(locks, p, b) # "write"
      <4>1. Mode(locks, p, b) = "read" /\ type # "read"
        BY <1>2, <3>2 DEF Mode, Abstract!Compatible
      <4>2. PICK l \in locks : l.owner = p /\ Covers(l, b)
        BY <4>1 DEF Mode
      <4> QED BY <4>1, <4>2
    <3> QED BY <3>1, <3>2
  <2>2. l.start \in 0 .. MaxOffset /\ Last(l.end) \in 0 .. MaxOffset
    BY LastType DEF Shaped, FileLock, Offsets
  <2>3. Overlaps(l, start, end)
    BY <1>0, <2>1, <2>2 DEF Covers, Overlaps
  <2> QED BY <2>1, <2>3 DEF Conflict
<1> QED BY <1>1, <1>2

\* A request is refused, and F_GETLK reports a conflict, exactly if another
\* owner holds a byte of the range in a conflicting mode (_conflict).
THEOREM LocksRefusalsJustified == Spec => []RefusalsJustified
<1>1. TypeOK => RefusalsJustified
  <2> SUFFICES ASSUME TypeOK, NEW o \in Owners, NEW type \in LockTypes, NEW start \in Offsets,
                      NEW end \in Ends, end = None \/ start <= end, Quiet
               PROVE  (Conflict(o, type, start, end) # {}) <=>
                        \E p \in Owners \ {o}, b \in start .. Last(end) :
                          ~Abstract!Compatible(type, Held[p][b])
    BY DEF RefusalsJustified
  <2>1. Table = locks /\ Shaped(locks)
    BY TypesShape DEF Quiet, Table
  <2>2. start <= Last(end) /\ start .. Last(end) \subseteq Offsets
    BY LastType, MaxOffsetAssumption DEF Last, Offsets
  <2>3. \A p \in Owners, b \in start .. Last(end) : Held[p][b] = Mode(locks, p, b)
    BY <2>1, <2>2, HeldIsMode
  <2> QED BY <2>1, <2>2, <2>3, ConflictIsByte
<1> QED BY <1>1, LocksTypeOK, PTL

(***************************************************************************)
(* The refinement.                                                         *)
(***************************************************************************)
LEMMA HeldInit == Init => Abstract!Init
<1> SUFFICES ASSUME Init PROVE Abstract!Init
  OBVIOUS
<1>1. Table = {}
  BY DEF Init, Table
<1>2. \A o \in Owners, b \in Offsets : Mode(Table, o, b) = "none"
  BY <1>1 DEF Mode
<1> QED BY <1>2, HeldIsMode DEF Abstract!Init

\* A table that stays as it is, a stutter of ByteLocks.
LEMMA SameTable == Table' = Table => Held' = Held
<1>1. Held' = [o \in Owners |-> [b \in Offsets |-> Mode(Table', o, b)]]
  BY HeldIsMode DEF Held, Mode, Covers, Last
<1> QED BY <1>1, HeldIsMode

\* A new table in which one owner holds one range in another mode.
LEMMA GiveByModes ==
  ASSUME NEW o \in Owners, NEW range \in SUBSET Offsets, NEW mode,
         \A p \in Owners, b \in Offsets :
           Mode(Table', p, b) = IF p = o /\ b \in range THEN mode ELSE Mode(Table, p, b)
  PROVE  Abstract!Give(o, range, mode)
<1>1. Held' = [p \in Owners |-> [b \in Offsets |-> Mode(Table', p, b)]]
  BY DEF Held, Mode, Covers, Last
<1>2. \A p \in Owners : p # o =>
        [b \in Offsets |-> Mode(Table', p, b)] = [b \in Offsets |-> Mode(Table, p, b)]
  OBVIOUS
<1>3. [b \in Offsets |-> Mode(Table', o, b)] =
        [b \in Offsets |-> IF b \in range THEN mode ELSE Mode(Table, o, b)]
  OBVIOUS
<1>4. Held[o] = [b \in Offsets |-> Mode(Table, o, b)]
  BY HeldIsMode
<1>5. Held' = [Held EXCEPT ![o] = [b \in Offsets |-> IF b \in range THEN mode ELSE Held[o][b]]]
  BY <1>1, <1>2, <1>3, <1>4, HeldIsMode
<1> QED BY <1>5 DEF Abstract!Give

\* What a request makes of the modes: the owner's bytes in the range are
\* those of the new lock, and no other byte of anybody changes.
LEMMA RequestModes ==
  ASSUME Shaped(locks), NEW o \in Owners, NEW start \in Offsets, NEW end \in Ends,
         start <= Last(end), NEW added, NEW p \in Owners, NEW b \in Offsets,
         \A l \in added : l.owner = o /\ l.start = start /\ l.end = end
  PROVE  Mode(Unlocked(o, start, end) \cup added, p, b) =
           IF p = o /\ b \in start .. Last(end) THEN Mode(added, o, b) ELSE Mode(locks, p, b)
<1> DEFINE kept == Unlocked(o, start, end)
<1>0. start \in 0 .. MaxOffset /\ Last(end) \in 0 .. MaxOffset /\ b \in 0 .. MaxOffset
  BY LastType DEF Offsets
<1>1. /\ Shaped(kept)
      /\ \A k \in kept : \E l \in locks : Inside(k, l)
      /\ \A k \in kept : k.owner = o => Last(k.end) < start \/ Last(end) < k.start
      /\ \A k : k.owner # o => (k \in kept <=> k \in locks)
      /\ \A l \in locks : Covers(l, b) /\ ~(start <= b /\ b <= Last(end)) =>
           \E k \in kept : k.owner = l.owner /\ k.type = l.type /\ Covers(k, b)
  BY UnlockedSound
<1> HIDE DEF kept
<1>2. CASE p = o /\ b \in start .. Last(end)
  <2>1. \A k \in kept : k.owner = o => ~Covers(k, b)
    <3> SUFFICES ASSUME NEW k \in kept, k.owner = o PROVE ~Covers(k, b)
      OBVIOUS
    <3>1. k.start \in 0 .. MaxOffset /\ Last(k.end) \in 0 .. MaxOffset
      BY <1>1, LastType DEF Shaped, FileLock, Offsets
    <3> QED BY <1>0, <1>1, <1>2, <3>1, MaxOffsetAssumption DEF Covers
  <2>2. Mode(kept \cup added, p, b) = Mode(added, o, b)
    BY <1>2, <2>1 DEF Mode
  <2> QED BY <1>2, <2>2 DEF kept
<1>3. CASE p # o
  <2>1. \A k : k.owner = p => (k \in kept \cup added <=> k \in locks)
    BY <1>1, <1>3
  <2>2. Mode(kept \cup added, p, b) = Mode(locks, p, b)
    BY <2>1 DEF Mode
  <2> QED BY <1>3, <2>2 DEF kept
<1>4. CASE p = o /\ b \notin start .. Last(end)
  <2>1. \A k \in added : ~Covers(k, b)
    BY <1>0, <1>4, MaxOffsetAssumption DEF Covers
  <2>2. ~(start <= b /\ b <= Last(end))
    BY <1>0, <1>4, MaxOffsetAssumption
  <2>3. \A l \in locks : l.owner = o /\ Covers(l, b) =>
          \E k \in kept : k.owner = o /\ k.type = l.type /\ Covers(k, b)
    BY <1>1, <2>2
  <2>4. \A k \in kept : k.owner = o /\ Covers(k, b) =>
          \E l \in locks : l.owner = o /\ l.type = k.type /\ Covers(l, b)
    <3> SUFFICES ASSUME NEW k \in kept, k.owner = o, Covers(k, b)
                 PROVE  \E l \in locks : l.owner = o /\ l.type = k.type /\ Covers(l, b)
      OBVIOUS
    <3>1. PICK l \in locks : Inside(k, l)
      BY <1>1
    <3>2. /\ k.start \in 0 .. MaxOffset /\ Last(k.end) \in 0 .. MaxOffset
          /\ l.start \in 0 .. MaxOffset /\ Last(l.end) \in 0 .. MaxOffset
      BY <1>1, LastType DEF Shaped, FileLock, Offsets
    <3>3. l.owner = o /\ l.type = k.type /\ Covers(l, b)
      BY <1>0, <3>1, <3>2, MaxOffsetAssumption DEF Inside, Covers
    <3> QED BY <3>3
  <2>5. Mode(kept \cup added, o, b) = Mode(locks, o, b)
    BY <2>1, <2>3, <2>4 DEF Mode
  <2> QED BY <1>4, <2>5 DEF kept
<1> QED BY <1>2, <1>3, <1>4

LEMMA ReplaceListImplements == ASSUME IInv, ReplaceList PROVE Abstract!Next
<1>1. PICK o \in Owners, start \in Offsets, end \in Ends :
        /\ start <= Last(end) /\ Shaped(locks) /\ Apart(locks) /\ Table = locks
        /\ Table' = Unlocked(o, start, end) \cup request.added
        /\ \/ request.added = {}
           \/ \E type \in LockTypes :
                /\ request.added = {[owner |-> o, type |-> type, start |-> start, end |-> end]}
                /\ Conflict(o, type, start, end) = {}
  BY ReplaceListTable
<1> DEFINE range == start .. Last(end)
<1>2. range \in SUBSET Offsets
  BY LastType, MaxOffsetAssumption DEF Offsets
<1>3. CASE request.added = {}
  <2>1. \A b \in Offsets : Mode(request.added, o, b) = "none"
    BY <1>3 DEF Mode
  <2>2. \A p \in Owners, b \in Offsets :
          Mode(Table', p, b) = IF p = o /\ b \in range THEN "none" ELSE Mode(Table, p, b)
    BY <1>1, <1>3, <2>1, RequestModes
  <2>3. Abstract!Give(o, range, "none")
    BY <1>2, <2>2, GiveByModes
  <2> QED BY <1>2, <2>3 DEF Abstract!Next
<1>4. ASSUME NEW type \in LockTypes,
             request.added = {[owner |-> o, type |-> type, start |-> start, end |-> end]},
             Conflict(o, type, start, end) = {}
      PROVE  Abstract!Next
  <2>1. \A b \in range : Mode(request.added, o, b) = type
    <3> SUFFICES ASSUME NEW b \in range PROVE Mode(request.added, o, b) = type
      OBVIOUS
    <3>1. b \in start .. Last(end) /\ start \in Int /\ Last(end) \in Int
      BY LastType DEF Offsets
    <3>2. start <= b /\ b <= Last(end)
      BY <3>1
    <3>3. \A l \in request.added : l.owner = o /\ l.type = type /\ Covers(l, b)
      BY <1>4, <3>2 DEF Covers
    <3>4. \E l \in request.added : TRUE
      BY <1>4
    <3> QED BY <3>3, <3>4 DEF Mode, LockTypes
  <2>2. \A l \in request.added : l.owner = o /\ l.start = start /\ l.end = end
    BY <1>4
  <2>3. \A p \in Owners, b \in Offsets :
          Mode(Table', p, b) = IF p = o /\ b \in range THEN type ELSE Mode(Table, p, b)
    BY <1>1, <2>1, <2>2, RequestModes
  <2>4. Abstract!Give(o, range, type)
    BY <1>2, <2>3, GiveByModes
  <2>5. \A p \in Owners \ {o}, b \in range : Abstract!Compatible(type, Held[p][b])
    <3>1. \A p \in Owners, b \in range : Held[p][b] = Mode(locks, p, b)
      BY <1>1, <1>2, HeldIsMode
    <3> QED BY <1>1, <1>4, <3>1, ConflictIsByte
  <2> QED BY <1>2, <2>4, <2>5 DEF Abstract!Next, Abstract!Acquire, LockTypes
<1> QED BY <1>1, <1>3, <1>4

\* A release takes every byte of its owner, but for those of a lock that is about
\* to be appended.
LEMMA ReleaseListImplements == ASSUME IInv, ReleaseList PROVE Abstract!Next
<1>1. PICK o \in Owners : /\ Table = locks \cup Pending
                          /\ Table' = {l \in locks : l.owner # o} \cup Pending
  BY ReleaseListTable
<1> DEFINE Spared(b) == \E l \in Pending : l.owner = o /\ Covers(l, b)
           range == {b \in Offsets : ~Spared(b)}
<1>2. \A p \in Owners, b \in Offsets :
        Mode(Table', p, b) = IF p = o /\ b \in range THEN "none" ELSE Mode(Table, p, b)
  <2> SUFFICES ASSUME NEW p \in Owners, NEW b \in Offsets
               PROVE  Mode(Table', p, b) = IF p = o /\ b \in range THEN "none" ELSE Mode(Table, p, b)
    OBVIOUS
  <2>1. CASE p # o
    <3>1. \A l : l.owner = p => (l \in Table' <=> l \in Table)
      BY <1>1, <2>1
    <3> QED BY <2>1, <3>1 DEF Mode
  <2>2. CASE p = o /\ ~Spared(b)
    <3>1. \A l \in Table' : l.owner = p => ~Covers(l, b)
      BY <1>1, <2>2
    <3> QED BY <2>2, <3>1 DEF Mode
  <2>3. CASE p = o /\ Spared(b)
    <3>1. PICK k \in Pending : k.owner = o /\ Covers(k, b)
      BY <2>3
    <3>2. \A l \in Table : l.owner = o /\ Covers(l, b) => l = k
      <4> SUFFICES ASSUME NEW l \in Table, l.owner = o, Covers(l, b), l # k PROVE FALSE
        OBVIOUS
      <4>1. l \in FileLock /\ k \in FileLock /\ k \in Table
        BY <1>1 DEF IInv, Shaped
      <4>2. /\ l.start \in 0 .. MaxOffset /\ Last(l.end) \in 0 .. MaxOffset
            /\ k.start \in 0 .. MaxOffset /\ Last(k.end) \in 0 .. MaxOffset /\ b \in 0 .. MaxOffset
        BY <4>1, LastType DEF FileLock, Offsets
      <4>3. Overlaps(l, k.start, k.end)
        BY <3>1, <4>2, MaxOffsetAssumption DEF Covers, Overlaps
      <4> QED BY <3>1, <4>1, <4>3 DEF IInv, Apart
    <3>3. \A l : l.owner = o /\ Covers(l, b) => (l \in Table <=> l = k) /\ (l \in Table' <=> l = k)
      BY <1>1, <3>1, <3>2
    <3> QED BY <2>3, <3>1, <3>3 DEF Mode
  <2> QED BY <2>1, <2>2, <2>3
<1>3. Abstract!Give(o, range, "none")
  BY <1>2, GiveByModes
<1>4. range \in SUBSET Offsets
  OBVIOUS
<1> QED BY <1>3, <1>4 DEF Abstract!Next

\* Byte by byte, the table does what POSIX locks promise: a request that is
\* granted conflicts with nobody and changes its own range only, and a release
\* takes away what its owner holds and nothing else (locks.py); as long as nobody
\* installs a list that was read before another call changed the table.
THEOREM LocksImplementByteLocks == Spec /\ [][NothingLost]_vars => ImplementsByteLocks
<1>1. IInv /\ [Next]_vars /\ [NothingLost]_vars => [Abstract!Next]_Held
  <2> SUFFICES ASSUME IInv, [Next]_vars, [NothingLost]_vars PROVE Abstract!Next \/ Held' = Held
    OBVIOUS
  <2>1. ASSUME NEW o \in Owners, NEW start \in Offsets, NEW end \in Ends, Unlock(o, start, end)
        PROVE  Held' = Held
    BY <2>1, BeginIInv, SameTable DEF Unlock
  <2>2. ASSUME NEW o \in Owners, NEW start \in Offsets, NEW end \in Ends,
               NEW type \in LockTypes, SetLock(o, type, start, end)
        PROVE  Held' = Held
    BY <2>2, BeginIInv, SameTable DEF SetLock
  <2>3. CASE ReplaceList
    BY <2>3, ReplaceListImplements
  <2>4. CASE AppendLock /\ NothingLost
    BY <2>4, AppendLockIInv, SameTable DEF NothingLost
  <2>5. ASSUME NEW o \in Owners, ReleaseOwner(o) PROVE Held' = Held
    BY <2>5, ReleaseOwnerIInv, SameTable
  <2>6. CASE ReleaseList
    BY <2>6, ReleaseListImplements
  <2>7. CASE UNCHANGED vars
    <3>1. Table' = Table
      BY <2>7 DEF vars, Table
    <3> QED BY <3>1, SameTable
  <2> QED BY <2>1, <2>2, <2>3, <2>4, <2>5, <2>6, <2>7 DEF Next
<1> QED
  BY <1>1, HeldInit, InitIInv, NextIInv, PTL DEF Spec, ImplementsByteLocks, Abstract!Spec
=============================================================================
