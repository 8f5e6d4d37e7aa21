--------------------------- MODULE AdvisoryLocks ----------------------------
(***************************************************************************)
(* The table of advisory locks of a mounted process, locks.py, with its    *)
(* callers _lock_inode (inode_fuse.py) and _release (file_ops.py), for the *)
(* locks of one inode: locks of different inodes never meet.               *)
(*                                                                         *)
(* Requests hold the file system's `_lock`, so there is one at a time.  It *)
(* reads the list of locks, replaces it by a list without the overlap, and *)
(* appends the new lock.  release_owner does not take `_lock`: it reads    *)
(* the list and replaces it whenever a handle is closed.                   *)
(***************************************************************************)
EXTENDS Integers, FiniteSets

CONSTANTS
  Owners,           \* lock owners: a uid and a pid
  MaxOffset,        \* bound: the last byte of a file, sys.maxsize
  None,             \* the end of a lock that reaches the end of the file
  Idle,             \* no request is under way
  ReleaseBetween    \* BOOLEAN: a handle may be closed beside another call

ASSUME MaxOffsetAssumption == MaxOffset \in Nat
ASSUME NoneAssumption == None \notin Int
ASSUME ReleaseBetweenAssumption == ReleaseBetween \in BOOLEAN

Offsets == 0 .. MaxOffset
LockTypes == {"read", "write"}                 \* F_RDLCK, F_WRLCK
\* A length of zero reaches the end of the file; a lock with a length ends
\* before the largest offset, which the kernel passes as a length of zero.
Ends == (0 .. MaxOffset - 1) \cup {None}
FileLock == [owner : Owners, type : LockTypes, start : Offsets, end : Ends]
Requests == [stage : {"carved", "replaced"}, kept : SUBSET FileLock, added : SUBSET FileLock]

Releases == [owner : Owners, kept : SUBSET FileLock]

ASSUME IdleAssumption == Idle \notin Requests

VARIABLES
  locks,        \* the records of the list `_locks`
  request,      \* what `apply` is about to do, between its accesses to `_locks`
  releases      \* the lists that calls of release_owner are about to install

vars == <<locks, request, releases>>

TypeOK ==
  /\ locks \subseteq FileLock
  /\ \A l \in locks : l.end # None => l.start <= l.end
  /\ request = Idle \/ (request \in Requests /\ Cardinality(request.added) <= 1)
  /\ releases \subseteq Releases

Init ==
  /\ locks = {}
  /\ request = Idle
  /\ releases = {}

(***************************************************************************)
(* Intervals.                                                              *)
(***************************************************************************)
Last(end) == IF end = None THEN MaxOffset ELSE end
Overlaps(l, start, end) == l.start <= Last(end) /\ start <= Last(l.end)
Covers(l, b) == l.start <= b /\ b <= Last(l.end)

\* A mutated form: the part behind the range is dropped.
CarvedInFrontOnly(l, start, end) ==
  IF l.start < start THEN {[l EXCEPT !.end = start - 1]} ELSE {}

\* A mutated form: an empty part in front is kept.
CarvedWithEmptyPart(l, start, end) ==
  (IF l.start <= start THEN {[l EXCEPT !.end = start - 1]} ELSE {})
  \cup
  (IF end # None /\ (l.end = None \/ l.end > end) THEN {[l EXCEPT !.start = end + 1]} ELSE {})

\* _unlock, for one lock that overlaps the range: what is left of it in front
\* of the range and behind it.
Carved(l, start, end) ==
  (IF l.start < start THEN {[l EXCEPT !.end = start - 1]} ELSE {})
  \cup
  (IF end # None /\ (l.end = None \/ l.end > end) THEN {[l EXCEPT !.start = end + 1]} ELSE {})

\* A mutated form: only locks inside the range give way.
UnlockedInside(owner, start, end) ==
  {l \in locks : ~(l.owner = owner /\ start <= l.start /\ Last(l.end) <= Last(end))}

\* _unlock: the list without the overlap of the owner's locks with the range.
Unlocked(owner, start, end) ==
  UNION {IF l.owner = owner /\ Overlaps(l, start, end) THEN Carved(l, start, end) ELSE {l} :
           l \in locks}

\* A mutated form: a lock that ends just before the range is in its way.
ConflictOfNeighbours(owner, type, start, end) ==
  {l \in locks : /\ l.owner # owner
                 /\ ~(l.type = "read" /\ type = "read")
                 /\ l.start <= Last(end) /\ start <= Last(l.end) + 1}

\* _conflict: the locks one of which makes a request fail, and of which
\* F_GETLK reports one.
Conflict(owner, type, start, end) ==
  {l \in locks : /\ l.owner # owner
                 /\ ~(l.type = "read" /\ type = "read")
                 /\ Overlaps(l, start, end)}

(***************************************************************************)
(* Calls.                                                                  *)
(***************************************************************************)
Quiet == request = Idle /\ releases = {}
Admitted == ReleaseBetween \/ Quiet

\* F_SETLK and F_SETLKW, neither of which waits: without a conflict the owner's
\* overlapping locks are to give way to the new lock, if any; with a conflict
\* EAGAIN is raised and nothing changes.
Begin(owner, start, end, added) ==
  /\ request = Idle /\ Admitted
  /\ end # None => start <= end
  /\ request' = [stage |-> "carved", kept |-> Unlocked(owner, start, end), added |-> added]
  /\ UNCHANGED <<locks, releases>>

SetLock(owner, type, start, end) ==
  /\ Conflict(owner, type, start, end) = {}
  /\ Begin(owner, start, end, {[owner |-> owner, type |-> type, start |-> start, end |-> end]})

Unlock(owner, start, end) == Begin(owner, start, end, {})

ReplaceList ==
  /\ request # Idle /\ request.stage = "carved"
  /\ locks' = request.kept
  /\ request' = IF request.added = {} THEN Idle ELSE [request EXCEPT !.stage = "replaced"]
  /\ UNCHANGED releases

AppendLock ==
  /\ request # Idle /\ request.stage = "replaced"
  /\ locks' = locks \cup request.added
  /\ request' = Idle
  /\ UNCHANGED releases

\* release_owner.
ReleaseOwner(owner) ==
  /\ Admitted /\ \A r \in releases : r.owner # owner
  /\ releases' = releases \cup {[owner |-> owner, kept |-> {l \in locks : l.owner # owner}]}
  /\ UNCHANGED <<locks, request>>

ReleaseList ==
  \E r \in releases :
    /\ locks' = r.kept
    /\ releases' = releases \ {r}
    /\ UNCHANGED request

Next ==
  \/ \E o \in Owners, start \in Offsets, end \in Ends :
       \/ Unlock(o, start, end)
       \/ \E type \in LockTypes : SetLock(o, type, start, end)
  \/ ReplaceList \/ AppendLock \/ ReleaseList
  \/ \E o \in Owners : ReleaseOwner(o)

Spec == Init /\ [][Next]_vars

(***************************************************************************)
(* Properties.                                                             *)
(***************************************************************************)
\* The table as a request leaves it: nobody but a release sees the list
\* between its replacement and the append.
Table ==
  IF request # Idle /\ request.stage = "replaced" THEN locks \cup request.added ELSE locks

Held ==
  [o \in Owners |-> [b \in Offsets |->
     IF \E l \in Table : l.owner = o /\ l.type = "write" /\ Covers(l, b) THEN "write"
     ELSE IF \E l \in Table : l.owner = o /\ Covers(l, b) THEN "read"
     ELSE "none"]]

Abstract == INSTANCE ByteLocks WITH held <- Held

\* Byte by byte, the table does what POSIX locks promise: a request that is
\* granted conflicts with nobody and changes its own range only, and a release
\* takes away what its owner holds and nothing else (locks.py).
ImplementsByteLocks == Abstract!Spec

\* However locks were split and converted, no byte carries two locks of one
\* owner, nor a write lock beside any other (_unlock before the append).
LocksDisjoint ==
  \A l, k \in Table :
    (l # k /\ Overlaps(l, k.start, k.end)) =>
      l.owner # k.owner /\ l.type = "read" /\ k.type = "read"

\* A request is refused, and F_GETLK reports a conflict, exactly if another
\* owner holds a byte of the range in a conflicting mode: no piece that a split
\* left behind blocks anybody (_conflict).
RefusalsJustified ==
  \A o \in Owners, type \in LockTypes, start \in Offsets, end \in Ends :
    (end = None \/ start <= end) /\ Quiet =>
      ((Conflict(o, type, start, end) # {}) <=>
         \E p \in Owners \ {o}, b \in start .. Last(end) :
           ~Abstract!Compatible(type, Held[p][b]))
=============================================================================
