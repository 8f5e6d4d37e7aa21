----------------------------- MODULE ByteLocks ------------------------------
(***************************************************************************)
(* What POSIX advisory locks on one file promise: every owner holds each   *)
(* byte or not, for reading or for writing; a request is granted whole, in *)
(* one step, unless another owner holds a byte of it in a conflicting way; *)
(* nobody but the owner ever changes what the owner holds.                 *)
(***************************************************************************)
CONSTANTS Owners, Offsets
VARIABLE held       \* held[o][b]: how owner o holds byte b

Modes == {"none", "read", "write"}

Init == held = [o \in Owners |-> [b \in Offsets |-> "none"]]

Compatible(mode, other) == other = "none" \/ (mode = "read" /\ other = "read")

Give(o, range, mode) ==
  held' = [held EXCEPT ![o] = [b \in Offsets |-> IF b \in range THEN mode ELSE @[b]]]

Acquire(o, range, mode) ==
  /\ \A p \in Owners \ {o}, b \in range : Compatible(mode, held[p][b])
  /\ Give(o, range, mode)

Next ==
  \E o \in Owners, range \in SUBSET Offsets :
    \/ \E mode \in {"read", "write"} : Acquire(o, range, mode)
    \/ Give(o, range, "none")

Spec == Init /\ [][Next]_held
=============================================================================
