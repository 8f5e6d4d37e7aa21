------------------------------ MODULE ByteFile ------------------------------
(***************************************************************************)
(* What a regular file promises: a string of bytes that a write overwrites *)
(* or extends, the gap before the write reading as zeroes, and that a      *)
(* truncation cuts or extends with zeroes, each in one step.               *)
(***************************************************************************)
EXTENDS Naturals, Sequences

CONSTANTS Bytes, MaxSize
VARIABLE content

ZeroByte == 0
Larger(m, n) == IF m >= n THEN m ELSE n

Init == content = <<>>

Overwritten(old, offset, data) ==
  [k \in 1 .. Larger(Len(old), offset + Len(data)) |->
     IF offset < k /\ k <= offset + Len(data) THEN data[k - offset]
     ELSE IF k <= Len(old) THEN old[k]
     ELSE ZeroByte]

Put(offset, data) == content' = Overwritten(content, offset, data)

Resize(length) ==
  content' = [k \in 1 .. length |-> IF k <= Len(content) THEN content[k] ELSE ZeroByte]

Next ==
  \/ \E offset \in 0 .. MaxSize - 1 : \E length \in 1 .. MaxSize - offset :
       \E data \in [1 .. length -> Bytes] : Put(offset, data)
  \/ \E length \in 0 .. MaxSize : Resize(length)

Spec == Init /\ [][Next]_content
=============================================================================
