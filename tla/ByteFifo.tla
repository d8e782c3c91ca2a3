------------------------------ MODULE ByteFifo ------------------------------
(***************************************************************************)
(* What common/ringbuf.h promises its users: a first-in first-out store of *)
(* at most Capacity bytes.  A block that does not fit is cut, a forced     *)
(* write discards the oldest bytes, a read takes the oldest ones.          *)
(*                                                                         *)
(* content  the bytes stored, oldest first                                 *)
(* out      the bytes the last operation handed to its caller              *)
(* count    the size_t the last operation returned                         *)
(***************************************************************************)
EXTENDS Integers, Sequences

CONSTANTS Byte, Capacity, MaxLength

VARIABLES content, out, count

vars == <<content, out, count>>

\* The blocks a caller may pass: at most MaxLength bytes.
Block == UNION {[1..n -> Byte] : n \in 0..MaxLength}

Least(a, b) == IF a < b THEN a ELSE b

\* The last n bytes of s.
Newest(s, n) == SubSeq(s, Len(s) - n + 1, Len(s))

Init == content = <<>> /\ out = <<>> /\ count = 0

\* Store the longest prefix of data that fits.
Put(data) ==
    LET n == Least(Len(data), Capacity - Len(content)) IN
    /\ content' = content \o SubSeq(data, 1, n)
    /\ out' = <<>>
    /\ count' = n

\* Store the first Capacity bytes of data, whatever has to be discarded.
PutForce(data) ==
    LET n     == Least(Len(data), Capacity)
        wish  == content \o SubSeq(data, 1, n)
    IN
    /\ content' = Newest(wish, Least(Len(wish), Capacity))
    /\ out' = <<>>
    /\ count' = n

\* Take up to length of the oldest bytes.
Get(length) ==
    LET n == Least(length, Len(content)) IN
    /\ out' = SubSeq(content, 1, n)
    /\ content' = SubSeq(content, n + 1, Len(content))
    /\ count' = n

Next ==
    \/ \E data \in Block : Put(data) \/ PutForce(data)
    \/ \E length \in 0..MaxLength : Get(length)

Spec == Init /\ [][Next]_vars
=============================================================================
