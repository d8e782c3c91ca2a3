------------------------------- MODULE RingBuf -------------------------------
(***************************************************************************)
(* The mirrored ring buffer of common/ringbuf.c and include/common/        *)
(* ringbuf.h.  Every function runs to completion before the next one       *)
(* starts: the users (common/pipe.c) call them with interrupts disabled.   *)
(*                                                                         *)
(* A block is a sequence of bytes; the two memcpy of a wrapping transfer   *)
(* are one update of the slots the block covers.                           *)
(***************************************************************************)
EXTENDS Integers, Sequences

CONSTANTS
    Byte,       \* the values of a byte
    Size,       \* buf_size
    MaxLength   \* the longest block a caller passes

\* buf_size is an int16_t and positive, length is a uint16_t.
ASSUME RingBufAssumption ==
    /\ Byte # {}
    /\ Size \in 1 .. 2^15 - 1
    /\ MaxLength \in 1 .. 2^16 - 1

VARIABLES
    read_mirror, read_index,    \* a bit and a 15-bit index
    write_mirror, write_index,
    buf,                        \* the bytes of buf_ptr
    out,                        \* the bytes the last call copied to its caller
    count                       \* what the last call returned

vars == <<read_mirror, read_index, write_mirror, write_index, buf, out, count>>

Slot  == 0 .. Size - 1
Block == UNION {[1..n -> Byte] : n \in 0..MaxLength}

\* The pool is the caller's memory: its first content is whatever was there.
Init ==
    /\ read_mirror = 0 /\ read_index = 0
    /\ write_mirror = 0 /\ write_index = 0
    /\ buf \in [Slot -> Byte]
    /\ out = <<>> /\ count = 0
-----------------------------------------------------------------------------
Flip(mirror) == 1 - mirror

Least(a, b) == IF a < b THEN a ELSE b

\* Mutant: a full buffer is taken for empty.
EmptyByIndex == read_index = write_index

Empty == read_index = write_index /\ read_mirror = write_mirror
Full  == read_index = write_index /\ read_mirror # write_mirror

data_len ==
    IF Empty THEN 0
    ELSE IF Full THEN Size
    ELSE IF write_index > read_index THEN write_index - read_index
    ELSE Size - (read_index - write_index)

space_len == Size - data_len

\* The slot n places after index, and whether going there crosses the end.
Wraps(index, n)   == ~(Size - index > n)
Advance(index, n) == IF Wraps(index, n) THEN n - (Size - index) ELSE index + n

\* How many places slot i lies after index.
Distance(index, i) == IF i >= index THEN i - index ELSE i + Size - index

\* The memcpy of the first n bytes of data to write_index.
CopyIn(data, n) ==
    [i \in Slot |-> IF Distance(write_index, i) < n
                    THEN data[Distance(write_index, i) + 1] ELSE buf[i]]

\* The memcpy of n bytes at read_index.
CopyOut(n) == [k \in 1..n |-> buf[Advance(read_index, k - 1)]]

MoveWrite(n) ==
    /\ write_mirror' = IF Wraps(write_index, n) THEN Flip(write_mirror) ELSE write_mirror
    /\ write_index' = Advance(write_index, n)

MoveRead(n) ==
    /\ read_mirror' = IF Wraps(read_index, n) THEN Flip(read_mirror) ELSE read_mirror
    /\ read_index' = Advance(read_index, n)
-----------------------------------------------------------------------------
ringbuf_put(data) ==
    LET n == Least(Len(data), space_len) IN
    /\ count' = n
    /\ out' = <<>>
    /\ UNCHANGED <<read_mirror, read_index>>
    /\ \/ /\ space_len = 0
          /\ UNCHANGED <<write_mirror, write_index, buf>>
       \/ /\ space_len # 0
          /\ buf' = CopyIn(data, n)
          /\ MoveWrite(n)

\* The read index follows only when the buffer was FULL before the call.
ringbuf_put_force(data) ==
    LET n == Least(Len(data), Size) IN
    /\ count' = n
    /\ out' = <<>>
    /\ buf' = CopyIn(data, n)
    /\ MoveWrite(n)
    /\ \/ /\ Full
          /\ read_index' = write_index'
          /\ read_mirror' = IF Wraps(write_index, n) THEN Flip(read_mirror) ELSE read_mirror
       \/ ~Full /\ UNCHANGED <<read_mirror, read_index>>

ringbuf_get(length) ==
    LET n == Least(length, data_len) IN
    /\ count' = n
    /\ UNCHANGED <<write_mirror, write_index, buf>>
    /\ \/ /\ data_len = 0
          /\ out' = <<>>
          /\ UNCHANGED <<read_mirror, read_index>>
       \/ /\ data_len # 0
          /\ out' = CopyOut(n)
          /\ MoveRead(n)

\* Mutants: the end test comes one slot late; the mirror bit never flips.
StepIndexLate(index)          == IF index = Size THEN 0 ELSE index + 1
StepMirrorNever(index, mirror) == mirror

\* One step of an index by a character: the end test is an equality here.
StepIndex(index)          == IF index = Size - 1 THEN 0 ELSE index + 1
StepMirror(index, mirror) == IF index = Size - 1 THEN Flip(mirror) ELSE mirror

StepWrite ==
    /\ write_mirror' = StepMirror(write_index, write_mirror)
    /\ write_index' = StepIndex(write_index)

ringbuf_putchar(ch) ==
    /\ out' = <<>>
    /\ UNCHANGED <<read_mirror, read_index>>
    /\ \/ /\ space_len = 0
          /\ count' = 0
          /\ UNCHANGED <<write_mirror, write_index, buf>>
       \/ /\ space_len # 0
          /\ count' = 1
          /\ buf' = [buf EXCEPT ![write_index] = ch]
          /\ StepWrite

ringbuf_putchar_force(ch) ==
    /\ out' = <<>>
    /\ count' = 1
    /\ buf' = [buf EXCEPT ![write_index] = ch]
    /\ StepWrite
    /\ \/ /\ Full
          /\ read_index' = write_index'
          /\ read_mirror' = StepMirror(write_index, read_mirror)
       \/ ~Full /\ UNCHANGED <<read_mirror, read_index>>

ringbuf_getchar ==
    /\ UNCHANGED <<write_mirror, write_index, buf>>
    /\ \/ /\ data_len = 0
          /\ out' = <<>> /\ count' = 0
          /\ UNCHANGED <<read_mirror, read_index>>
       \/ /\ data_len # 0
          /\ out' = <<buf[read_index]>> /\ count' = 1
          /\ read_mirror' = StepMirror(read_index, read_mirror)
          /\ read_index' = StepIndex(read_index)
-----------------------------------------------------------------------------
Regular ==
    \/ \E data \in Block : ringbuf_put(data)
    \/ \E length \in 0..MaxLength : ringbuf_get(length)
    \/ \E ch \in Byte : ringbuf_putchar(ch) \/ ringbuf_putchar_force(ch)
    \/ ringbuf_getchar

\* The calls of ringbuf_put_force whose block fits, or that find the buffer full.
Fits(data) == Full \/ Least(Len(data), Size) <= space_len

Next    == Regular \/ \E data \in Block : Fits(data) /\ ringbuf_put_force(data)
NextAll == Regular \/ \E data \in Block : ringbuf_put_force(data)

\* Spec keeps to the calls of ringbuf_put_force that its algorithm supports,
\* SpecAll makes every call a C program can make.
Spec    == Init /\ [][Next]_vars
SpecAll == Init /\ [][NextAll]_vars
-----------------------------------------------------------------------------
TypeOK ==
    /\ read_mirror \in 0..1 /\ write_mirror \in 0..1
    /\ read_index \in Slot /\ write_index \in Slot
    /\ buf \in [Slot -> Byte]
    /\ out \in Seq(Byte)
    /\ count \in 0..Size

\* Indices in different mirrors mean that the write index has gone around once
\* more than the read index, so it may not be past it; in the same mirror it
\* may not be behind it.  The length computation of ringbuf.h:101-115 never
\* looks at the mirrors of a half full buffer and relies on this.
MirrorInv ==
    IF read_mirror = write_mirror THEN read_index <= write_index
                                  ELSE write_index <= read_index

\* The bytes stored, oldest first.
Content == [k \in 1..data_len |-> buf[Advance(read_index, k - 1)]]

Fifo == INSTANCE ByteFifo WITH Capacity <- Size, content <- Content

\* Every caller sees a first-in first-out store of Size bytes: no byte is lost,
\* repeated, reordered or taken from a stale slot, at any alignment of the block
\* with the end of the pool and after any number of wraps (ringbuf.c:42-264).
IsFifo == Fifo!Spec

\* "When the buffer is full, it will discard the old data" (ringbuf.c:85): after
\* a forced block the store holds that block, preceded by what is left of the
\* newest old bytes.
ForceKeepsNewest ==
    [][\A data \in Block : ringbuf_put_force(data) => Fifo!PutForce(data)]_vars
=============================================================================
