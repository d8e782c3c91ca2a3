---------------------------- MODULE RingBufProof ----------------------------
(***************************************************************************)
(* Proofs about RingBuf, for every set of bytes, pool size and block       *)
(* length: the indices stay in range and consistent with their mirrors     *)
(* (RingBufInv), and the store is a first-in first-out queue (RingBufFifo).*)
(*                                                                         *)
(* Plan: plain arithmetic on the indices (DataLen, WriteMoves, ReadMoves,  *)
(* BothMove), the character operations as blocks of one byte (CharIsBlock),*)
(* the invariant, then what each operation does to the stored bytes.       *)
(***************************************************************************)
EXTENDS RingBuf, SequenceTheorems, TLAPS

\* The inductive invariant.
Inv == TypeOK /\ MirrorInv

\* The constants are positive integers.
LEMMA ConstFacts ==
    /\ Size \in Int /\ 1 <= Size
    /\ MaxLength \in Int /\ 1 <= MaxLength
  <1>1. Size \in Int /\ 1 <= Size
    BY RingBufAssumption
  <1>2. MaxLength \in Int /\ 1 <= MaxLength
    BY RingBufAssumption
  <1>3. QED
    BY <1>1, <1>2

\* What the invariant says of the indices, in plain arithmetic.
LEMMA IndexFacts ==
    ASSUME Inv
    PROVE  /\ read_index \in Int /\ write_index \in Int /\ Size \in Int
           /\ 0 <= read_index /\ read_index < Size
           /\ 0 <= write_index /\ write_index < Size
           /\ read_mirror = write_mirror => read_index <= write_index
           /\ read_mirror # write_mirror => write_index <= read_index
  BY ConstFacts DEF Inv, TypeOK, MirrorInv, Slot

\* A block is a sequence of bytes, whose length is bounded.
LEMMA BlockLen ==
    ASSUME NEW data \in Block
    PROVE  /\ data \in Seq(Byte)
           /\ Len(data) \in Int /\ 0 <= Len(data) /\ Len(data) <= MaxLength
           /\ \A k \in 1..Len(data) : data[k] \in Byte
  <1>1. PICK n \in 0..MaxLength : data \in [1..n -> Byte]
    BY DEF Block
  <1>2. n \in Nat /\ 0 <= n /\ n <= MaxLength
    BY ConstFacts
  <1>3. data \in Seq(Byte) /\ Len(data) = n
    BY <1>1, <1>2
  <1>4. QED
    BY <1>1, <1>2, <1>3

\* The length the code computes from the indices is between 0 and Size, and the
\* write index is that far after the read index.
LEMMA DataLen ==
    ASSUME Inv
    PROVE  /\ data_len \in Int /\ 0 <= data_len /\ data_len <= Size
           /\ space_len = Size - data_len
           /\ (data_len = 0) <=> Empty
           /\ (data_len = Size) <=> Full
           /\ Advance(read_index, data_len) = write_index
           /\ Wraps(read_index, data_len) <=> (read_mirror # write_mirror)
  <1>1. CASE Empty
    BY <1>1, IndexFacts DEF data_len, space_len, Empty, Full, Advance, Wraps
  <1>2. CASE Full
    BY <1>2, IndexFacts DEF data_len, space_len, Empty, Full, Advance, Wraps
  <1>3. CASE read_index < write_index
    BY <1>3, IndexFacts DEF data_len, space_len, Empty, Full, Advance, Wraps
  <1>4. CASE write_index < read_index
    BY <1>4, IndexFacts DEF data_len, space_len, Empty, Full, Advance, Wraps
  <1>5. QED
    BY <1>1, <1>2, <1>3, <1>4, IndexFacts DEF Empty, Full

\* A block never wraps twice: advancing by at most Size stays among the slots.
LEMMA AdvanceRange ==
    ASSUME NEW i \in Slot, NEW n \in 0..Size
    PROVE  Advance(i, n) \in Slot
  <1>1. i \in Int /\ 0 <= i /\ i < Size /\ Size \in Int /\ n \in Int /\ 0 <= n /\ n <= Size
    BY ConstFacts DEF Slot
  <1>2. Advance(i, n) \in Int /\ 0 <= Advance(i, n) /\ Advance(i, n) < Size
    BY <1>1 DEF Advance, Wraps
  <1>3. QED
    BY <1>1, <1>2 DEF Slot

\* Advancing in two moves is advancing by the sum, modulo one turn.
LEMMA AdvanceTwice ==
    ASSUME NEW i \in Slot, NEW n \in 0..Size, NEW m \in 0..Size
    PROVE  /\ n + m <= Size => Advance(Advance(i, n), m) = Advance(i, n + m)
           /\ n + m >= Size => Advance(Advance(i, n), m) = Advance(i, n + m - Size)
  <1>1. i \in Int /\ 0 <= i /\ i < Size /\ Size \in Int
    BY ConstFacts DEF Slot
  <1>2. n \in Int /\ m \in Int /\ 0 <= n /\ n <= Size /\ 0 <= m /\ m <= Size
    BY ConstFacts
  <1>3. QED
    BY <1>1, <1>2 DEF Advance, Wraps

\* Where the slot of the byte k places after the oldest lies from the write index.
LEMMA SlotDistance ==
    ASSUME Inv, NEW k \in Nat, k < Size
    PROVE  Distance(write_index, Advance(read_index, k))
             = IF k >= data_len THEN k - data_len ELSE k + Size - data_len
  <1>1. k \in Int /\ 0 <= k /\ k < Size
    BY ConstFacts
  <1>2. QED
    BY <1>1, IndexFacts, DataLen DEF Distance, Advance, Wraps

\* A move of the write index into free space keeps the mirrors consistent.
LEMMA WriteMoves ==
    ASSUME Inv, NEW n \in Nat, n <= space_len, MoveWrite(n), UNCHANGED <<read_index, read_mirror>>
    PROVE  /\ write_index' \in Slot /\ write_mirror' \in 0..1
           /\ MirrorInv'
           /\ data_len' = data_len + n
  <1>1. n \in Int /\ 0 <= n /\ n <= Size - data_len /\ data_len \in Int /\ 0 <= data_len
    BY DataLen
  <1>2. /\ write_mirror' = write_mirror <=> ~Wraps(write_index, n)
        /\ write_mirror' \in 0..1
        /\ read_mirror' # write_mirror' <=> (Wraps(write_index, n) <=> read_mirror = write_mirror)
    BY DEF MoveWrite, Flip, Inv, TypeOK
  <1>3. write_index' \in Int /\ 0 <= write_index' /\ write_index' < Size
    BY <1>1, IndexFacts, DataLen DEF MoveWrite, Advance, Wraps
  <1>4. MirrorInv'
    BY <1>1, <1>2, <1>3, IndexFacts, DataLen DEF MoveWrite, Advance, Wraps, MirrorInv
  <1>5. data_len' = data_len + n
    BY <1>1, <1>2, <1>3, IndexFacts, DataLen
       DEF MoveWrite, Advance, Wraps, data_len, Empty, Full
  <1>6. QED
    BY <1>2, <1>3, <1>4, <1>5, IndexFacts DEF Slot

\* A move of the read index over stored bytes keeps the mirrors consistent.
LEMMA ReadMoves ==
    ASSUME Inv, NEW n \in Nat, n <= data_len, MoveRead(n), UNCHANGED <<write_index, write_mirror>>
    PROVE  /\ read_index' \in Slot /\ read_mirror' \in 0..1
           /\ MirrorInv'
           /\ data_len' = data_len - n
  <1>1. n \in Int /\ 0 <= n /\ n <= data_len /\ data_len \in Int /\ data_len <= Size
    BY DataLen
  <1>2. /\ read_mirror' = read_mirror <=> ~Wraps(read_index, n)
        /\ read_mirror' \in 0..1
        /\ read_mirror' # write_mirror' <=> (Wraps(read_index, n) <=> read_mirror = write_mirror)
    BY DEF MoveRead, Flip, Inv, TypeOK
  <1>3. read_index' \in Int /\ 0 <= read_index' /\ read_index' < Size
    BY <1>1, IndexFacts, DataLen DEF MoveRead, Advance, Wraps
  <1>4. MirrorInv'
    BY <1>1, <1>2, <1>3, IndexFacts, DataLen DEF MoveRead, Advance, Wraps, MirrorInv
  <1>5. data_len' = data_len - n
    BY <1>1, <1>2, <1>3, IndexFacts, DataLen
       DEF MoveRead, Advance, Wraps, data_len, Empty, Full
  <1>6. QED
    BY <1>2, <1>3, <1>4, <1>5, IndexFacts DEF Slot

\* A forced block pushes the read index of a full buffer along.
LEMMA BothMove ==
    ASSUME Inv, Full, NEW n \in Nat, n <= Size, MoveWrite(n),
           read_index' = write_index',
           read_mirror' = IF Wraps(write_index, n) THEN Flip(read_mirror) ELSE read_mirror
    PROVE  /\ write_index' \in Slot /\ write_mirror' \in 0..1 /\ read_mirror' \in 0..1
           /\ MirrorInv'
           /\ data_len' = Size
  <1>1. write_index' \in Slot
    <2>1. write_index \in Slot /\ n \in 0..Size
      BY ConstFacts DEF Inv, TypeOK
    <2>2. QED
      BY <2>1, AdvanceRange DEF MoveWrite
  <1>2. write_mirror' \in 0..1 /\ read_mirror' \in 0..1 /\ read_mirror' # write_mirror'
    BY DEF MoveWrite, Flip, Inv, TypeOK, Full
  <1>3. MirrorInv'
    <2>1. write_index' \in Int
      BY <1>1, ConstFacts DEF Slot
    <2>2. QED
      BY <2>1, <1>2 DEF MirrorInv
  <1>4. data_len' = Size
    BY <1>2 DEF data_len, Empty, Full
  <1>5. QED
    BY <1>1, <1>2, <1>3, <1>4

-----------------------------------------------------------------------------
(* The operations on one character are the block operations on a block of  *)
(* one byte.                                                               *)

\* The equality test of the character operations is the wrap test for one byte.
LEMMA OneStep ==
    ASSUME NEW i \in Slot, NEW m
    PROVE  /\ StepIndex(i) = Advance(i, 1)
           /\ StepMirror(i, m) = IF Wraps(i, 1) THEN Flip(m) ELSE m
  BY ConstFacts DEF StepIndex, StepMirror, Advance, Wraps, Slot

\* A character is a block of one byte.
LEMMA OneByteBlock ==
    ASSUME NEW ch \in Byte
    PROVE  <<ch>> \in Block /\ Len(<<ch>>) = 1
  <1>1. <<ch>> \in [1..1 -> Byte]
    OBVIOUS
  <1>2. 1 \in 0..MaxLength
    BY ConstFacts
  <1>3. QED
    BY <1>1, <1>2 DEF Block

\* Storing a character is copying in a block of one byte.
LEMMA OneCopy ==
    ASSUME Inv, NEW ch \in Byte
    PROVE  [buf EXCEPT ![write_index] = ch] = CopyIn(<<ch>>, 1)
  <1>1. ASSUME NEW i \in Slot
        PROVE  (Distance(write_index, i) < 1 <=> i = write_index) /\ Distance(write_index, write_index) = 0
    <2>1. i \in Int /\ 0 <= i /\ i < Size
      BY ConstFacts DEF Slot
    <2>2. QED
      BY <2>1, IndexFacts DEF Distance
  <1>2. \A i \in Slot : <<ch>>[Distance(write_index, i) + 1] = ch \/ i # write_index
    BY <1>1
  <1>3. write_index \in Slot /\ buf \in [Slot -> Byte]
    BY DEF Inv, TypeOK
  <1>4. QED
    BY <1>1, <1>2, <1>3 DEF CopyIn

\* Every operation on a character is the block operation on that byte.
LEMMA CharIsBlock ==
    ASSUME Inv
    PROVE  /\ \A ch \in Byte : ringbuf_putchar(ch) => ringbuf_put(<<ch>>)
           /\ \A ch \in Byte : ringbuf_putchar_force(ch) => ringbuf_put_force(<<ch>>)
           /\ ringbuf_getchar => ringbuf_get(1)
  <1>1. ASSUME NEW ch \in Byte, ringbuf_putchar(ch)
        PROVE  ringbuf_put(<<ch>>)
    <2>1. write_index \in Slot /\ space_len \in Int /\ space_len >= 0
      BY IndexFacts, DataLen DEF Inv, TypeOK
    <2>2. Least(1, space_len) = IF space_len = 0 THEN 0 ELSE 1
      BY <2>1 DEF Least
    <2>3. QED
      BY <1>1, <2>1, <2>2, OneStep, OneByteBlock, OneCopy DEF ringbuf_putchar, ringbuf_put, StepWrite, MoveWrite
  <1>2. ASSUME NEW ch \in Byte, ringbuf_putchar_force(ch)
        PROVE  ringbuf_put_force(<<ch>>)
    <2>1. Least(1, Size) = 1
      BY ConstFacts DEF Least
    <2>2. write_index \in Slot
      BY DEF Inv, TypeOK
    <2>3. QED
      BY <1>2, <2>1, <2>2, OneStep, OneByteBlock, OneCopy
         DEF ringbuf_putchar_force, ringbuf_put_force, StepWrite, MoveWrite
  <1>3. ASSUME ringbuf_getchar
        PROVE  ringbuf_get(1)
    <2>1. read_index \in Slot /\ data_len \in Int /\ data_len >= 0
      BY IndexFacts, DataLen DEF Inv, TypeOK
    <2>2. Least(1, data_len) = IF data_len = 0 THEN 0 ELSE 1
      BY <2>1 DEF Least
    <2>3. CopyOut(1) = <<buf[read_index]>>
      BY IndexFacts DEF CopyOut, Advance, Wraps
    <2>4. QED
      BY <1>3, <2>1, <2>2, <2>3, OneStep DEF ringbuf_getchar, ringbuf_get, MoveRead
  <1>4. QED
    BY <1>1, <1>2, <1>3

\* A forced block that finds room is an ordinary one.
LEMMA ForceIsPut ==
    ASSUME Inv, NEW data \in Block, ringbuf_put_force(data), Fits(data), ~Full
    PROVE  ringbuf_put(data)
  <1>1. Len(data) \in Int /\ space_len \in Int /\ Size \in Int /\ space_len <= Size /\ space_len # 0
    BY BlockLen, DataLen, IndexFacts
  <1>2. Least(Len(data), Size) = Least(Len(data), space_len)
    BY <1>1 DEF Fits, Least
  <1>3. QED
    BY <1>1, <1>2 DEF ringbuf_put_force, ringbuf_put
-----------------------------------------------------------------------------
(* The invariant, operation by operation.                                  *)

\* How much of a block a write takes.
LEMMA PutLen ==
    ASSUME Inv, NEW data \in Block
    PROVE  /\ Least(Len(data), space_len) \in Nat
           /\ Least(Len(data), space_len) <= space_len
           /\ Least(Len(data), space_len) <= Len(data)
           /\ Least(Len(data), space_len) \in 0..Size
  BY BlockLen, DataLen, ConstFacts DEF Least

\* Copying a block into the pool leaves a pool.
LEMMA CopyInType ==
    ASSUME Inv, NEW data \in Block, NEW n \in Nat, n <= Len(data), n <= Size
    PROVE  CopyIn(data, n) \in [Slot -> Byte]
  <1>1. ASSUME NEW i \in Slot, Distance(write_index, i) < n
        PROVE  data[Distance(write_index, i) + 1] \in Byte
    <2>1. i \in Int /\ 0 <= i /\ i < Size
      BY ConstFacts DEF Slot
    <2>2. Distance(write_index, i) + 1 \in 1..Len(data)
      BY <1>1, <2>1, IndexFacts, BlockLen DEF Distance
    <2>3. QED
      BY <2>2, BlockLen
  <1>2. buf \in [Slot -> Byte]
    BY DEF Inv, TypeOK
  <1>3. QED
    BY <1>1, <1>2 DEF CopyIn

\* What a read copies out are n stored bytes.
LEMMA CopyOutSeq ==
    ASSUME Inv, NEW n \in Nat, n <= Size
    PROVE  /\ CopyOut(n) \in Seq(Byte)
           /\ Len(CopyOut(n)) = n
           /\ \A k \in 1..n : CopyOut(n)[k] = buf[Advance(read_index, k - 1)]
  <1>1. ASSUME NEW k \in 1..n
        PROVE  buf[Advance(read_index, k - 1)] \in Byte
    <2>1. k - 1 \in 0..Size
      BY ConstFacts
    <2>2. QED
      BY <2>1, AdvanceRange DEF Inv, TypeOK
  <1>2. CopyOut(n) \in [1..n -> Byte]
    BY <1>1 DEF CopyOut
  <1>3. QED
    BY <1>2 DEF CopyOut

\* ringbuf_put keeps the invariant.
LEMMA PutInv ==
    ASSUME Inv, NEW data \in Block, ringbuf_put(data)
    PROVE  Inv'
  <1> DEFINE n == Least(Len(data), space_len)
  <1>1. n \in Nat /\ n <= space_len /\ n <= Len(data) /\ n <= Size /\ n \in 0..Size
    BY PutLen, ConstFacts
  <1>2. out' \in Seq(Byte) /\ count' \in 0..Size
    BY <1>1 DEF ringbuf_put
  <1>3. CASE space_len = 0
    BY <1>2, <1>3 DEF ringbuf_put, Inv, TypeOK, MirrorInv
  <1>4. CASE space_len # 0
    <2>1. MoveWrite(n) /\ UNCHANGED <<read_index, read_mirror>> /\ buf' = CopyIn(data, n)
      BY <1>4 DEF ringbuf_put
    <2>2. write_index' \in Slot /\ write_mirror' \in 0..1 /\ MirrorInv'
      BY <2>1, <1>1, WriteMoves
    <2>3. buf' \in [Slot -> Byte]
      BY <2>1, <1>1, CopyInType
    <2>4. read_index' \in Slot /\ read_mirror' \in 0..1
      BY <2>1 DEF Inv, TypeOK
    <2>5. QED
      BY <1>2, <2>2, <2>3, <2>4 DEF Inv, TypeOK
  <1>5. QED
    BY <1>3, <1>4

\* ringbuf_put_force, called with a block that fits or on a full buffer, keeps it.
LEMMA PutForceInv ==
    ASSUME Inv, NEW data \in Block, ringbuf_put_force(data), Fits(data)
    PROVE  Inv'
  <1>1. CASE ~Full
    BY <1>1, ForceIsPut, PutInv
  <1>2. CASE Full
    <2> DEFINE n == Least(Len(data), Size)
    <2>1. n \in Nat /\ n <= Len(data) /\ n <= Size /\ n \in 0..Size
      BY BlockLen, ConstFacts DEF Least
    <2>2. out' \in Seq(Byte) /\ count' \in 0..Size
      BY <2>1 DEF ringbuf_put_force
    <2>3. buf' \in [Slot -> Byte]
      BY <2>1, CopyInType DEF ringbuf_put_force
    <2>4. /\ write_index' \in Slot /\ write_mirror' \in 0..1 /\ read_mirror' \in 0..1
          /\ MirrorInv'
      BY <1>2, <2>1, BothMove DEF ringbuf_put_force
    <2>5. read_index' \in Slot
      BY <1>2, <2>4 DEF ringbuf_put_force
    <2>6. QED
      BY <2>2, <2>3, <2>4, <2>5 DEF Inv, TypeOK
  <1>3. QED
    BY <1>1, <1>2

\* ringbuf_get keeps the invariant.
LEMMA GetInv ==
    ASSUME Inv, NEW length \in 0..MaxLength, ringbuf_get(length)
    PROVE  Inv'
  <1> DEFINE n == Least(length, data_len)
  <1>1. n \in Nat /\ n <= data_len /\ n <= Size /\ n \in 0..Size
    BY DataLen, ConstFacts DEF Least
  <1>2. out' \in Seq(Byte) /\ count' \in 0..Size
    BY <1>1, CopyOutSeq DEF ringbuf_get
  <1>3. CASE data_len = 0
    BY <1>2, <1>3 DEF ringbuf_get, Inv, TypeOK, MirrorInv
  <1>4. CASE data_len # 0
    <2>1. read_index' \in Slot /\ read_mirror' \in 0..1 /\ MirrorInv'
      BY <1>1, <1>4, ReadMoves DEF ringbuf_get
    <2>2. write_index' \in Slot /\ write_mirror' \in 0..1 /\ buf' \in [Slot -> Byte]
      BY DEF ringbuf_get, Inv, TypeOK
    <2>3. QED
      BY <1>2, <2>1, <2>2 DEF Inv, TypeOK
  <1>5. QED
    BY <1>3, <1>4

\* The invariant holds initially.
LEMMA InvInit == Init => Inv
  <1>1. 0 \in Slot /\ 0 \in 0..Size /\ <<>> \in Seq(Byte)
    BY ConstFacts DEF Slot
  <1>2. QED
    BY <1>1 DEF Init, Inv, TypeOK, MirrorInv

\* Every step of Spec keeps the invariant.
LEMMA InvNext == Inv /\ [Next]_vars => Inv'
  <1> SUFFICES ASSUME Inv, [Next]_vars
               PROVE  Inv'
    OBVIOUS
  <1>1. ASSUME NEW ch \in Byte, ringbuf_putchar(ch)
        PROVE  Inv'
    BY <1>1, CharIsBlock, OneByteBlock, PutInv
  <1>2. ASSUME NEW ch \in Byte, ringbuf_putchar_force(ch)
        PROVE  Inv'
    <2>1. Fits(<<ch>>)
      BY OneByteBlock, DataLen, ConstFacts DEF Fits, Least
    <2>2. QED
      BY <1>2, <2>1, CharIsBlock, OneByteBlock, PutForceInv
  <1>3. ASSUME ringbuf_getchar
        PROVE  Inv'
    <2>1. 1 \in 0..MaxLength
      BY ConstFacts
    <2>2. QED
      BY <1>3, <2>1, CharIsBlock, GetInv
  <1>4. CASE UNCHANGED vars
    BY <1>4 DEF vars, Inv, TypeOK, MirrorInv
  <1>5. QED
    BY <1>1, <1>2, <1>3, <1>4, PutInv, PutForceInv, GetInv DEF Next, Regular

\* Under the supported calls, the indices, the pool and the results keep their
\* types, and the mirrors stay consistent with the indices.
THEOREM RingBufInv == Spec => [](TypeOK /\ MirrorInv)
  <1>1. QED
    BY InvInit, InvNext, PTL DEF Spec, Inv
-----------------------------------------------------------------------------
(* The refinement: what each operation does to the bytes stored.           *)

\* A sequence is the function of its elements.
LEMMA SeqByIndex ==
    ASSUME NEW S, NEW s \in Seq(S)
    PROVE  s = [k \in 1..Len(s) |-> s[k]]
  OBVIOUS

\* The second part of a concatenation.
LEMMA ConcatRight ==
    ASSUME NEW S, NEW s \in Seq(S), NEW t \in Seq(S), NEW k \in 1..Len(t)
    PROVE  (s \o t)[Len(s) + k] = t[k]
  OBVIOUS

\* The bytes stored, as a sequence.
LEMMA ContentSeq ==
    ASSUME Inv
    PROVE  /\ Content \in Seq(Byte)
           /\ Len(Content) = data_len
           /\ \A k \in 1..data_len : Content[k] = buf[Advance(read_index, k - 1)]
  <1>1. data_len \in Nat /\ data_len <= Size
    BY DataLen, ConstFacts
  <1>2. Content = CopyOut(data_len)
    BY DEF Content, CopyOut
  <1>3. QED
    BY <1>1, <1>2, CopyOutSeq

\* A write appends the bytes it took.
LEMMA PutContent ==
    ASSUME Inv, NEW data \in Block, NEW n \in Nat, n <= Len(data), n <= space_len,
           MoveWrite(n), UNCHANGED <<read_index, read_mirror>>, buf' = CopyIn(data, n)
    PROVE  Content' = Content \o SubSeq(data, 1, n)
  <1> DEFINE rhs == Content \o SubSeq(data, 1, n)
  <1>1. /\ SubSeq(data, 1, n) \in Seq(Byte)
        /\ Len(SubSeq(data, 1, n)) = n
        /\ \A k \in 1..n : SubSeq(data, 1, n)[k] = data[k]
    BY BlockLen
  <1>2. /\ rhs \in Seq(Byte)
        /\ Len(rhs) = data_len + n
        /\ \A k \in 1..(data_len + n) :
              rhs[k] = IF k <= data_len THEN Content[k] ELSE SubSeq(data, 1, n)[k - data_len]
    <2> DEFINE front == SubSeq(data, 1, n)
    <2>1. front \in Seq(Byte) /\ Content \in Seq(Byte) /\ Len(front) = n /\ Len(Content) = data_len
      BY <1>1, ContentSeq
    <2> HIDE DEF front
    <2>2. /\ Content \o front \in Seq(Byte)
          /\ Len(Content \o front) = Len(Content) + Len(front)
          /\ \A k \in 1..(Len(Content) + Len(front)) :
                (Content \o front)[k] = IF k <= Len(Content) THEN Content[k] ELSE front[k - Len(Content)]
      BY <2>1, ConcatProperties, Zenon
    <2>3. QED
      BY <2>1, <2>2, Zenon DEF front
  <1> HIDE DEF rhs
  <1>3. data_len' = data_len + n /\ read_index' = read_index
    BY WriteMoves
  <1>4. data_len \in Int /\ 0 <= data_len /\ data_len + n <= Size
    BY DataLen, ConstFacts
  <1>5. ASSUME NEW k \in 1..(data_len + n)
        PROVE  buf'[Advance(read_index, k - 1)] = rhs[k]
    <2> DEFINE s == Advance(read_index, k - 1)
    <2>1. k \in Int /\ 1 <= k /\ k <= data_len + n /\ k - 1 \in Nat /\ k - 1 < Size /\ k - 1 \in 0..Size
      BY <1>4, ConstFacts
    <2>2. read_index \in Slot
      BY DEF Inv, TypeOK
    <2>3. s \in Slot
      BY <2>1, <2>2, AdvanceRange
    <2>4. Distance(write_index, s) = IF k - 1 >= data_len THEN k - 1 - data_len ELSE k - 1 + Size - data_len
      BY <2>1, SlotDistance
    <2>5. CASE k <= data_len
      <3>1. ~(Distance(write_index, s) < n)
        BY <2>1, <2>4, <2>5, <1>4, ConstFacts
      <3>2. buf'[s] = buf[s]
        BY <2>3, <3>1 DEF CopyIn
      <3>3. rhs[k] = buf[s]
        BY <1>2, <1>4, <2>1, <2>5, ContentSeq
      <3>4. QED
        BY <3>2, <3>3
    <2>6. CASE k > data_len
      <3>1. Distance(write_index, s) = k - 1 - data_len /\ k - 1 - data_len < n
        BY <2>1, <2>4, <2>6, <1>4
      <3>2. buf'[s] = data[k - 1 - data_len + 1]
        BY <2>3, <3>1 DEF CopyIn
      <3>3. k - 1 - data_len + 1 = k - data_len /\ k - data_len \in 1..n
        BY <2>1, <2>6, <1>4
      <3>4. rhs[k] = data[k - data_len]
        BY <1>1, <1>2, <2>1, <2>6, <1>4, <3>3
      <3>5. QED
        BY <3>2, <3>3, <3>4
    <2>7. QED
      BY <2>1, <2>5, <2>6, <1>4
  <1>6. Content' = [k \in 1..(data_len + n) |-> buf'[Advance(read_index, k - 1)]]
    BY <1>3 DEF Content
  <1>7. rhs = [k \in 1..(data_len + n) |-> rhs[k]]
    BY <1>2, SeqByIndex
  <1>8. QED
    BY <1>5, <1>6, <1>7 DEF rhs

\* A forced block into a full buffer replaces the oldest bytes.
LEMMA PutForceContent ==
    ASSUME Inv, Full, NEW data \in Block, NEW n \in Nat, n <= Len(data), n <= Size,
           MoveWrite(n), buf' = CopyIn(data, n), read_index' = write_index', data_len' = Size
    PROVE  Content' = SubSeq(Content \o SubSeq(data, 1, n), n + 1, Size + n)
  <1> DEFINE wish == Content \o SubSeq(data, 1, n)
             rhs  == SubSeq(wish, n + 1, Size + n)
  <1>1. /\ SubSeq(data, 1, n) \in Seq(Byte)
        /\ Len(SubSeq(data, 1, n)) = n
        /\ \A k \in 1..n : SubSeq(data, 1, n)[k] = data[k]
    BY BlockLen
  <1>2. data_len = Size /\ read_index = write_index
    BY DEF data_len, Empty, Full
  <1>3. /\ wish \in Seq(Byte)
        /\ Len(wish) = Size + n
        /\ \A k \in 1..Size : wish[k] = Content[k]
        /\ \A k \in 1..n : wish[Size + k] = data[k]
    <2> DEFINE front == SubSeq(data, 1, n)
    <2>1. front \in Seq(Byte) /\ Content \in Seq(Byte) /\ Len(front) = n /\ Len(Content) = Size
      BY <1>1, <1>2, ContentSeq
    <2> HIDE DEF front
    <2>2. /\ Content \o front \in Seq(Byte)
          /\ Len(Content \o front) = Len(Content) + Len(front)
          /\ \A k \in 1..(Len(Content) + Len(front)) :
                (Content \o front)[k] = IF k <= Len(Content) THEN Content[k] ELSE front[k - Len(Content)]
      BY <2>1, ConcatProperties, Zenon
    <2>3. ASSUME NEW k \in 1..Size
          PROVE  wish[k] = Content[k]
      BY <2>1, <2>2, ConstFacts DEF front
    <2>4. ASSUME NEW k \in 1..n
          PROVE  wish[Size + k] = data[k]
      <3>1. (Content \o front)[Len(Content) + k] = front[k]
        BY <2>1, ConcatRight, Zenon
      <3>2. QED
        BY <1>1, <2>1, <3>1 DEF front
    <2>5. QED
      BY <2>1, <2>2, <2>3, <2>4 DEF front
  <1> HIDE DEF wish
  <1>4. /\ rhs \in Seq(Byte)
        /\ Len(rhs) = Size
        /\ \A k \in 1..Size : rhs[k] = wish[n + k]
    <2> DEFINE lo == n + 1
               hi == Size + n
    <2>1. /\ lo \in Int /\ hi \in Int /\ lo <= hi /\ hi - lo + 1 = Size
          /\ \A k \in Int : lo + k - 1 = n + k
          /\ \A i \in lo..hi : wish[i] \in Byte
      BY <1>3, ConstFacts
    <2>2. rhs = SubSeq(wish, lo, hi)
      OBVIOUS
    <2> HIDE DEF lo, hi, rhs
    <2>3. /\ rhs \in Seq(Byte)
          /\ Len(rhs) = IF lo <= hi THEN hi - lo + 1 ELSE 0
          /\ \A k \in 1..(hi - lo + 1) : rhs[k] = wish[lo + k - 1]
      BY <2>1, <2>2, SubSeqProperties
    <2>4. ASSUME NEW k \in 1..Size
          PROVE  rhs[k] = wish[n + k]
      <3>1. k \in 1..(hi - lo + 1) /\ lo + k - 1 = n + k
        BY <2>1
      <3>2. QED
        BY <2>3, <3>1, Zenon
    <2>5. QED
      BY <2>1, <2>3, <2>4
  <1> HIDE DEF rhs
  <1>5. ASSUME NEW k \in 1..Size
        PROVE  buf'[Advance(write_index', k - 1)] = rhs[k]
    <2> DEFINE s == Advance(write_index', k - 1)
    <2>1. k \in Int /\ 1 <= k /\ k <= Size /\ k - 1 \in 0..Size /\ n \in 0..Size /\ n \in Int /\ 0 <= n
      BY ConstFacts
    <2>2. write_index \in Slot
      BY DEF Inv, TypeOK
    <2>3. s = IF n + (k - 1) < Size THEN Advance(write_index, n + (k - 1))
                                   ELSE Advance(write_index, n + (k - 1) - Size)
      BY <2>1, <2>2, AdvanceTwice, ConstFacts DEF MoveWrite
    <2>4. CASE n + (k - 1) < Size
      <3>1. n + (k - 1) \in Nat /\ n + (k - 1) \in 0..Size /\ n + k \in 1..(Size + n) /\ n + k \in 1..Size
        BY <2>1, <2>4, ConstFacts
      <3>2. s \in Slot
        BY <2>2, <2>3, <2>4, <3>1, AdvanceRange
      <3>3. Distance(write_index, s) = n + (k - 1) + Size - Size
        BY <1>2, <2>1, <2>3, <2>4, <3>1, SlotDistance, ConstFacts
      <3>4. ~(Distance(write_index, s) < n)
        BY <2>1, <3>3, ConstFacts
      <3>5. buf'[s] = buf[s]
        BY <3>2, <3>4 DEF CopyIn
      <3>6. rhs[k] = Content[n + k]
        BY <1>3, <1>4, <3>1, <2>1, ConstFacts
      <3>7. Content[n + k] = buf[Advance(read_index, n + k - 1)] /\ n + k - 1 = n + (k - 1)
        BY <1>2, <2>1, <3>1, ContentSeq
      <3>8. QED
        BY <1>2, <2>3, <2>4, <3>5, <3>6, <3>7
    <2>5. CASE n + (k - 1) >= Size
      <3> DEFINE j == n + (k - 1) - Size
      <3>1. j \in Nat /\ j < Size /\ j \in 0..Size /\ j < n /\ j + 1 \in 1..n /\ n + k \in 1..(Size + n) /\ ~(n + k <= Size) /\ n + k - Size = j + 1
        BY <2>1, <2>5, ConstFacts
      <3>2. s = Advance(read_index, j) /\ s \in Slot
        BY <1>2, <2>1, <2>2, <2>3, <2>5, <3>1, AdvanceRange, ConstFacts
      <3>3. Distance(write_index, s) = IF j >= Size THEN j - Size ELSE j + Size - Size
        BY <1>2, <3>1, <3>2, SlotDistance
      <3>4. Distance(write_index, s) = j
        BY <3>1, <3>3, ConstFacts
      <3>5. buf'[s] = data[j + 1]
        BY <3>1, <3>2, <3>4 DEF CopyIn
      <3>6. rhs[k] = data[j + 1]
        <4>1. rhs[k] = wish[n + k]
          BY <1>4
        <4>2. n + k = Size + (j + 1)
          BY <2>1, <3>1, ConstFacts
        <4>3. QED
          BY <1>3, <3>1, <4>1, <4>2, Zenon
      <3>7. QED
        BY <3>5, <3>6
    <2>6. QED
      BY <2>1, <2>4, <2>5, ConstFacts
  <1>6. Content' = [k \in 1..Size |-> buf'[Advance(write_index', k - 1)]]
    BY DEF Content
  <1>7. rhs = [k \in 1..Size |-> rhs[k]]
    BY <1>4, SeqByIndex
  <1>8. QED
    BY <1>5, <1>6, <1>7 DEF rhs, wish

\* A read takes the oldest bytes.
LEMMA GetContent ==
    ASSUME Inv, NEW n \in Nat, n <= data_len, MoveRead(n),
           UNCHANGED <<write_index, write_mirror, buf>>
    PROVE  /\ Content' = SubSeq(Content, n + 1, Len(Content))
           /\ CopyOut(n) = SubSeq(Content, 1, n)
  <1> DEFINE rhs == SubSeq(Content, n + 1, data_len)
             front == SubSeq(Content, 1, n)
  <1>1. data_len \in Int /\ 0 <= data_len /\ data_len <= Size /\ n \in Int /\ 0 <= n /\ n <= Size
    BY DataLen, ConstFacts
  <1>2. data_len' = data_len - n /\ read_index' = Advance(read_index, n)
    BY ReadMoves DEF MoveRead
  <1>3. /\ rhs \in Seq(Byte)
        /\ Len(rhs) = data_len - n
        /\ \A k \in 1..(data_len - n) : rhs[k] = Content[n + k]
    <2>1. \A i \in (n + 1)..data_len : Content[i] \in Byte
      BY <1>1, ContentSeq
    <2>2. /\ rhs \in Seq(Byte)
          /\ Len(rhs) = IF n + 1 <= data_len THEN data_len - (n + 1) + 1 ELSE 0
          /\ \A k \in 1..(data_len - (n + 1) + 1) : rhs[k] = Content[n + 1 + k - 1]
      BY <2>1, <1>1, SubSeqProperties
    <2>3. data_len - (n + 1) + 1 = data_len - n
      BY <1>1
    <2>4. \A k \in 1..(data_len - n) : n + 1 + k - 1 = n + k
      BY <1>1
    <2>5. QED
      BY <1>1, <2>2, <2>3, <2>4
  <1>4. ASSUME NEW k \in 1..(data_len - n)
        PROVE  buf[Advance(read_index', k - 1)] = rhs[k]
    <2>1. k \in Int /\ 1 <= k /\ k <= data_len - n /\ k - 1 \in 0..Size /\ n \in 0..Size /\ n + k \in 1..data_len
      BY <1>1, ConstFacts
    <2>2. read_index \in Slot
      BY DEF Inv, TypeOK
    <2>3. Advance(read_index', k - 1) = Advance(read_index, n + (k - 1))
      <3>1. n + (k - 1) <= Size
        BY <1>1, <2>1, ConstFacts
      <3>2. QED
        BY <1>2, <2>1, <2>2, <3>1, AdvanceTwice
    <2>4. n + (k - 1) = n + k - 1
      BY <1>1, <2>1
    <2>5. QED
      BY <1>3, <2>1, <2>3, <2>4, ContentSeq
  <1>5. Content' = [k \in 1..(data_len - n) |-> buf[Advance(read_index', k - 1)]]
    BY <1>2 DEF Content
  <1>6. Content' = rhs
    <2>1. rhs = [k \in 1..(data_len - n) |-> rhs[k]]
      BY <1>3, SeqByIndex
    <2>2. QED
      BY <1>4, <1>5, <2>1
  <1>7. CopyOut(n) = front
    <2>1. \A i \in 1..n : Content[i] \in Byte /\ i \in 1..data_len
      BY <1>1, ContentSeq
    <2>2. /\ front \in Seq(Byte)
          /\ Len(front) = n
          /\ \A k \in 1..n : front[k] = Content[k]
      BY <1>1, ContentSeq
    <2>3. front = [k \in 1..n |-> front[k]]
      BY <2>2, SeqByIndex
    <2>4. \A k \in 1..n : front[k] = buf[Advance(read_index, k - 1)]
      BY <2>1, <2>2, ContentSeq
    <2>5. QED
      BY <2>3, <2>4 DEF CopyOut
  <1>8. QED
    BY <1>6, <1>7, ContentSeq
-----------------------------------------------------------------------------
\* ringbuf_put is a Put of the abstract store.
LEMMA PutIsFifo ==
    ASSUME Inv, NEW data \in Block, ringbuf_put(data)
    PROVE  Fifo!Put(data)
  <1> DEFINE n == Least(Len(data), space_len)
  <1>1. n \in Nat /\ n <= space_len /\ n <= Len(data)
    BY PutLen
  <1>2. Fifo!Least(Len(data), Size - Len(Content)) = n
    BY ContentSeq, DataLen DEF Fifo!Least, Least
  <1>3. Content' = Content \o SubSeq(data, 1, n)
    <2>1. CASE space_len = 0
      <3>1. n = 0 /\ SubSeq(data, 1, n) = <<>>
        BY <1>1, <2>1, BlockLen
      <3>2. Content' = Content
        BY <2>1 DEF ringbuf_put, Content, data_len, Empty, Full
      <3>3. QED
        BY <3>1, <3>2, ContentSeq, ConcatEmptySeq
    <2>2. CASE space_len # 0
      BY <1>1, <2>2, PutContent DEF ringbuf_put
    <2>3. QED
      BY <2>1, <2>2
  <1>4. QED
    BY <1>2, <1>3 DEF ringbuf_put, Fifo!Put

\* A supported ringbuf_put_force is a PutForce of the abstract store.
LEMMA PutForceIsFifo ==
    ASSUME Inv, NEW data \in Block, ringbuf_put_force(data), Fits(data)
    PROVE  Fifo!PutForce(data)
  <1> DEFINE n    == Least(Len(data), Size)
             wish == Content \o SubSeq(data, 1, n)
  <1>1. n \in Nat /\ n <= Size /\ n <= Len(data) /\ n = Fifo!Least(Len(data), Size)
    BY BlockLen, ConstFacts DEF Least, Fifo!Least
  <1>2. wish \in Seq(Byte) /\ Len(wish) = data_len + n
    <2>1. SubSeq(data, 1, n) \in Seq(Byte) /\ Len(SubSeq(data, 1, n)) = n
      BY <1>1, BlockLen
    <2>2. QED
      BY <2>1, ContentSeq, ConcatProperties
  <1>3. Content' = Fifo!Newest(wish, Fifo!Least(Len(wish), Size))
    <2>1. CASE Full
      <3>1. data_len = Size /\ Fifo!Least(Len(wish), Size) = Size
        BY <1>1, <1>2, <2>1, ConstFacts DEF data_len, Empty, Full, Fifo!Least
      <3>2. data_len' = Size
        BY <1>1, <2>1, BothMove DEF ringbuf_put_force
      <3>3. Content' = SubSeq(wish, n + 1, Size + n)
        BY <1>1, <2>1, <3>2, PutForceContent DEF ringbuf_put_force
      <3>4. Len(wish) - Size + 1 = n + 1 /\ Len(wish) = Size + n
        BY <1>1, <1>2, <3>1, ConstFacts
      <3>5. QED
        BY <3>1, <3>3, <3>4 DEF Fifo!Newest
    <2>2. CASE ~Full
      <3>1. n <= space_len
        BY <2>2 DEF Fits
      <3>2. space_len # 0 /\ space_len = Size - data_len
        BY <2>2, DataLen, ConstFacts
      <3>3. Content' = wish
        BY <1>1, <2>2, <3>1, PutContent DEF ringbuf_put_force
      <3>4. Len(wish) <= Size /\ Len(wish) \in Int
        BY <1>1, <1>2, <3>1, <3>2, DataLen, ConstFacts
      <3> HIDE DEF wish
      <3>5. Fifo!Least(Len(wish), Size) = Len(wish) /\ Len(wish) - Len(wish) + 1 = 1
        BY <3>4, ConstFacts DEF Fifo!Least
      <3>6. SubSeq(wish, 1, Len(wish)) = wish
        BY <1>2, SubSeqFull
      <3>7. QED
        BY <3>3, <3>5, <3>6 DEF Fifo!Newest
    <2>3. QED
      BY <2>1, <2>2
  <1>4. QED
    BY <1>1, <1>3 DEF ringbuf_put_force, Fifo!PutForce

\* ringbuf_get is a Get of the abstract store.
LEMMA GetIsFifo ==
    ASSUME Inv, NEW length \in 0..MaxLength, ringbuf_get(length)
    PROVE  Fifo!Get(length)
  <1> DEFINE n == Least(length, data_len)
  <1>1. n \in Nat /\ n <= data_len /\ n = Fifo!Least(length, Len(Content))
    BY DataLen, ContentSeq, ConstFacts DEF Least, Fifo!Least
  <1>2. /\ Content' = SubSeq(Content, n + 1, Len(Content))
        /\ out' = SubSeq(Content, 1, n)
    <2>1. CASE data_len = 0
      <3>1. Content = <<>> /\ n = 0 /\ Len(Content) = 0
        BY <1>1, <2>1, ContentSeq
      <3>2. Content' = Content /\ out' = <<>>
        BY <2>1 DEF ringbuf_get, Content, data_len, Empty, Full
      <3>3. SubSeq(Content, 1, n) = <<>> /\ SubSeq(Content, n + 1, Len(Content)) = <<>>
        BY <3>1, SubSeqEmpty
      <3>4. QED
        BY <3>1, <3>2, <3>3
    <2>2. CASE data_len # 0
      BY <1>1, <2>2, GetContent DEF ringbuf_get
    <2>3. QED
      BY <2>1, <2>2
  <1>3. QED
    BY <1>1, <1>2 DEF ringbuf_get, Fifo!Get

\* Under the supported calls the ring buffer is a first-in first-out store.
THEOREM RingBufFifo == Spec => IsFifo
  <1>1. Init => Fifo!Init
    <2> SUFFICES ASSUME Init
                 PROVE  Fifo!Init
      OBVIOUS
    <2>1. data_len = 0
      BY DEF Init, data_len, Empty
    <2>2. Content = <<>>
      BY <2>1, InvInit, ContentSeq
    <2>3. QED
      BY <2>2 DEF Init, Fifo!Init
  <1>2. Inv /\ [Next]_vars => [Fifo!Next]_(Fifo!vars)
    <2> SUFFICES ASSUME Inv, [Next]_vars
                 PROVE  [Fifo!Next]_(Fifo!vars)
      OBVIOUS
    <2>1. Fifo!Block = Block
      BY DEF Block, Fifo!Block
    <2>2. ASSUME NEW data \in Block, Fifo!Put(data) \/ Fifo!PutForce(data)
          PROVE  Fifo!Next
      BY <2>1, <2>2 DEF Fifo!Next
    <2>3. ASSUME NEW length \in 0..MaxLength, Fifo!Get(length)
          PROVE  Fifo!Next
      BY <2>3 DEF Fifo!Next
    <2>4. ASSUME NEW ch \in Byte, ringbuf_putchar(ch)
          PROVE  Fifo!Next
      BY <2>2, <2>4, CharIsBlock, OneByteBlock, PutIsFifo
    <2>5. ASSUME NEW ch \in Byte, ringbuf_putchar_force(ch)
          PROVE  Fifo!Next
      <3>1. Fits(<<ch>>)
        BY OneByteBlock, DataLen, ConstFacts DEF Fits, Least
      <3>2. QED
        BY <2>2, <2>5, <3>1, CharIsBlock, OneByteBlock, PutForceIsFifo
    <2>6. ASSUME ringbuf_getchar
          PROVE  Fifo!Next
      <3>1. 1 \in 0..MaxLength
        BY ConstFacts
      <3>2. QED
        BY <2>3, <2>6, <3>1, CharIsBlock, GetIsFifo
    <2>7. CASE UNCHANGED vars
      BY <2>7 DEF vars, Fifo!vars, Content, data_len, Empty, Full
    <2>8. CASE Next
      BY <2>2, <2>3, <2>4, <2>5, <2>6, <2>8, PutIsFifo, PutForceIsFifo, GetIsFifo DEF Next, Regular
    <2>9. QED
      BY <2>7, <2>8
  <1>3. QED
    BY <1>1, <1>2, InvInit, InvNext, PTL DEF Spec, IsFifo, Fifo!Spec
=============================================================================
