----------------------------- MODULE SerialProof -----------------------------
(***************************************************************************)
(* Proofs about SerialRx and XyzModem, which MCSerial explores.            *)
(*                                                                         *)
(* SerialRx, for every size of the ring and of the reads and any number of *)
(* characters: a read that meets no overflow is exact (ReadIsExact).       *)
(* Plan: whatever the race for get_index has done, the slots behind        *)
(* put_index hold the latest characters (RingInv), so that any get_index   *)
(* names a character that has come; and while no overflow interferes, what *)
(* the reader has loaded is still true of the ring (ReaderInv).            *)
(*                                                                         *)
(* XyzModem, for every file, block numbering, number of retries and of     *)
(* faults: what is read is the beginning of the file, and all of it at the *)
(* end (FileInOrder).  Plan: the receiver has the first b blocks, and what *)
(* it has returned and what is left of the last one is the beginning of    *)
(* the file (DataInv); the sender is at the last of them or at the next,   *)
(* and of packets and answers one at most is on the line (LineInv), so     *)
(* that no answer can be taken for that to another packet.                 *)
(***************************************************************************)
EXTENDS SerialRx, XyzModem, SequenceTheorems, TLAPS

-----------------------------------------------------------------------------
\* Reception.  How far behind the put index a slot is.
Back(s) == IF s < put_index THEN put_index - s ELSE put_index - s + Size

\* Each slot holds the character that came so many before the next, and the get index is
\* not behind the first one.
RingInv ==
    int_rx => /\ \A s \in Slot : Back(s) <= accepted => buffer[s] = accepted + 1 - Back(s)
              /\ Used <= accepted

\* Which mode the device is in, and what has come.
ModeInv ==
    /\ irq \/ isr # "none" => int_rx
    /\ pc = "poll" => ~int_rx
    /\ pc \in {"size", "getc", "take", "advance"} => int_rx
    /\ arrived \in Nat
    /\ rxne => accepted < arrived

\* What the reader has loaded; while it is not disturbed that is still true.
ReaderInv ==
    /\ pc \in {"idle", "poll"} => p = Nothing /\ g = Nothing
    /\ pc \in {"take", "advance"} => p = Nothing
    /\ int_rx /\ disturbed => accepted >= Size
    /\ int_rx /\ ~disturbed =>
          /\ g # Nothing => g = get_index
          /\ p # Nothing => (p - get_index) % Size <= Used
          /\ pc = "getc" => Used > 0 /\ p # get_index
          /\ pc \in {"take", "advance"} => Used > 0
          /\ pc = "advance" => ch = accepted - Used + 1

\* What an undisturbed read has stored.
StoredInv ==
    /\ stored \in Seq(Nat) /\ before \in Int /\ disturbed \in BOOLEAN
    /\ int_rx /\ ~disturbed =>
          /\ \A i \in 1 .. Len(stored) : stored[i] = before + i
          /\ before + Len(stored) = accepted - Used

\* The inductive invariant.
SerialInv == TypeOK /\ ModeInv /\ RingInv /\ ReaderInv /\ StoredInv

\* The arithmetic of the indices.
LEMMA SizeIs ==
    Size \in Nat /\ Size > 1 /\ Nothing = -1 /\ Garbage = 0 /\ Slot = 0 .. Size - 1
  BY SerialAssumption DEF Nothing, Garbage, Slot

LEMMA ModFacts ==
    ASSUME NEW n \in Nat, n > 0
    PROVE  /\ \A a \in Int : 0 <= a /\ a < n => a % n = a
           /\ \A a \in Int : 0 - n <= a /\ a < 0 => a % n = a + n
           /\ n % n = 0
  <1>1. \A a \in Int : 0 <= a /\ a < n => a % n = a
    OBVIOUS
  <1>2. \A a \in Int : 0 - n <= a /\ a < 0 => a % n = a + n
    OBVIOUS
  <1>3. n % n = 0
    OBVIOUS
  <1>4. QED
    BY <1>1, <1>2, <1>3

LEMMA MinusIs ==
    ASSUME NEW a \in Slot, NEW b \in Slot
    PROVE  (a - b) % Size = IF a >= b THEN a - b ELSE a - b + Size
  <1>1. /\ a - b \in Int
        /\ a >= b => 0 <= a - b /\ a - b < Size
        /\ ~(a >= b) => 0 - Size <= a - b /\ a - b < 0
    BY SizeIs
  <1>2. QED
    BY <1>1, SizeIs, ModFacts

LEMMA NextIs ==
    ASSUME NEW a \in Slot
    PROVE  /\ Next1(a) = IF a = Size - 1 THEN 0 ELSE a + 1
           /\ Next1(a) \in Slot
  <1>1. /\ a + 1 \in Int /\ 0 <= a + 1
        /\ a = Size - 1 => a + 1 = Size
        /\ a # Size - 1 => a + 1 < Size
    BY SizeIs
  <1>2. Next1(a) = IF a = Size - 1 THEN 0 ELSE a + 1
    BY <1>1, SizeIs, ModFacts DEF Next1
  <1>3. QED
    BY <1>1, <1>2, SizeIs

\* How much is in the ring, and how far behind its oldest character is.
UsedSays ==
    /\ Used = IF put_index >= get_index THEN put_index - get_index
                                        ELSE put_index - get_index + Size
    /\ Used \in 0 .. Size - 1
    /\ Used > 0 => Back(get_index) = Used
    /\ Used = 0 <=> put_index = get_index

LEMMA UsedFacts == TypeOK => UsedSays
  <1> SUFFICES ASSUME TypeOK
               PROVE  UsedSays
    OBVIOUS
  <1>1. put_index \in Slot /\ get_index \in Slot
    BY DEF TypeOK
  <1>2. Used = IF put_index >= get_index THEN put_index - get_index
                                         ELSE put_index - get_index + Size
    BY <1>1, MinusIs DEF Used
  <1>3. QED
    BY <1>1, <1>2, SizeIs DEF Back, UsedSays

LEMMA UsedFactsNext == TypeOK' => UsedSays'
  BY UsedFacts, PTL

\* It holds at the start.
LEMMA SerialInvInit == Init => SerialInv
  <1> SUFFICES ASSUME Init
               PROVE  SerialInv
    OBVIOUS
  <1> USE DEF Init
  <1>1. /\ 0 \in Slot /\ accepted = 0 /\ arrived = 0 /\ Nothing = -1 /\ Garbage = 0
        /\ put_index = 0 /\ get_index = 0
    BY SizeIs
  <1>2. TypeOK
    <2>1. buffer \in [Slot -> 0 .. accepted]
      BY <1>1
    <2>2. QED
      BY <1>1, <2>1 DEF TypeOK
  <1>3. Used = 0
    BY <1>1, <1>2, UsedFacts DEF UsedSays
  <1>4. RingInv
    <2>1. \A s \in Slot : ~(Back(s) <= accepted)
      BY <1>1, SizeIs DEF Back
    <2>2. QED
      BY <1>1, <1>3, <2>1 DEF RingInv
  <1>5. ModeInv /\ ReaderInv
    BY <1>1 DEF ModeInv, ReaderInv
  <1>6. StoredInv
    <2>1. stored = <<>> /\ before = 0 /\ disturbed = FALSE
      OBVIOUS
    <2>2. stored \in Seq(Nat) /\ Len(stored) = 0
      BY <2>1
    <2>3. QED
      BY <1>1, <1>3, <2>1, <2>2 DEF StoredInv
  <1>7. QED
    BY <1>2, <1>4, <1>5, <1>6 DEF SerialInv

\* The handler puts a character into the ring.
LEMMA PutStep ==
    ASSUME SerialInv, hw_serial_isr
    PROVE  SerialInv'
  <1> USE DEF SerialInv
  <1>1. /\ isr = "drain" /\ int_rx
        /\ int_rx' = int_rx /\ irq' = irq /\ pc' = pc /\ p' = p /\ g' = g /\ ch' = ch
        /\ arrived' = arrived /\ stored' = stored /\ before' = before
    BY DEF hw_serial_isr, reader, ModeInv
  <1>2. CASE ~rxne
    <2>1. /\ isr' = "clear" /\ rxne' = rxne /\ accepted' = accepted /\ disturbed' = disturbed
          /\ put_index' = put_index /\ get_index' = get_index /\ buffer' = buffer
      BY <1>2 DEF hw_serial_isr, ring
    <2>2. TypeOK' /\ ModeInv' /\ RingInv' /\ ReaderInv' /\ StoredInv'
      BY <1>1, <2>1 DEF TypeOK, ModeInv, RingInv, ReaderInv, StoredInv, Used, Back
    <2>3. QED
      BY <2>2
  <1>3. CASE rxne
    <2>1. /\ rxne' = FALSE /\ isr' = isr /\ accepted' = accepted + 1
          /\ buffer' = [buffer EXCEPT ![put_index] = accepted + 1]
          /\ put_index' = Next1(put_index)
          /\ get_index' = (IF put_index' = get_index THEN Next1(get_index) ELSE get_index)
          /\ disturbed' = (disturbed \/ put_index' = get_index)
      BY <1>3 DEF hw_serial_isr, serial_ringbuf_putc, Overflows
    <2>2. /\ put_index \in Slot /\ get_index \in Slot /\ accepted \in Nat /\ arrived \in Nat
          /\ buffer \in [Slot -> 0 .. accepted] /\ accepted < arrived
          /\ Size \in Nat /\ Size > 1 /\ Slot = 0 .. Size - 1
      BY <1>3, SizeIs DEF TypeOK, ModeInv
    <2>3. TypeOK'
      <3>1. put_index' \in Slot /\ get_index' \in Slot
        BY <2>1, <2>2, NextIs
      <3>2. buffer' \in [Slot -> 0 .. accepted']
        BY <2>1, <2>2
      <3>3. ch \in 0 .. accepted'
        BY <2>1, <2>2 DEF TypeOK
      <3>4. accepted' \in 0 .. arrived
        BY <2>1, <2>2
      <3>5. QED
        BY <1>1, <2>1, <3>1, <3>2, <3>3, <3>4 DEF TypeOK
    <2>4. put_index' = IF put_index = Size - 1 THEN 0 ELSE put_index + 1
      BY <2>1, <2>2, NextIs
    <2>5. /\ put_index' = get_index <=> Used = Size - 1
          /\ put_index' # get_index => Used' = Used + 1
          /\ put_index' = get_index => Used' = Used
      <3>1. put_index' = IF put_index = Size - 1 THEN 0 ELSE put_index + 1
        BY <2>4
      <3>2. get_index' = IF put_index' = get_index
                         THEN IF get_index = Size - 1 THEN 0 ELSE get_index + 1
                         ELSE get_index
        BY <2>1, <2>2, NextIs
      <3>3. /\ Used = IF put_index >= get_index THEN put_index - get_index
                                                ELSE put_index - get_index + Size
            /\ Used' = IF put_index' >= get_index' THEN put_index' - get_index'
                                                   ELSE put_index' - get_index' + Size
        BY <2>3, UsedFacts, UsedFactsNext DEF UsedSays
      <3>4. QED
        BY <2>2, <3>1, <3>2, <3>3
    <2>6. RingInv'
      <3>1. ASSUME NEW s \in Slot, Back(s)' <= accepted'
            PROVE  buffer'[s] = accepted' + 1 - Back(s)'
        <4>1. CASE s = put_index
          <5>1. Back(s)' = 1
            BY <2>2, <2>4, <4>1 DEF Back
          <5>2. QED
            BY <2>1, <2>2, <4>1, <5>1
        <4>2. CASE s # put_index
          <5>1. Back(s)' = Back(s) + 1 /\ Back(s) \in Nat
            BY <2>2, <2>4, <3>1, <4>2 DEF Back
          <5>2. buffer'[s] = buffer[s] /\ Back(s) <= accepted
            BY <2>1, <2>2, <3>1, <4>2, <5>1
          <5>3. buffer[s] = accepted + 1 - Back(s)
            BY <1>1, <5>2 DEF RingInv
          <5>4. Back(s)' = Back(s) + 1 /\ accepted' = accepted + 1 /\ accepted \in Nat
            BY <2>1, <2>2, <5>1
          <5>5. accepted' + 1 - Back(s)' = accepted + 1 - Back(s)
            BY <5>1, <5>4
          <5>6. QED
            BY <5>2, <5>3, <5>5
        <4>3. QED
          BY <4>1, <4>2
      <3>2. Used' <= accepted'
        <4>1. Used \in Nat /\ Used <= accepted
          BY <1>1, <2>2, UsedFacts DEF RingInv, UsedSays
        <4>2. QED
          BY <2>1, <2>2, <2>5, <4>1
      <3>3. QED
        BY <3>1, <3>2 DEF RingInv
    <2>7. ReaderInv'
      <3>1. disturbed' => accepted' >= Size
        <4>1. CASE disturbed
          BY <1>1, <2>1, <2>2, <4>1 DEF ReaderInv
        <4>2. CASE put_index' = get_index
          BY <1>1, <2>1, <2>2, <2>5, <4>2 DEF RingInv
        <4>3. QED
          BY <2>1, <4>1, <4>2
      <3>2. ASSUME ~disturbed'
            PROVE  /\ g # Nothing => g = get_index'
                   /\ p # Nothing => (p - get_index') % Size <= Used'
                   /\ pc = "getc" => Used' > 0 /\ p # get_index'
                   /\ pc \in {"take", "advance"} => Used' > 0
                   /\ pc = "advance" => ch = accepted' - Used' + 1
        <4>1. ~disturbed /\ get_index' = get_index /\ Used' = Used + 1
          BY <2>1, <2>5, <3>2
        <4>2. Used \in Nat
          BY <2>2, UsedFacts DEF UsedSays
        <4>3. /\ g # Nothing => g = get_index
              /\ p # Nothing => (p - get_index) % Size <= Used
              /\ pc = "getc" => p # get_index
              /\ pc = "advance" => ch = accepted - Used + 1
          BY <1>1, <4>1 DEF ReaderInv
        <4>4. p # Nothing => (p - get_index) % Size \in Int
          BY <2>2, MinusIs DEF TypeOK
        <4>5. QED
          BY <2>1, <2>2, <4>1, <4>2, <4>3, <4>4
      <3>3. QED
        BY <1>1, <3>1, <3>2 DEF ReaderInv
    <2>8. StoredInv'
      <3>1. disturbed' \in BOOLEAN
        BY <2>1 DEF StoredInv
      <3>2. ASSUME ~disturbed'
            PROVE  before + Len(stored) = accepted' - Used'
        <4>1. ~disturbed /\ Used' = Used + 1
          BY <2>1, <2>5, <3>2
        <4>2. before + Len(stored) = accepted - Used
          BY <1>1, <4>1 DEF StoredInv
        <4>3. QED
          BY <2>1, <2>2, <4>1, <4>2, UsedFacts DEF UsedSays
      <3>3. QED
        BY <1>1, <2>1, <3>1, <3>2 DEF StoredInv
    <2>9. ModeInv'
      BY <1>1, <2>1 DEF ModeInv
    <2>10. QED
      BY <2>3, <2>6, <2>7, <2>8, <2>9
  <1>4. QED
    BY <1>2, <1>3

\* Steps that leave the ring as it is, and what has come and gone, keep what is said of it.
LEMMA QuietStep ==
    ASSUME SerialInv, UNCHANGED <<ring, accepted, int_rx>>
    PROVE  /\ RingInv' /\ Used' = Used /\ UsedSays
           /\ accepted \in Nat /\ put_index \in Slot /\ get_index \in Slot
  <1>1. /\ put_index' = put_index /\ get_index' = get_index /\ buffer' = buffer
        /\ accepted' = accepted /\ int_rx' = int_rx
    BY DEF ring
  <1>2. RingInv' /\ Used' = Used
    BY <1>1 DEF SerialInv, RingInv, Used, Back
  <1>3. QED
    BY <1>2, UsedFacts DEF SerialInv, TypeOK

\* The line, the other steps of the handler, and opening and closing the device.
LEMMA OtherStep ==
    ASSUME SerialInv,
           Arrive \/ USART1_IRQHandler \/ ClearPending \/ serial_open \/ serial_close
           \/ UNCHANGED vars
    PROVE  SerialInv'
  <1>1. /\ UNCHANGED <<put_index, get_index, buffer, accepted, int_rx, pc, p, g, ch>>
        /\ UNCHANGED <<stored, before, disturbed>>
        /\ arrived' = arrived \/ arrived' = arrived + 1
        /\ isr' \in {"none", "drain", "clear"} /\ irq' \in BOOLEAN /\ rxne' \in BOOLEAN
        /\ irq' \/ isr' # "none" => int_rx
        /\ rxne' => accepted < arrived'
    <2>1. SerialInv
      OBVIOUS
    <2>2. /\ isr \in {"none", "drain", "clear"} /\ irq \in BOOLEAN /\ rxne \in BOOLEAN
          /\ int_rx \in BOOLEAN /\ accepted \in 0 .. arrived /\ arrived \in Nat
          /\ irq \/ isr # "none" => int_rx
          /\ rxne => accepted < arrived
      BY <2>1 DEF SerialInv, TypeOK, ModeInv
    <2>3. CASE Arrive
      BY <2>2, <2>3 DEF Arrive, ring, reader, counts, last
    <2>4. CASE USART1_IRQHandler
      BY <2>2, <2>4 DEF USART1_IRQHandler, ring, reader, counts, last
    <2>5. CASE ClearPending
      BY <2>2, <2>5 DEF ClearPending, ring, reader, counts, last
    <2>6. CASE serial_open
      BY <2>2, <2>6 DEF serial_open, At, ring, reader, counts, last
    <2>7. CASE serial_close
      BY <2>2, <2>7 DEF serial_close, At, ring, reader, counts, last
    <2>8. CASE UNCHANGED vars
      BY <2>2, <2>8 DEF vars, hw, ring, reader, counts, last
    <2>9. QED
      BY <2>3, <2>4, <2>5, <2>6, <2>7, <2>8
  <1>2. RingInv' /\ Used' = Used
    BY <1>1, QuietStep DEF ring
  <1>3. TypeOK'
    <2>1. accepted \in 0 .. arrived /\ arrived \in Nat
      BY DEF SerialInv, TypeOK, ModeInv
    <2>2. accepted \in 0 .. arrived'
      BY <1>1, <2>1
    <2>3. QED
      BY <1>1, <2>2 DEF SerialInv, TypeOK
  <1>4. ModeInv'
    BY <1>1 DEF SerialInv, ModeInv
  <1>5. ReaderInv'
    BY <1>1, <1>2 DEF SerialInv, ReaderInv
  <1>6. StoredInv'
    BY <1>1, <1>2 DEF SerialInv, StoredInv
  <1>7. QED
    BY <1>2, <1>3, <1>4, <1>5, <1>6 DEF SerialInv

\* A call of read.
LEMMA CallStep ==
    ASSUME SerialInv, NEW size \in ReadSizes, serial_read(size)
    PROVE  SerialInv'
  <1>1. /\ UNCHANGED <<int_rx, irq, rxne, isr, put_index, get_index, buffer, p, g, ch, arrived, accepted>>
        /\ isr = "none" /\ pc = "idle"
        /\ pc' = IF int_rx THEN "size" ELSE "poll"
        /\ stored' = <<>> /\ before' = accepted - Used /\ disturbed' = FALSE
    BY DEF serial_read, At, hw, ring, counts
  <1>2. /\ RingInv' /\ Used' = Used /\ UsedSays /\ accepted \in Nat
    BY <1>1, QuietStep DEF ring
  <1>3. TypeOK'
    BY <1>1 DEF SerialInv, TypeOK
  <1>4. ModeInv'
    BY <1>1 DEF SerialInv, ModeInv
  <1>5. ReaderInv'
    BY <1>1 DEF SerialInv, ReaderInv
  <1>6. StoredInv'
    <2>1. Used \in Int /\ Len(stored') = 0 /\ stored' \in Seq(Nat)
      BY <1>1, <1>2, SizeIs DEF UsedSays
    <2>2. before' \in Int /\ disturbed' \in BOOLEAN /\ before' + Len(stored') = accepted' - Used'
      <3>1. accepted' = accepted /\ Used' = Used /\ before' = accepted - Used /\ disturbed' = FALSE
        BY <1>1, <1>2
      <3>2. accepted \in Int /\ Used \in Int /\ Len(stored') = 0
        BY <1>2, <2>1
      <3>3. before' + 0 = before' /\ before' \in Int
        BY <3>1, <3>2
      <3>4. QED
        BY <3>1, <3>2, <3>3
    <2>3. 1 .. Len(stored') = {}
      BY <2>1
    <2>4. QED
      BY <2>1, <2>2, <2>3 DEF StoredInv
  <1>7. QED
    BY <1>2, <1>3, <1>4, <1>5, <1>6 DEF SerialInv

\* In polling mode nothing is said of the ring.
LEMMA PolledStep ==
    ASSUME SerialInv, ReadPolled
    PROVE  SerialInv'
  <1>1. /\ UNCHANGED <<int_rx, irq, isr, put_index, get_index, buffer, p, g, ch, arrived, before, disturbed>>
        /\ isr = "none" /\ pc = "poll" /\ ~int_rx
        /\ pc' \in {"idle", "poll"} /\ rxne' = FALSE
        /\ accepted' = accepted \/ (rxne /\ accepted' = accepted + 1)
        /\ stored' = stored \/ stored' = Append(stored, accepted + 1)
    <2>1. isr = "none" /\ pc = "poll" /\ ~int_rx /\ rxne \in BOOLEAN
      BY DEF ReadPolled, At, SerialInv, ModeInv, TypeOK
    <2>2. UNCHANGED <<int_rx, irq, isr, put_index, get_index, buffer, p, g, ch, arrived, before, disturbed>>
      BY DEF ReadPolled, ring
    <2>3. CASE rxne
      <3>1. rxne' = FALSE /\ Store(accepted + 1) /\ accepted' = accepted + 1
        BY <2>3 DEF ReadPolled
      <3>2. pc' \in {"idle", "poll"} /\ stored' = Append(stored, accepted + 1)
        BY <2>1, <3>1 DEF Store
      <3>3. QED
        BY <2>1, <2>2, <2>3, <3>1, <3>2
    <2>4. CASE ~rxne
      <3>1. pc' = "idle" /\ rxne' = rxne /\ accepted' = accepted /\ stored' = stored
        BY <2>4 DEF ReadPolled, Return
      <3>2. QED
        BY <2>1, <2>2, <2>4, <3>1
    <2>5. QED
      BY <2>3, <2>4
  <1>2. /\ accepted \in 0 .. arrived /\ arrived \in Nat
        /\ rxne => accepted < arrived
        /\ stored \in Seq(Nat) /\ before \in Int /\ disturbed \in BOOLEAN
        /\ p = Nothing /\ g = Nothing
    BY <1>1 DEF SerialInv, TypeOK, ModeInv, StoredInv, ReaderInv
  <1>3. TypeOK'
    <2>1. buffer \in [Slot -> 0 .. accepted]
      BY DEF SerialInv, TypeOK
    <2>2. accepted' \in 0 .. arrived /\ buffer \in [Slot -> 0 .. accepted']
      BY <1>1, <1>2, <2>1
    <2>3. ch \in 0 .. accepted'
      BY <1>1, <1>2 DEF SerialInv, TypeOK
    <2>4. QED
      BY <1>1, <2>2, <2>3 DEF SerialInv, TypeOK
  <1>4. ModeInv' /\ RingInv'
    BY <1>1 DEF SerialInv, ModeInv, RingInv
  <1>5. ReaderInv'
    BY <1>1, <1>2 DEF ReaderInv
  <1>6. StoredInv'
    <2>1. Append(stored, accepted + 1) \in Seq(Nat)
      BY <1>2
    <2>2. QED
      BY <1>1, <1>2, <2>1 DEF StoredInv
  <1>7. QED
    BY <1>3, <1>4, <1>5, <1>6 DEF SerialInv

\* A load of an index.
LEMMA LoadStep ==
    ASSUME SerialInv, LoadPut \/ LoadGet
    PROVE  SerialInv'
  <1>1. /\ UNCHANGED <<int_rx, irq, rxne, isr, put_index, get_index, buffer, pc, ch, arrived>>
        /\ UNCHANGED <<accepted, stored, before, disturbed>>
        /\ \/ /\ pc \in {"size", "getc"} /\ p' = put_index /\ g' = g
           \/ /\ pc \in {"size", "getc", "take", "advance"} /\ g' = get_index /\ p' = p
    BY DEF LoadPut, LoadGet, At, hw, ring, counts, last
  <1>2. /\ RingInv' /\ Used' = Used /\ UsedSays
        /\ put_index \in Slot /\ get_index \in Slot
    BY <1>1, QuietStep DEF ring
  <1>3. TypeOK'
    BY <1>1, <1>2 DEF SerialInv, TypeOK
  <1>4. ModeInv'
    BY <1>1 DEF SerialInv, ModeInv
  <1>5. ReaderInv'
    <2>1. pc \notin {"idle", "poll"} /\ (pc \in {"take", "advance"} => p' = Nothing)
      BY <1>1 DEF SerialInv, ReaderInv
    <2>2. ASSUME int_rx, ~disturbed
          PROVE  /\ g' # Nothing => g' = get_index
                 /\ p' # Nothing => (p' - get_index) % Size <= Used
                 /\ pc = "getc" => Used > 0 /\ p' # get_index
      <3>1. /\ g # Nothing => g = get_index
            /\ p # Nothing => (p - get_index) % Size <= Used
            /\ pc = "getc" => Used > 0 /\ p # get_index
        BY <2>2 DEF SerialInv, ReaderInv
      <3>2. Used \in Int /\ (put_index - get_index) % Size = Used
        BY <1>2, SizeIs DEF Used, UsedSays
      <3>3. Used > 0 => put_index # get_index
        BY <1>2, SizeIs DEF UsedSays
      <3>4. QED
        BY <1>1, <3>1, <3>2, <3>3
    <2>3. QED
      BY <1>1, <1>2, <2>1, <2>2 DEF SerialInv, ReaderInv
  <1>6. StoredInv'
    BY <1>1, <1>2 DEF SerialInv, StoredInv
  <1>7. QED
    BY <1>2, <1>3, <1>4, <1>5, <1>6 DEF SerialInv

\* The first test.
LEMMA SizeStep ==
    ASSUME SerialInv, serial_ringbuf_size
    PROVE  SerialInv'
  <1>1. /\ UNCHANGED <<int_rx, irq, rxne, isr, put_index, get_index, buffer, ch, arrived>>
        /\ UNCHANGED <<accepted, stored, before, disturbed>>
        /\ pc = "size" /\ p # Nothing /\ g # Nothing
        /\ p' \in {p, Nothing} /\ g' \in {g, Nothing}
        /\ \/ (p - g) % Size # 0 /\ pc' = "getc"
           \/ pc' = "idle" /\ p' = Nothing /\ g' = Nothing
    BY DEF serial_ringbuf_size, Loaded, At, Keep, Return, hw, ring, counts, last
  <1>2. /\ RingInv' /\ Used' = Used /\ UsedSays
        /\ put_index \in Slot /\ get_index \in Slot
    BY <1>1, QuietStep DEF ring
  <1>3. p \in Slot /\ g \in Slot /\ Nothing \notin Slot
    BY <1>1, SizeIs DEF SerialInv, TypeOK
  <1>4. TypeOK'
    BY <1>1, <1>2 DEF SerialInv, TypeOK
  <1>5. ModeInv'
    BY <1>1 DEF SerialInv, ModeInv
  <1>6. ReaderInv'
    <2>1. pc' \in {"getc", "idle"}
      BY <1>1
    <2>2. ASSUME int_rx, ~disturbed
          PROVE  /\ g' # Nothing => g' = get_index
                 /\ p' # Nothing => (p' - get_index) % Size <= Used
                 /\ pc' = "getc" => Used > 0 /\ p' # get_index
      <3>1. g = get_index /\ (p - get_index) % Size <= Used
        BY <1>1, <2>2 DEF SerialInv, ReaderInv
      <3>2. ASSUME pc' = "getc"
            PROVE  Used > 0 /\ p # get_index
        <4>1. (p - get_index) % Size # 0
          BY <1>1, <3>1, <3>2
        <4>2. (p - get_index) % Size \in 0 .. Size - 1 /\ p # get_index
          BY <1>2, <1>3, <4>1, SizeIs
        <4>3. Used \in Int
          BY <1>2, SizeIs DEF UsedSays
        <4>4. QED
          BY <3>1, <4>1, <4>2, <4>3, SizeIs
      <3>3. QED
        BY <1>1, <1>2, <1>3, <3>1, <3>2
    <2>3. QED
      BY <1>1, <1>2, <2>1, <2>2 DEF SerialInv, ReaderInv
  <1>7. StoredInv'
    BY <1>1, <1>2 DEF SerialInv, StoredInv
  <1>8. QED
    BY <1>2, <1>4, <1>5, <1>6, <1>7 DEF SerialInv

\* The second test, which an overflow alone can make fail.
LEMMA TestStep ==
    ASSUME SerialInv, GetcTest
    PROVE  SerialInv'
  <1>1. /\ UNCHANGED <<int_rx, irq, rxne, isr, put_index, get_index, buffer, ch, arrived>>
        /\ UNCHANGED <<accepted, before, disturbed>>
        /\ pc = "getc" /\ p # Nothing /\ g # Nothing /\ p' = Nothing /\ int_rx
        /\ g' \in {g, Nothing}
        /\ \/ g # p /\ pc' = "take" /\ stored' = stored
           \/ g = p /\ pc' \in {"idle", "size"} /\ g' = Nothing /\ stored' = Append(stored, 0)
    <2>1. pc = "getc" /\ int_rx
      BY DEF GetcTest, At, SerialInv, ModeInv
    <2>2. QED
      BY <2>1, SizeIs DEF GetcTest, Loaded, At, Keep, Store, hw, ring
  <1>2. /\ RingInv' /\ Used' = Used /\ UsedSays
        /\ put_index \in Slot /\ get_index \in Slot
    BY <1>1, QuietStep DEF ring
  <1>3. ~disturbed => g # p /\ g = get_index /\ Used > 0
    BY <1>1 DEF SerialInv, ReaderInv
  <1>4. TypeOK'
    BY <1>1, <1>2 DEF SerialInv, TypeOK
  <1>5. ModeInv'
    BY <1>1 DEF SerialInv, ModeInv
  <1>6. ReaderInv'
    <2>1. pc' \in {"take", "idle", "size"} /\ (pc' # "take" => g' = Nothing)
      BY <1>1
    <2>2. ~disturbed => pc' = "take" /\ Used > 0 /\ g' \in {get_index, Nothing}
      BY <1>1, <1>3
    <2>3. QED
      BY <1>1, <1>2, <2>1, <2>2 DEF SerialInv, ReaderInv
  <1>7. StoredInv'
    <2>1. stored \in Seq(Nat) /\ before \in Int /\ disturbed \in BOOLEAN
      BY DEF SerialInv, StoredInv
    <2>2. stored' \in Seq(Nat)
      BY <1>1, <2>1
    <2>3. ~disturbed => stored' = stored
      BY <1>1, <1>3
    <2>4. QED
      BY <1>1, <1>2, <2>1, <2>2, <2>3 DEF SerialInv, StoredInv
  <1>8. QED
    BY <1>2, <1>4, <1>5, <1>6, <1>7 DEF SerialInv

\* The load of the character.
LEMMA TakeStep ==
    ASSUME SerialInv, GetcTake
    PROVE  SerialInv'
  <1>1. /\ UNCHANGED <<int_rx, irq, rxne, isr, put_index, get_index, buffer, p, arrived>>
        /\ UNCHANGED <<accepted, stored, before, disturbed>>
        /\ pc = "take" /\ g # Nothing /\ p = Nothing /\ int_rx
        /\ ch' = buffer[g] /\ pc' = "advance" /\ g' \in {g, Nothing}
    <2>1. pc = "take" /\ p = Nothing /\ int_rx
      BY DEF GetcTake, At, SerialInv, ModeInv, ReaderInv
    <2>2. QED
      BY <2>1 DEF GetcTake, At, Keep, hw, ring, counts, last
  <1>2. /\ RingInv' /\ Used' = Used /\ UsedSays
        /\ put_index \in Slot /\ get_index \in Slot /\ accepted \in Nat
    BY <1>1, QuietStep DEF ring
  <1>3. g \in Slot /\ ch' \in 0 .. accepted
    BY <1>1 DEF SerialInv, TypeOK
  <1>4. TypeOK'
    BY <1>1, <1>2, <1>3 DEF SerialInv, TypeOK
  <1>5. ModeInv'
    BY <1>1 DEF SerialInv, ModeInv
  <1>6. ReaderInv'
    <2>1. ~disturbed => g = get_index /\ Used > 0
      BY <1>1 DEF SerialInv, ReaderInv
    <2>2. ASSUME ~disturbed
          PROVE  ch' = accepted - Used + 1
      <3>1. Back(get_index) = Used /\ Used \in Int
        BY <1>2, <2>1, <2>2, SizeIs DEF UsedSays
      <3>2. buffer[get_index] = accepted + 1 - Used
        BY <1>1, <1>2, <3>1 DEF SerialInv, RingInv
      <3>3. QED
        BY <1>1, <1>2, <2>1, <2>2, <3>1, <3>2
    <2>3. QED
      BY <1>1, <1>2, <2>1, <2>2 DEF SerialInv, ReaderInv
  <1>7. StoredInv'
    BY <1>1, <1>2 DEF SerialInv, StoredInv
  <1>8. QED
    BY <1>2, <1>4, <1>5, <1>6, <1>7 DEF SerialInv

\* The store of the get index: after an overflow any slot, and there is a character behind each.
LEMMA AdvanceStep ==
    ASSUME SerialInv, GetcAdvance
    PROVE  SerialInv'
  <1>1. /\ UNCHANGED <<int_rx, irq, rxne, isr, put_index, buffer, p, arrived>>
        /\ UNCHANGED <<accepted, before, disturbed>>
        /\ pc = "advance" /\ g # Nothing /\ p = Nothing /\ int_rx
        /\ get_index' = Next1(g) /\ g' = Nothing /\ ch' = 0
        /\ pc' \in {"idle", "size"} /\ stored' = Append(stored, ch)
    <2>1. pc = "advance" /\ p = Nothing /\ int_rx
      BY DEF GetcAdvance, At, SerialInv, ModeInv, ReaderInv
    <2>2. QED
      BY <2>1, SizeIs DEF GetcAdvance, Store, At, hw
  <1>2. /\ put_index \in Slot /\ get_index \in Slot /\ accepted \in Nat
        /\ g \in Slot /\ ch \in Nat /\ UsedSays
    BY <1>1, UsedFacts DEF SerialInv, TypeOK
  <1>3. TypeOK'
    <2>1. get_index' \in Slot
      BY <1>1, <1>2, NextIs
    <2>2. QED
      BY <1>1, <1>2, <2>1 DEF SerialInv, TypeOK
  <1>4. UsedSays'
    BY <1>3, UsedFactsNext
  <1>5. ~disturbed => /\ g = get_index /\ Used > 0 /\ Used' = Used - 1
                      /\ ch = accepted - Used + 1
    <2>1. ~disturbed => g = get_index /\ Used > 0 /\ ch = accepted - Used + 1
      BY <1>1 DEF SerialInv, ReaderInv
    <2>2. get_index' = IF g = Size - 1 THEN 0 ELSE g + 1
      BY <1>1, <1>2, NextIs
    <2>3. ASSUME g = get_index, Used > 0
          PROVE  Used' = Used - 1
      BY <1>1, <1>2, <1>4, <2>2, <2>3, SizeIs DEF UsedSays
    <2>4. QED
      BY <2>1, <2>3
  <1>6. RingInv'
    <2>1. \A s \in Slot : Back(s)' = Back(s)
      BY <1>1 DEF Back
    <2>2. Used' <= accepted
      <3>1. CASE disturbed
        BY <1>1, <1>2, <1>4, <3>1, SizeIs DEF SerialInv, ReaderInv, UsedSays
      <3>2. CASE ~disturbed
        BY <1>1, <1>2, <1>5, <3>2, SizeIs DEF SerialInv, RingInv, UsedSays
      <3>3. QED
        BY <3>1, <3>2
    <2>3. QED
      BY <1>1, <2>1, <2>2 DEF SerialInv, RingInv
  <1>7. ModeInv'
    BY <1>1 DEF SerialInv, ModeInv
  <1>8. ReaderInv'
    BY <1>1 DEF SerialInv, ReaderInv
  <1>9. StoredInv'
    <2>1. stored \in Seq(Nat) /\ before \in Int /\ disturbed \in BOOLEAN
      BY DEF SerialInv, StoredInv
    <2>2. /\ stored' \in Seq(Nat) /\ Len(stored') = Len(stored) + 1
          /\ \A i \in 1 .. Len(stored) : stored'[i] = stored[i]
          /\ stored'[Len(stored) + 1] = ch
      BY <1>1, <1>2, <2>1
    <2>3. ASSUME ~disturbed
          PROVE  /\ \A i \in 1 .. Len(stored') : stored'[i] = before + i
                 /\ before + Len(stored') = accepted - Used'
      <3>1. /\ \A i \in 1 .. Len(stored) : stored[i] = before + i
            /\ before + Len(stored) = accepted - Used
        BY <1>1, <2>3 DEF SerialInv, StoredInv
      <3>2. Used \in Int /\ Len(stored) \in Nat
        BY <1>2, <2>1, SizeIs DEF UsedSays
      <3>3. before + Len(stored') = accepted - Used' /\ ch = before + Len(stored')
        <4>1. Used' = Used - 1 /\ ch = accepted - Used + 1 /\ Len(stored') = Len(stored) + 1
          BY <1>5, <2>2, <2>3
        <4>2. QED
          BY <1>2, <2>1, <3>1, <3>2, <4>1
      <3>4. \A i \in 1 .. Len(stored') : stored'[i] = before + i
        <4> SUFFICES ASSUME NEW i \in 1 .. Len(stored')
                     PROVE  stored'[i] = before + i
          OBVIOUS
        <4>1. CASE i = Len(stored')
          <5>1. stored'[i] = ch /\ ch = before + i
            BY <2>2, <3>3, <4>1
          <5>2. QED
            BY <5>1
        <4>2. CASE i # Len(stored')
          <5>1. i \in 1 .. Len(stored)
            BY <2>2, <3>2, <4>2
          <5>2. QED
            BY <2>2, <3>1, <5>1
        <4>3. QED
          BY <4>1, <4>2
      <3>5. QED
        BY <3>3, <3>4
    <2>4. QED
      BY <1>1, <2>1, <2>2, <2>3 DEF StoredInv
  <1>10. QED
    BY <1>3, <1>6, <1>7, <1>8, <1>9 DEF SerialInv

\* Every step keeps it.
LEMMA SerialInvStep == SerialInv /\ [Next]_vars => SerialInv'
  <1> SUFFICES ASSUME SerialInv, [Next]_vars
               PROVE  SerialInv'
    OBVIOUS
  <1>1. CASE Arrive \/ USART1_IRQHandler \/ ClearPending \/ serial_open \/ serial_close
             \/ UNCHANGED vars
    BY <1>1, OtherStep
  <1>2. CASE hw_serial_isr
    BY <1>2, PutStep
  <1>3. CASE CallRead
    BY <1>3, CallStep DEF CallRead
  <1>4. CASE ReadStep
    BY <1>4, PolledStep, LoadStep, SizeStep, TestStep, TakeStep, AdvanceStep DEF ReadStep
  <1>5. QED
    BY <1>1, <1>2, <1>3, <1>4 DEF Next, Interrupt

\* It holds in every state.
LEMMA SerialInvAlways == Spec => []SerialInv
  BY SerialInvInit, SerialInvStep, PTL DEF Spec

\* The indices stay in the ring and what is in it has come, wherever the handler cuts
\* into a read and whatever an overflow does to the index of the reader (serial.c:22-72).
THEOREM SerialTypeCorrect == Spec => []TypeOK
  <1>1. SerialInv => TypeOK
    BY DEF SerialInv
  <1>2. QED
    BY SerialInvAlways, <1>1, PTL

\* A read during which the ring does not overflow returns the oldest characters, in order,
\* each once, and leaves the rest: for every size of the ring and of the reads, any
\* number of characters, and any overflows before (serial.c:33-72, 196-210).
THEOREM SerialReadIsExact == Spec => []ReadIsExact
  <1>1. ASSUME SerialInv
        PROVE  ReadIsExact
    <2>1. ASSUME int_rx, ~disturbed
          PROVE  /\ stored = [i \in 1 .. Len(stored) |-> before + i]
                 /\ before + Len(stored) = accepted - Used
      <3>1. /\ stored \in Seq(Nat)
            /\ \A i \in 1 .. Len(stored) : stored[i] = before + i
            /\ before + Len(stored) = accepted - Used
        BY <1>1, <2>1 DEF SerialInv, StoredInv
      <3>2. stored = [i \in 1 .. Len(stored) |-> stored[i]]
        BY <3>1
      <3>3. QED
        BY <3>1, <3>2
    <2>2. QED
      BY <2>1 DEF ReadIsExact
  <1>2. QED
    BY SerialInvAlways, <1>1, PTL
-----------------------------------------------------------------------------
\* A positive multiple is no less.
LEMMA TimesPositive ==
    ASSUME NEW n \in Nat, NEW d \in Int, d >= 1
    PROVE  n * d >= n
  <1>1. n * (d - 1) >= 0
    <2>1. d - 1 \in Nat
      OBVIOUS
    <2>2. QED
      BY <2>1
  <1>2. n * d = n * (d - 1) + n
    OBVIOUS
  <1>3. QED
    BY <1>1, <1>2

\* Modem.  The types of its variables.
XyzRecord == [mode : {"xmodem", "ymodem"}, file_length : {0, FileLen}, read_length : Nat,
              pkt : Seq(Nat), next_blk : Nat, tx_ack : BOOLEAN, at_eof : BOOLEAN]
XyzTypes ==
    /\ xyz \in XyzRecord
    /\ modem \in {"closed", "opening", "idle", "reading", "hdr", "final",
                  "ended", "failed", "aborted"}
    /\ delivered \in Seq(Nat) /\ want \in Nat
    /\ wire \in Int /\ replies \in Seq({"ACK", "C", "CAN"})
    /\ sender \in [at : 0 .. SenderEnd, sent : BOOLEAN]

\* How many pieces b blocks hold.
Held(b) == IF 2 * b <= FileLen THEN 2 * b ELSE FileLen

\* The receiver has taken b blocks: the reads and what is left of the last one are the
\* beginning of the file.
DataInv(b) ==
    /\ Len(delivered) + Len(xyz.pkt) = Held(b)
    /\ \A i \in 1 .. Len(delivered) : delivered[i] = i
    /\ \A j \in 1 .. Len(xyz.pkt) : xyz.pkt[j] = Len(delivered) + j
    /\ xyz.next_blk = (b + 1) % BlkMod
    /\ xyz.read_length = IF xyz.file_length = 0 THEN 0 ELSE 2 * b

\* The sender is at the last block or the next one, and a packet or an answer is on the
\* line, not both; an acknowledgement is that of the last block.
LineInv(b) ==
    modem \in {"opening", "idle", "reading", "hdr"} =>
        /\ sender.at \in {b, b + 1, SenderEnd}
        /\ wire >= 0 => wire = sender.at /\ sender.sent /\ sender.at # SenderEnd
        /\ sender.at # SenderEnd /\ wire # Silent => replies = <<>>
        /\ sender.at # SenderEnd => Len(replies) <= 1
        /\ sender.at # SenderEnd /\ replies = <<"ACK">> => sender.at = b /\ sender.sent
        /\ xyz.tx_ack => sender.at \in {b, SenderEnd}
        /\ xyz.tx_ack /\ sender.at = b => replies = <<>> /\ wire = Silent /\ sender.sent

\* Where the receiver is.
PlaceInv(b) ==
    /\ modem = "opening" => /\ b = 0 /\ ~xyz.tx_ack /\ sender.at \in {0, SenderEnd}
                            /\ sender.at = 0 => replies # <<"ACK">>
    /\ modem = "hdr" => ~xyz.tx_ack /\ xyz.pkt = <<>>
    /\ modem \in {"final", "ended"} => b = LastBlock /\ xyz.pkt = <<>>

\* The inductive invariant, until all retries go to one block.
XyzInv ==
    respent \/ /\ XyzTypes
               /\ \E b \in 0 .. LastBlock : DataInv(b) /\ LineInv(b) /\ PlaceInv(b)

\* The constants.
LEMMA BlockFacts ==
    /\ FileLen \in Nat /\ FileLen > 0 /\ BlkMod \in Nat /\ BlkMod > 1
    /\ LastBlock \in Nat /\ LastBlock > 0
    /\ 2 * LastBlock = FileLen \/ 2 * LastBlock = FileLen + 1
    /\ EOT = LastBlock + 1 /\ NullName = LastBlock + 2 /\ SenderEnd = LastBlock + 3
    /\ Silent = -1 /\ Damaged = -2 /\ CAN = -3 /\ Padding = 0
  <1>1. FileLen \in Nat /\ FileLen > 0 /\ BlkMod \in Nat /\ BlkMod > 1
    BY XyzAssumption
  <1>2. \A n \in Nat : n > 0 => /\ (n + 1) \div 2 \in Nat /\ (n + 1) \div 2 > 0
                                /\ 2 * ((n + 1) \div 2) = n \/ 2 * ((n + 1) \div 2) = n + 1
    OBVIOUS
  <1>3. /\ LastBlock \in Nat /\ LastBlock > 0
        /\ 2 * LastBlock = FileLen \/ 2 * LastBlock = FileLen + 1
    BY <1>1, <1>2 DEF LastBlock
  <1>4. QED
    BY <1>1, <1>3 DEF EOT, NullName, SenderEnd, Silent, Damaged, CAN, Padding

\* The number after that of a block.
LEMMA NextNumber ==
    ASSUME NEW n \in Nat, n > 1, NEW i \in Nat
    PROVE  /\ i % n \in 0 .. n - 1
           /\ (i + 1) % n = IF i % n = n - 1 THEN 0 ELSE (i % n) + 1
  <1>1. i = n * (i \div n) + (i % n) /\ i % n \in 0 .. n - 1 /\ i \div n \in Int
    OBVIOUS
  <1>2. i + 1 = n * ((i + 1) \div n) + ((i + 1) % n) /\ (i + 1) % n \in 0 .. n - 1
        /\ (i + 1) \div n \in Int
    OBVIOUS
  <1> DEFINE q == i \div n
             u == (i + 1) \div n
             r == i % n
             v == (i + 1) % n
  <1>3. /\ q \in Int /\ u \in Int /\ r \in 0 .. n - 1 /\ v \in 0 .. n - 1
        /\ n * q + r + 1 = n * u + v
    BY <1>1, <1>2
  <1> HIDE DEF q, u, r, v
  <1>4. n * (u - q) = r + 1 - v
    <2>1. n * (u - q) = n * u - n * q
      BY <1>3
    <2>2. n * u \in Int /\ n * q \in Int
      BY <1>3
    <2>3. QED
      BY <1>3, <2>1, <2>2
  <1>5. u - q \in Int /\ r + 1 - v <= n /\ r + 1 - v > 0 - n
    BY <1>3
  <1>6. CASE u - q = 0
    <2>1. n * (u - q) = 0
      BY <1>6
    <2>2. v = r + 1
      BY <1>3, <1>4, <2>1
    <2>3. QED
      BY <1>3, <2>2 DEF r, v
  <1>7. CASE u - q = 1
    <2>1. n * (u - q) = n
      BY <1>7
    <2>2. v = 0 /\ r = n - 1
      BY <1>3, <1>4, <2>1
    <2>3. QED
      BY <1>3, <2>2 DEF r, v
  <1>8. CASE u - q >= 2
    <2>1. u - q - 1 >= 1 /\ n * (u - q - 1) >= n
      BY <1>5, <1>8, TimesPositive
    <2>2. n * (u - q) = n * (u - q - 1) + n
      BY <1>5
    <2>3. FALSE
      BY <1>4, <1>5, <2>1, <2>2
    <2>4. QED
      BY <2>3
  <1>9. CASE u - q <= -1
    <2>1. q - u >= 1 /\ n * (q - u) >= n
      BY <1>3, <1>9, TimesPositive
    <2>2. n * (u - q) = 0 - n * (q - u) /\ n * (q - u) \in Int
      BY <1>3
    <2>3. r + 1 - v = 0 - n * (q - u) /\ r + 1 - v > 0 - n
      BY <1>4, <1>5, <2>2
    <2>4. FALSE
      <3> DEFINE z == n * (q - u)
      <3>1. z \in Int /\ z >= n /\ r + 1 - v = 0 - z /\ r + 1 - v > 0 - n
        BY <2>1, <2>2, <2>3
      <3> HIDE DEF z
      <3>2. QED
        BY <3>1
    <2>5. QED
      BY <2>4
  <1>10. QED
    BY <1>5, <1>6, <1>7, <1>8, <1>9

\* No two blocks in a row have one number, and that before the next is the last.
LEMMA BlkFacts ==
    ASSUME NEW b \in 0 .. LastBlock
    PROVE  /\ Blk(b) = b % BlkMod /\ Blk(b) # (b + 1) % BlkMod
           /\ (((b + 1) % BlkMod) - 1) % BlkMod = Blk(b)
           /\ Blk(b + 1) = (b + 1) % BlkMod
  <1> USE BlockFacts
  <1>1. b # NullName /\ b + 1 # NullName /\ b \in Nat
    OBVIOUS
  <1>2. Blk(b) = b % BlkMod /\ Blk(b + 1) = (b + 1) % BlkMod
    BY <1>1 DEF Blk
  <1>3. /\ b % BlkMod \in 0 .. BlkMod - 1
        /\ (b + 1) % BlkMod = IF b % BlkMod = BlkMod - 1 THEN 0 ELSE (b % BlkMod) + 1
    BY <1>1, NextNumber
  <1>4. (b + 1) % BlkMod # b % BlkMod
    BY <1>3
  <1>5. (((b + 1) % BlkMod) - 1) % BlkMod = b % BlkMod
    <2>1. CASE b % BlkMod = BlkMod - 1
      <3>1. ((b + 1) % BlkMod) - 1 = -1 /\ (-1) % BlkMod = BlkMod - 1
        <4>1. -1 \in Int /\ 0 - BlkMod <= -1 /\ -1 < 0
          OBVIOUS
        <4>2. (-1) % BlkMod = -1 + BlkMod
          BY <4>1, ModFacts
        <4>3. QED
          BY <1>3, <2>1, <4>2
      <3>2. QED
        BY <2>1, <3>1
    <2>2. CASE b % BlkMod # BlkMod - 1
      <3>1. ((b + 1) % BlkMod) - 1 = b % BlkMod /\ b % BlkMod \in Int /\ 0 <= b % BlkMod /\ b % BlkMod < BlkMod
        BY <1>3, <2>2
      <3>2. (b % BlkMod) % BlkMod = b % BlkMod
        BY <3>1, ModFacts
      <3>3. QED
        BY <3>1, <3>2
    <2>3. QED
      BY <2>1, <2>2
  <1>6. QED
    BY <1>2, <1>4, <1>5

\* The beginning of a sequence, and the rest of it.
LEMMA Beginning ==
    ASSUME NEW S, NEW s \in Seq(S), NEW n \in 0 .. Len(s)
    PROVE  /\ SubSeq(s, 1, n) \in Seq(S) /\ Len(SubSeq(s, 1, n)) = n
           /\ \A i \in 1 .. n : SubSeq(s, 1, n)[i] = s[i]
  <1>1. n \in Int /\ n >= 0 /\ \A i \in 1 .. n : s[i] \in S
    OBVIOUS
  <1> DEFINE r == SubSeq(s, 1, n)
  <1>2. r \in Seq(S) /\ Len(r) = (IF 1 <= n THEN n - 1 + 1 ELSE 0)
        /\ \A i \in 1 .. n - 1 + 1 : r[i] = s[1 + i - 1]
    BY <1>1, SubSeqProperties
  <1> HIDE DEF r
  <1>3. r \in Seq(S) /\ Len(r) = n /\ \A i \in 1 .. n : r[i] = s[i]
    BY <1>1, <1>2
  <1>4. QED
    BY <1>3 DEF r

LEMMA Rest ==
    ASSUME NEW S, NEW s \in Seq(S), NEW n \in 0 .. Len(s)
    PROVE  /\ SubSeq(s, n + 1, Len(s)) \in Seq(S) /\ Len(SubSeq(s, n + 1, Len(s))) = Len(s) - n
           /\ \A i \in 1 .. Len(s) - n : SubSeq(s, n + 1, Len(s))[i] = s[n + i]
  <1>1. n + 1 \in Int /\ Len(s) \in Int /\ \A i \in n + 1 .. Len(s) : s[i] \in S
    OBVIOUS
  <1> DEFINE r == SubSeq(s, n + 1, Len(s))
  <1>2. r \in Seq(S) /\ Len(r) = (IF n + 1 <= Len(s) THEN Len(s) - (n + 1) + 1 ELSE 0)
        /\ \A i \in 1 .. Len(s) - (n + 1) + 1 : r[i] = s[n + 1 + i - 1]
    BY <1>1, SubSeqProperties
  <1> HIDE DEF r
  <1>3. Len(r) = Len(s) - n
    BY <1>1, <1>2
  <1>4. ASSUME NEW i \in 1 .. Len(s) - n
        PROVE  r[i] = s[n + i]
    <2>1. i \in 1 .. Len(s) - (n + 1) + 1 /\ n + 1 + i - 1 = n + i
      BY <1>1
    <2>2. QED
      BY <1>2, <2>1
  <1>5. QED
    BY <1>2, <1>3, <1>4 DEF r

\* The answers on the line.
LEMMA AnswerSeqs ==
    /\ Len(<<>>) = 0 /\ <<>> \in Seq({"ACK", "C", "CAN"})
    /\ \A c \in {"ACK", "C", "CAN"} : /\ <<c>> \in Seq({"ACK", "C", "CAN"}) /\ Len(<<c>>) = 1
                                    /\ <<c>> # <<>> /\ Head(<<c>>) = c
    /\ <<"C">> # <<"ACK">>
  <1>1. Len(<<>>) = 0 /\ <<>> \in Seq({"ACK", "C", "CAN"})
    OBVIOUS
  <1>2. ASSUME NEW c \in {"ACK", "C", "CAN"}
        PROVE  /\ <<c>> \in Seq({"ACK", "C", "CAN"}) /\ Len(<<c>>) = 1
               /\ <<c>> # <<>> /\ Head(<<c>>) = c
    OBVIOUS
  <1>3. <<"C">> # <<"ACK">>
    OBVIOUS
  <1>4. QED
    BY <1>1, <1>2, <1>3

\* What is kept of the next block continues what is there.
LEMMA KeptFacts ==
    ASSUME XyzTypes, NEW b \in 0 .. LastBlock - 1,
           xyz.read_length = IF xyz.file_length = 0 THEN 0 ELSE 2 * b
    PROVE  /\ Kept(Pieces(b + 1)) \in Seq(Nat)
           /\ Held(b) = 2 * b
           /\ Len(Kept(Pieces(b + 1))) = Held(b + 1) - Held(b)
           /\ \A j \in 1 .. Held(b + 1) - Held(b) : Kept(Pieces(b + 1))[j] = Held(b) + j
  <1> DEFINE s == Pieces(b + 1)
             k == Kept(s)
  <1> USE BlockFacts
  <1>1. /\ b \in Nat /\ 2 * b + 1 <= FileLen /\ b + 1 \in 1 .. LastBlock
        /\ 2 * (b + 1) - 1 = 2 * b + 1 /\ 2 * (b + 1) = 2 * b + 2
    OBVIOUS
  <1>2. Held(b) = 2 * b
    BY <1>1 DEF Held
  <1>3. s = <<2 * b + 1, Piece(2 * b + 2)>>
    <2>1. s = <<Piece(2 * (b + 1) - 1), Piece(2 * (b + 1))>>
      BY <1>1 DEF Pieces
    <2>2. Piece(2 * b + 1) = 2 * b + 1
      BY <1>1 DEF Piece
    <2>3. QED
      BY <1>1, <2>1, <2>2
  <1> DEFINE n == Held(b + 1) - Held(b)
  <1>4. k = SubSeq(s, 1, n)
    <2>1. s # <<>> /\ Len(s) = 2 /\ DOMAIN s = {1, 2} /\ s[1] = 2 * b + 1 /\ s[2] = Piece(2 * b + 2)
      BY <1>3
    <2>2. CASE 2 * b + 2 <= FileLen
      <3>1. n = 2 /\ s[2] = 2 * b + 2
        BY <1>1, <1>2, <2>1, <2>2 DEF Held, Piece
      <3>2. CASE xyz.file_length = 0
        <4>1. {0} \cup {i \in DOMAIN s : s[i] # Padding} = {0, 1, 2}
          BY <1>1, <2>1, <3>1
        <4>2. Max({0, 1, 2}) = 2
          BY DEF Max
        <4>3. k = SubSeq(s, 1, 2)
          BY <3>2, <4>1, <4>2 DEF Kept, Unpadded
        <4>4. QED
          BY <3>1, <4>3
      <3>3. CASE xyz.file_length # 0
        <4>1. xyz.file_length = FileLen /\ xyz.read_length = 2 * b
          BY <3>3 DEF XyzTypes, XyzRecord
        <4>2. xyz.read_length + Len(s) - xyz.file_length = 2 * b + 2 - FileLen
          BY <2>1, <4>1
        <4>3. ~(2 * b + 2 - FileLen > 0) /\ 2 - 0 = 2
          BY <1>1, <2>2
        <4>4. k = SubSeq(s, 1, Len(s) - 0)
          BY <3>3, <4>2, <4>3 DEF Kept
        <4>5. QED
          BY <2>1, <3>1, <4>3, <4>4
      <3>4. QED
        BY <3>2, <3>3
    <2>3. CASE ~(2 * b + 2 <= FileLen)
      <3>1. n = 1 /\ s[2] = Padding /\ FileLen = 2 * b + 1
        BY <1>1, <1>2, <2>1, <2>3 DEF Held, Piece
      <3>2. CASE xyz.file_length = 0
        <4>1. {0} \cup {i \in DOMAIN s : s[i] # Padding} = {0, 1}
          BY <1>1, <2>1, <3>1
        <4>2. Max({0, 1}) = 1
          BY DEF Max
        <4>3. k = SubSeq(s, 1, 1)
          BY <3>2, <4>1, <4>2 DEF Kept, Unpadded
        <4>4. QED
          BY <3>1, <4>3
      <3>3. CASE xyz.file_length # 0
        <4>1. xyz.file_length = FileLen /\ xyz.read_length = 2 * b
          BY <3>3 DEF XyzTypes, XyzRecord
        <4>2. xyz.read_length + Len(s) - xyz.file_length = 2 * b + 2 - FileLen
          BY <2>1, <4>1
        <4>3. 2 * b + 2 - FileLen = 1 /\ 1 > 0 /\ 2 - 1 = 1
          BY <1>1, <3>1
        <4>4. k = SubSeq(s, 1, Len(s) - 1)
          BY <3>3, <4>2, <4>3 DEF Kept
        <4>5. QED
          BY <2>1, <3>1, <4>3, <4>4
      <3>4. QED
        BY <3>2, <3>3
    <2>4. QED
      BY <2>2, <2>3
  <1>5. s \in Seq(Nat) /\ n \in 0 .. Len(s)
    <2>1. 2 * b + 1 \in Nat /\ Piece(2 * b + 2) \in Nat
      BY <1>1 DEF Piece
    <2>2. s \in Seq(Nat) /\ Len(s) = 2
      <3>1. \A x, y \in Nat : <<x, y>> \in Seq(Nat) /\ Len(<<x, y>>) = 2
        OBVIOUS
      <3>2. QED
        BY <1>3, <2>1, <3>1
    <2>3. n \in 0 .. 2
      BY <1>1, <1>2 DEF Held
    <2>4. QED
      BY <2>2, <2>3
  <1>6. k \in Seq(Nat) /\ Len(k) = n /\ \A j \in 1 .. n : k[j] = s[j]
    <2> HIDE DEF s, n, k
    <2>1. QED
      BY <1>4, <1>5, Beginning
  <1>7. ASSUME NEW j \in 1 .. n
        PROVE  s[j] = 2 * b + j
    <2>1. j = 1 \/ (j = 2 /\ 2 * b + 2 <= FileLen)
      BY <1>1, <1>2 DEF Held
    <2>2. QED
      BY <1>1, <1>3, <2>1 DEF Piece
  <1>8. QED
    BY <1>2, <1>6, <1>7

\* What the invariant says.
Known(b) == XyzTypes /\ DataInv(b) /\ LineInv(b) /\ PlaceInv(b)

LEMMA XyzInvInit == XyzInit => XyzInv
  <1> SUFFICES ASSUME XyzInit
               PROVE  Known(0)
    BY BlockFacts DEF XyzInv, Known
  <1> USE BlockFacts
  <1>1. /\ xyz = Closed /\ modem = "closed" /\ want = 0 /\ delivered = <<>> /\ wire = -1
        /\ replies = <<>> /\ sender = [at |-> SenderEnd, sent |-> FALSE]
    BY DEF XyzInit
  <1>2. /\ xyz.pkt = <<>> /\ xyz.next_blk = 1 /\ xyz.file_length = 0 /\ xyz.read_length = 0
        /\ Closed \in XyzRecord
    BY <1>1 DEF Closed, XyzRecord
  <1>3. XyzTypes
    BY <1>1, <1>2 DEF XyzTypes
  <1>4. DataInv(0)
    <2>1. (0 + 1) % BlkMod = 1 /\ Held(0) = 0
      BY ModFacts DEF Held
    <2>2. QED
      BY <1>1, <1>2, <2>1 DEF DataInv
  <1>5. LineInv(0) /\ PlaceInv(0)
    BY <1>1 DEF LineInv, PlaceInv
  <1>6. QED
    BY <1>3, <1>4, <1>5 DEF Known

\* A transfer starts: nothing of the one before is left.
LEMMA OpenStep ==
    ASSUME XyzOpen
    PROVE  XyzInv'
  <1> SUFFICES Known(0)'
    BY BlockFacts DEF XyzInv, Known
  <1> USE BlockFacts
  <1>1. PICK mode \in {"xmodem", "ymodem"}, length \in {0, FileLen} :
            /\ xyz' = [Closed EXCEPT !.mode = mode, !.file_length = length]
            /\ modem' = IF mode = "xmodem" THEN "idle" ELSE "opening"
            /\ want' = 0 /\ delivered' = <<>> /\ replies' = <<"C">> /\ wire' = Silent
            /\ sender' = [at |-> IF mode = "xmodem" THEN 1 ELSE 0, sent |-> FALSE]
    BY DEF XyzOpen, xyzModem_stream_open
  <1>2. xyz' \in XyzRecord /\ xyz'.pkt = <<>> /\ xyz'.next_blk = 1
        /\ xyz'.read_length = 0 /\ xyz'.tx_ack = FALSE
    <2>1. xyz' = [mode |-> mode, file_length |-> length, read_length |-> 0, pkt |-> <<>>,
                  next_blk |-> 1, tx_ack |-> FALSE, at_eof |-> FALSE]
      BY <1>1 DEF Closed
    <2>2. <<>> \in Seq(Nat)
      OBVIOUS
    <2>3. QED
      BY <2>1, <2>2 DEF XyzRecord
  <1>3. /\ <<"C">> \in Seq({"ACK", "C", "CAN"}) /\ <<"C">> # <<"ACK">> /\ Len(<<"C">>) = 1
    OBVIOUS
  <1>4. /\ sender' \in [at : 0 .. SenderEnd, sent : BOOLEAN]
        /\ sender'.at \in {0, 1} /\ modem' \in {"idle", "opening"}
        /\ modem' = "opening" => sender'.at = 0
    BY <1>1
  <1>5. XyzTypes'
    <2>1. delivered' = <<>> /\ <<>> \in Seq(Nat) /\ want' \in Nat
      BY <1>1
    <2>2. replies' \in Seq({"ACK", "C", "CAN"}) /\ wire' \in Int
      BY <1>1, <1>3
    <2>3. QED
      BY <1>2, <1>4, <2>1, <2>2 DEF XyzTypes
  <1>6. DataInv(0)'
    <2>1. (0 + 1) % BlkMod = 1 /\ Held(0) = 0
      BY ModFacts DEF Held
    <2>2. delivered' = <<>> /\ Len(delivered') = 0 /\ Len(xyz'.pkt) = 0
      <3>1. delivered' = <<>>
        BY <1>1
      <3>2. QED
        BY <1>2, <3>1, AnswerSeqs
    <2>3. xyz'.read_length = IF xyz'.file_length = 0 THEN 0 ELSE 2 * 0
      BY <1>2
    <2>4. QED
      BY <1>2, <2>1, <2>2, <2>3 DEF DataInv
  <1>7. LineInv(0)' /\ PlaceInv(0)'
    BY <1>1, <1>2, <1>3, <1>4 DEF LineInv, PlaceInv
  <1>8. QED
    BY <1>5, <1>6, <1>7 DEF Known

\* A step of the sender or of the line leaves what has come as it is.
LEMMA SenderFacts ==
    ASSUME NEW b \in 0 .. LastBlock, Known(b), UNCHANGED receiver,
           wire' \in Int, replies' \in Seq({"ACK", "C", "CAN"}),
           sender' \in [at : 0 .. SenderEnd, sent : BOOLEAN],
           modem \in {"opening", "idle", "reading", "hdr"} => LineInv(b)' /\ PlaceInv(b)'
    PROVE  Known(b)'
  <1>1. /\ xyz' = xyz /\ modem' = modem /\ want' = want /\ delivered' = delivered
    BY DEF receiver
  <1>2. XyzTypes'
    BY <1>1 DEF Known, XyzTypes
  <1>3. DataInv(b)'
    BY <1>1 DEF Known, DataInv
  <1>4. LineInv(b)' /\ PlaceInv(b)'
    BY <1>1 DEF Known, LineInv, PlaceInv
  <1>5. QED
    BY <1>2, <1>3, <1>4 DEF Known

\* An answer that is taken from the line was there alone.
LEMMA AnswerFacts ==
    ASSUME NEW b \in 0 .. LastBlock, Known(b), NEW c, Answer_(c)
    PROVE  /\ UNCHANGED receiver /\ wire = Silent /\ sender.at # SenderEnd
           /\ replies # <<>> /\ Head(replies) = c
           /\ replies' \in Seq({"ACK", "C", "CAN"}) /\ Len(replies') = Len(replies) - 1
           /\ modem \in {"opening", "idle", "reading", "hdr"} => replies' = <<>> /\ replies = <<c>>
  <1>1. /\ UNCHANGED receiver /\ wire = Silent /\ sender.at # SenderEnd
        /\ replies # <<>> /\ Head(replies) = c /\ replies' = Tail(replies)
    BY DEF Answer_
  <1>2. replies \in Seq({"ACK", "C", "CAN"})
    BY DEF Known, XyzTypes
  <1>3. /\ replies' \in Seq({"ACK", "C", "CAN"}) /\ Len(replies') = Len(replies) - 1
        /\ Len(replies) \in Nat \ {0}
    BY <1>1, <1>2
  <1>4. ASSUME modem \in {"opening", "idle", "reading", "hdr"}
        PROVE  replies' = <<>> /\ replies = <<c>>
    <2>1. Len(replies) = 1
      BY <1>1, <1>3, <1>4 DEF Known, LineInv
    <2>2. QED
      BY <1>1, <1>2, <1>3, <2>1
  <1>5. QED
    BY <1>1, <1>3, <1>4

\* The sender is asked for the packet it is at.
LEMMA AskedStep ==
    ASSUME NEW b \in 0 .. LastBlock, Known(b), SenderAsked
    PROVE  Known(b)'
  <1> USE BlockFacts
  <1>1. /\ Answer_("C") /\ wire' = sender.at /\ sender' = [sender EXCEPT !.sent = TRUE]
    BY DEF SenderAsked
  <1>2. /\ UNCHANGED receiver /\ wire = Silent /\ sender.at # SenderEnd
        /\ replies' \in Seq({"ACK", "C", "CAN"})
        /\ modem \in {"opening", "idle", "reading", "hdr"} => replies' = <<>> /\ replies = <<"C">>
    BY <1>1, AnswerFacts
  <1>3. sender \in [at : 0 .. SenderEnd, sent : BOOLEAN]
    BY DEF Known, XyzTypes
  <1>4. /\ sender' \in [at : 0 .. SenderEnd, sent : BOOLEAN] /\ sender'.at = sender.at
        /\ sender'.sent = TRUE /\ sender.at \in 0 .. SenderEnd
    BY <1>1, <1>3
  <1>5. xyz' = xyz /\ modem' = modem
    BY <1>2 DEF receiver
  <1>6. ASSUME modem \in {"opening", "idle", "reading", "hdr"}
        PROVE  LineInv(b)' /\ PlaceInv(b)'
    <2>1. replies' = <<>> /\ replies # <<>> /\ <<>> # <<"ACK">> /\ Len(<<>>) = 0
      BY <1>2, <1>6, AnswerSeqs
    <2>2. ~(xyz.tx_ack /\ sender.at = b)
      BY <1>6, <2>1 DEF Known, LineInv
    <2>3. LineInv(b)'
      BY <1>1, <1>2, <1>4, <1>5, <1>6, <2>1, <2>2 DEF Known, LineInv
    <2>4. PlaceInv(b)'
      BY <1>4, <1>5, <1>6, <2>1 DEF Known, PlaceInv
    <2>5. QED
      BY <2>3, <2>4
  <1>7. wire' \in Int
    BY <1>1, <1>4
  <1>8. QED
    BY <1>2, <1>4, <1>6, <1>7, SenderFacts

\* An acknowledgement moves the sender to the next packet.
LEMMA AckedStep ==
    ASSUME NEW b \in 0 .. LastBlock, Known(b), SenderAcked
    PROVE  Known(b)'
  <1> USE BlockFacts
  <1> DEFINE next == IF sender.at = EOT /\ xyz.mode = "xmodem" THEN SenderEnd ELSE sender.at + 1
  <1>1. /\ Answer_("ACK")
        /\ \/ ~sender.sent /\ wire' = wire /\ sender' = sender
           \/ /\ sender.sent /\ sender.at \in 0 .. LastBlock
              /\ wire' = next /\ sender' = [at |-> next, sent |-> TRUE]
           \/ /\ sender.sent /\ sender.at \notin 1 .. LastBlock
              /\ sender' = [at |-> next, sent |-> FALSE] /\ wire' = wire
    BY DEF SenderAcked
  <1>2. /\ UNCHANGED receiver /\ wire = Silent /\ sender.at # SenderEnd
        /\ replies' \in Seq({"ACK", "C", "CAN"})
        /\ modem \in {"opening", "idle", "reading", "hdr"} => replies' = <<>> /\ replies = <<"ACK">>
    BY <1>1, AnswerFacts
  <1>3. sender \in [at : 0 .. SenderEnd, sent : BOOLEAN]
    BY DEF Known, XyzTypes
  <1>4. sender.at \in 0 .. SenderEnd /\ next \in 0 .. SenderEnd
    BY <1>2, <1>3
  <1> HIDE DEF next
  <1>5. sender' \in [at : 0 .. SenderEnd, sent : BOOLEAN] /\ wire' \in Int
    <2>1. /\ [at |-> next, sent |-> TRUE] \in [at : 0 .. SenderEnd, sent : BOOLEAN]
          /\ [at |-> next, sent |-> FALSE] \in [at : 0 .. SenderEnd, sent : BOOLEAN]
      BY <1>4
    <2>2. wire \in Int /\ next \in Int
      BY <1>2, <1>4
    <2>3. QED
      BY <1>1, <1>3, <2>1, <2>2
  <1>6. xyz' = xyz /\ modem' = modem
    BY <1>2 DEF receiver
  <1>7. ASSUME modem \in {"opening", "idle", "reading", "hdr"}
        PROVE  LineInv(b)' /\ PlaceInv(b)'
    <2>1. replies' = <<>> /\ replies = <<"ACK">> /\ replies # <<>> /\ <<>> # <<"ACK">> /\ Len(<<>>) = 0
      BY <1>2, <1>7, AnswerSeqs
    <2>2. sender.at = b /\ sender.sent /\ modem # "opening"
      BY <1>2, <1>7, <2>1 DEF Known, LineInv, PlaceInv
    <2>3. ~xyz.tx_ack
      BY <1>2, <1>7, <2>1, <2>2 DEF Known, LineInv
    <2>4. next = b + 1 /\ b + 1 # SenderEnd /\ b + 1 \in Nat
      BY <2>2 DEF next
    <2>5. /\ sender'.at = b + 1
          /\ wire' = Silent \/ (wire' = b + 1 /\ sender'.sent)
      BY <1>1, <1>2, <2>2, <2>4
    <2>6. LineInv(b)'
      <3>1. Silent < 0 /\ b + 1 # b /\ Len(replies') = 0
        BY <2>1
      <3>2. QED
        BY <1>6, <2>1, <2>3, <2>4, <2>5, <3>1 DEF LineInv
    <2>7. PlaceInv(b)'
      BY <1>6, <1>7, <2>2 DEF Known, PlaceInv
    <2>8. QED
      BY <2>6, <2>7
  <1>8. QED
    BY <1>2, <1>5, <1>7, SenderFacts

\* A sender that stops, what is said to nobody, and the faults of the line.
LEMMA LineStep ==
    ASSUME NEW b \in 0 .. LastBlock, Known(b), SenderStops \/ ForNobody \/ LineFault
    PROVE  Known(b)'
  <1> USE BlockFacts
  <1>1. /\ sender \in [at : 0 .. SenderEnd, sent : BOOLEAN] /\ wire \in Int
        /\ replies \in Seq({"ACK", "C", "CAN"})
    BY DEF Known, XyzTypes
  <1>2. CASE SenderStops
    <2>1. /\ UNCHANGED receiver /\ replies' = replies /\ wire' \in {CAN, Silent}
          /\ sender' = [at |-> SenderEnd, sent |-> FALSE]
      BY <1>2 DEF SenderStops
    <2>2. /\ sender' \in [at : 0 .. SenderEnd, sent : BOOLEAN] /\ sender'.at = SenderEnd
          /\ wire' \in Int /\ ~(wire' >= 0)
      BY <2>1
    <2>3. b # SenderEnd /\ SenderEnd # 0
      OBVIOUS
    <2>4. xyz' = xyz /\ modem' = modem
      BY <2>1 DEF receiver
    <2>5. modem \in {"opening", "idle", "reading", "hdr"} => LineInv(b)' /\ PlaceInv(b)'
      BY <2>2, <2>3, <2>4 DEF Known, LineInv, PlaceInv
    <2>6. QED
      BY <1>1, <2>1, <2>2, <2>5, SenderFacts
  <1>3. CASE ForNobody
    <2>1. /\ UNCHANGED receiver /\ wire' = wire /\ sender' = sender /\ sender.at = SenderEnd
          /\ replies' = <<>>
      BY <1>3 DEF ForNobody
    <2>2. b # SenderEnd /\ SenderEnd # 0
      OBVIOUS
    <2>3. xyz' = xyz /\ modem' = modem
      BY <2>1 DEF receiver
    <2>4. modem \in {"opening", "idle", "reading", "hdr"} => LineInv(b)' /\ PlaceInv(b)'
      BY <2>1, <2>2, <2>3 DEF Known, LineInv, PlaceInv
    <2>5. QED
      BY <1>1, <2>1, <2>4, AnswerSeqs, SenderFacts
  <1>4. CASE LineFault /\ wire # Silent /\ wire' \in {Silent, Damaged} \ {wire} /\ replies' = replies
    <2>1. UNCHANGED receiver /\ sender' = sender /\ wire' \in Int /\ ~(wire' >= 0)
      BY <1>4 DEF LineFault
    <2>2. xyz' = xyz /\ modem' = modem
      BY <2>1 DEF receiver
    <2>3. modem \in {"opening", "idle", "reading", "hdr"} => LineInv(b)' /\ PlaceInv(b)'
      BY <1>4, <2>1, <2>2 DEF Known, LineInv, PlaceInv
    <2>4. QED
      BY <1>1, <1>4, <2>1, <2>3, SenderFacts
  <1>5. CASE LineFault /\ replies # <<>> /\ replies' = Tail(replies) /\ wire' = wire
    <2>1. UNCHANGED receiver /\ sender' = sender
      BY <1>5 DEF LineFault
    <2>2. xyz' = xyz /\ modem' = modem
      BY <2>1 DEF receiver
    <2>3. replies' \in Seq({"ACK", "C", "CAN"}) /\ Len(replies') = Len(replies) - 1 /\ Len(replies) \in Nat \ {0}
      BY <1>1, <1>5
    <2>4. ASSUME modem \in {"opening", "idle", "reading", "hdr"}
          PROVE  LineInv(b)' /\ PlaceInv(b)'
      <3>1. CASE sender.at = SenderEnd
        BY <1>5, <2>1, <2>2, <2>4, <3>1 DEF Known, LineInv, PlaceInv
      <3>2. CASE sender.at # SenderEnd
        <4>1. Len(replies) <= 1
          BY <2>4, <3>2 DEF Known, LineInv
        <4>2. replies' = <<>> /\ <<>> # <<"ACK">> /\ Len(<<>>) = 0
          BY <2>3, <4>1, AnswerSeqs
        <4>3. QED
          BY <1>5, <2>1, <2>2, <2>4, <3>2, <4>2 DEF Known, LineInv, PlaceInv
      <3>3. QED
        BY <3>1, <3>2
    <2>5. QED
      BY <1>1, <1>5, <2>1, <2>3, <2>4, SenderFacts
  <1>6. LineFault => \/ wire # Silent /\ wire' \in {Silent, Damaged} \ {wire} /\ replies' = replies
                     \/ replies # <<>> /\ replies' = Tail(replies) /\ wire' = wire
    BY DEF LineFault
  <1>7. QED
    BY <1>2, <1>3, <1>4, <1>5, <1>6
-----------------------------------------------------------------------------
\* A step of the receiver that takes no block leaves what has come as it is.
LEMMA ReceiverFacts ==
    ASSUME NEW b \in 0 .. LastBlock, Known(b), sender' = sender,
           xyz' \in XyzRecord, want' \in Nat, wire' \in Int,
           modem' \in {"idle", "reading", "hdr", "final", "ended", "failed", "aborted", "opening"},
           replies' \in Seq({"ACK", "C", "CAN"}), delivered' = delivered,
           xyz'.pkt = xyz.pkt, xyz'.next_blk = xyz.next_blk, xyz'.file_length = xyz.file_length,
           xyz'.read_length = xyz.read_length, LineInv(b)', PlaceInv(b)'
    PROVE  Known(b)'
  <1>1. sender \in [at : 0 .. SenderEnd, sent : BOOLEAN] /\ delivered \in Seq(Nat)
    BY DEF Known, XyzTypes
  <1>2. XyzTypes'
    BY <1>1 DEF XyzTypes
  <1>3. DataInv(b)'
    BY DEF Known, DataInv
  <1>4. QED
    BY <1>2, <1>3 DEF Known

\* What is said at the start of such a step.
LEMMA Before ==
    ASSUME NEW b \in 0 .. LastBlock, Known(b)
    PROVE  /\ xyz \in XyzRecord /\ want \in Nat /\ wire \in Int /\ delivered \in Seq(Nat)
           /\ replies \in Seq({"ACK", "C", "CAN"})
           /\ sender \in [at : 0 .. SenderEnd, sent : BOOLEAN]
           /\ xyz.pkt \in Seq(Nat) /\ xyz.tx_ack \in BOOLEAN
           /\ LineInv(b) /\ PlaceInv(b) /\ DataInv(b)
  BY DEF Known, XyzTypes, XyzRecord

\* The steps that open.
LEMMA WaitStep ==
    ASSUME NEW b \in 0 .. LastBlock, Known(b), XyzWaits
    PROVE  Known(b)'
  <1> USE BlockFacts
  <1>1. /\ xyz \in XyzRecord /\ want \in Nat /\ wire \in Int /\ delivered \in Seq(Nat)
        /\ replies \in Seq({"ACK", "C", "CAN"}) /\ LineInv(b) /\ PlaceInv(b)
    BY Before
  <1>2. /\ xyz' = xyz /\ want' = want /\ delivered' = delivered /\ sender' = sender
        /\ wire' \in {wire, Silent}
    BY DEF XyzWaits, OpenHeader, OpenAgain, Cancelled, TakesPacket, TimesOut, Unread, NotReply
  <1>3. wire' \in Int
    BY <1>1, <1>2
  <1>4. CASE OpenHeader
    <2>1. /\ modem = "opening" /\ wire = 0 /\ wire' = Silent /\ modem' = "idle"
          /\ replies' = replies \o <<"ACK">>
      BY <1>4 DEF OpenHeader, TakesPacket, Putc
    <2>2. b = 0 /\ ~xyz.tx_ack /\ sender.at = 0 /\ sender.sent /\ replies = <<>>
      BY <1>1, <2>1 DEF LineInv, PlaceInv
    <2>3. replies' = <<"ACK">>
      BY <2>1, <2>2
    <2>4. LineInv(b)' /\ PlaceInv(b)'
      BY <1>2, <2>1, <2>2, <2>3, AnswerSeqs DEF LineInv, PlaceInv
    <2>5. QED
      BY <1>1, <1>2, <1>3, <2>1, <2>3, <2>4, AnswerSeqs, ReceiverFacts
  <1>5. CASE OpenAgain
    <2>1. /\ modem = "opening" /\ modem' \in {"opening", "failed"}
          /\ \/ wire' = Silent /\ replies' = replies
             \/ wire' = wire /\ replies = <<>> /\ replies' = replies \o <<"C">> /\ wire = Silent
      BY <1>5 DEF OpenAgain, TakesPacket, TimesOut, Putc, Again
    <2>2. replies' = replies \/ (replies' = <<"C">> /\ wire = Silent /\ wire' = wire)
      BY <2>1
    <2>3. replies' \in Seq({"ACK", "C", "CAN"})
      BY <1>1, <2>2, AnswerSeqs
    <2>4. LineInv(b)' /\ PlaceInv(b)'
      BY <1>1, <1>2, <2>1, <2>2, AnswerSeqs DEF LineInv, PlaceInv
    <2>5. QED
      BY <1>1, <1>2, <1>3, <2>1, <2>3, <2>4, ReceiverFacts
  <1>6. CASE Cancelled
    <2>1. modem' = "failed" /\ replies' = replies
      BY <1>6 DEF Cancelled
    <2>2. LineInv(b)' /\ PlaceInv(b)'
      BY <2>1 DEF LineInv, PlaceInv
    <2>3. QED
      BY <1>1, <1>2, <1>3, <2>1, <2>2, ReceiverFacts
  <1>7. QED
    BY <1>4, <1>5, <1>6 DEF XyzWaits
-----------------------------------------------------------------------------
\* An answer goes on the line.
LEMMA PutcFacts ==
    ASSUME replies \in Seq({"ACK", "C", "CAN"}),
           NEW answers \in Seq({"ACK", "C", "CAN"}), Putc(answers)
    PROVE  /\ replies' \in Seq({"ACK", "C", "CAN"})
           /\ replies = <<>> => replies' = answers
           /\ answers = <<>> => replies' = replies
  <1>1. replies' = replies \o answers
    BY DEF Putc
  <1>2. <<>> \o answers = answers /\ replies \o <<>> = replies
    BY ConcatEmptySeq
  <1>3. replies \o answers \in Seq({"ACK", "C", "CAN"})
    BY ConcatProperties
  <1>4. QED
    BY <1>1, <1>2, <1>3

\* A read is asked for, or another block, or the transfer is given up.
LEMMA AskStep ==
    ASSUME NEW b \in 0 .. LastBlock, Known(b),
           \/ \E size \in 1 .. MaxRead : xyzModem_stream_read(size)
           \/ xyzModem_stream_terminate
    PROVE  Known(b)'
  <1>1. /\ xyz \in XyzRecord /\ want \in Nat /\ wire \in Int
        /\ replies \in Seq({"ACK", "C", "CAN"}) /\ LineInv(b) /\ PlaceInv(b)
    BY Before
  <1>2. ASSUME NEW size \in 1 .. MaxRead, xyzModem_stream_read(size)
        PROVE  Known(b)'
    <2>1. /\ modem = "idle" /\ modem' = "reading" /\ want' = size /\ xyz' = xyz
          /\ delivered' = delivered /\ wire' = wire /\ replies' = replies /\ sender' = sender
      BY <1>2 DEF xyzModem_stream_read, NotReply
    <2>2. size \in Nat
      BY XyzAssumption
    <2>3. LineInv(b)' /\ PlaceInv(b)'
      BY <1>1, <2>1 DEF LineInv, PlaceInv
    <2>4. QED
      BY <1>1, <2>1, <2>2, <2>3, ReceiverFacts
  <1>3. CASE xyzModem_stream_terminate
    <2>1. /\ modem' = "aborted" /\ xyz' = [xyz EXCEPT !.at_eof = TRUE] /\ want' = want
          /\ delivered' = delivered /\ wire' = wire /\ sender' = sender /\ Putc(<<"CAN">>)
      BY <1>3 DEF xyzModem_stream_terminate, NotReply
    <2>2. replies' \in Seq({"ACK", "C", "CAN"})
      BY <1>1, <2>1, AnswerSeqs, PutcFacts
    <2>3. /\ xyz' \in XyzRecord /\ xyz'.pkt = xyz.pkt /\ xyz'.next_blk = xyz.next_blk
          /\ xyz'.file_length = xyz.file_length /\ xyz'.read_length = xyz.read_length
      BY <1>1, <2>1 DEF XyzRecord
    <2>4. LineInv(b)' /\ PlaceInv(b)'
      BY <2>1 DEF LineInv, PlaceInv
    <2>5. QED
      BY <1>1, <2>1, <2>2, <2>3, <2>4, ReceiverFacts
  <1>4. QED
    BY <1>2, <1>3

\* The caller gets what there is of the block, or what it asks for if that is less.
LEMMA CopyStep ==
    ASSUME NEW b \in 0 .. LastBlock, Known(b), ReadCopy
    PROVE  Known(b)'
  <1> DEFINE n == IF want < Len(xyz.pkt) THEN want ELSE Len(xyz.pkt)
             m == Len(delivered)
             first == SubSeq(xyz.pkt, 1, n)
             rest == SubSeq(xyz.pkt, n + 1, Len(xyz.pkt))
  <1>1. /\ xyz \in XyzRecord /\ want \in Nat /\ wire \in Int /\ delivered \in Seq(Nat)
        /\ replies \in Seq({"ACK", "C", "CAN"}) /\ xyz.pkt \in Seq(Nat)
        /\ sender \in [at : 0 .. SenderEnd, sent : BOOLEAN]
        /\ LineInv(b) /\ PlaceInv(b) /\ DataInv(b)
    BY Before
  <1>2. /\ modem = "reading" /\ delivered' = delivered \o first
        /\ xyz' = [xyz EXCEPT !.pkt = rest] /\ want' = want - n
        /\ modem' \in {"idle", "reading"}
        /\ wire' = wire /\ replies' = replies /\ sender' = sender
    BY DEF ReadCopy, NotReply
  <1>3. n \in 0 .. Len(xyz.pkt) /\ n <= want /\ n \in Nat /\ m \in Nat /\ Len(xyz.pkt) \in Nat
    BY <1>1
  <1> HIDE DEF n
  <1>4. /\ first \in Seq(Nat) /\ Len(first) = n /\ \A i \in 1 .. n : first[i] = xyz.pkt[i]
    BY <1>1, <1>3, Beginning
  <1>5. /\ rest \in Seq(Nat) /\ Len(rest) = Len(xyz.pkt) - n
        /\ \A i \in 1 .. Len(xyz.pkt) - n : rest[i] = xyz.pkt[n + i]
    BY <1>1, <1>3, Rest
  <1> HIDE DEF first, rest
  <1>6. /\ delivered' \in Seq(Nat) /\ Len(delivered') = m + n
        /\ \A i \in 1 .. m + n : delivered'[i] = IF i <= m THEN delivered[i] ELSE first[i - m]
    <2>1. /\ delivered \o first \in Seq(Nat) /\ Len(delivered \o first) = m + Len(first)
          /\ \A i \in 1 .. m + Len(first) :
                 (delivered \o first)[i] = IF i <= m THEN delivered[i] ELSE first[i - m]
      BY <1>1, <1>4, ConcatProperties
    <2>2. QED
      BY <1>2, <1>4, <2>1
  <1>7. /\ xyz' \in XyzRecord /\ xyz'.pkt = rest /\ xyz'.next_blk = xyz.next_blk
        /\ xyz'.file_length = xyz.file_length /\ xyz'.read_length = xyz.read_length
        /\ xyz'.tx_ack = xyz.tx_ack
    BY <1>1, <1>2, <1>5 DEF XyzRecord
  <1>8. want' \in Nat
    BY <1>1, <1>2, <1>3
  <1>9. XyzTypes'
    BY <1>1, <1>2, <1>6, <1>7, <1>8 DEF XyzTypes
  <1>10. /\ m + Len(xyz.pkt) = Held(b) /\ \A i \in 1 .. m : delivered[i] = i
         /\ \A j \in 1 .. Len(xyz.pkt) : xyz.pkt[j] = m + j
    BY <1>1 DEF DataInv
  <1> HIDE DEF m
  <1>11. Len(delivered') + Len(xyz'.pkt) = Held(b)
    <2>1. Len(delivered') = m + n /\ Len(xyz'.pkt) = Len(xyz.pkt) - n
      BY <1>5, <1>6, <1>7
    <2>2. \A x, y, z \in Nat : x + y + (z - y) = x + z
      OBVIOUS
    <2>3. m + Len(xyz.pkt) = Held(b)
      BY <1>10
    <2>4. m + n + (Len(xyz.pkt) - n) = m + Len(xyz.pkt)
      BY <1>3, <2>2
    <2>5. QED
      BY <2>1, <2>3, <2>4
  <1>12. ASSUME NEW i \in 1 .. Len(delivered')
         PROVE  delivered'[i] = i
    <2>1. i \in 1 .. m + n /\ i \in Nat
      <3>1. Len(delivered') = m + n
        BY <1>6
      <3>2. QED
        BY <1>3, <3>1
    <2>2. CASE i <= m
      <3>1. i \in 1 .. m
        BY <1>3, <2>1, <2>2
      <3>2. delivered[i] = i
        BY <1>10, <3>1
      <3>3. delivered'[i] = delivered[i]
        BY <1>6, <2>1, <2>2
      <3>4. QED
        BY <3>2, <3>3
    <2>3. CASE ~(i <= m)
      <3>1. i - m \in 1 .. n /\ i - m \in 1 .. Len(xyz.pkt)
        BY <1>3, <2>1, <2>3
      <3>2. delivered'[i] = xyz.pkt[i - m]
        BY <1>4, <1>6, <2>1, <2>3, <3>1
      <3>3. m + (i - m) = i
        BY <1>3, <2>1
      <3>4. QED
        BY <1>10, <3>1, <3>2, <3>3
    <2>4. QED
      BY <2>2, <2>3
  <1>13. ASSUME NEW j \in 1 .. Len(xyz'.pkt)
         PROVE  xyz'.pkt[j] = Len(delivered') + j
    <2>1. j \in 1 .. Len(xyz.pkt) - n /\ n + j \in 1 .. Len(xyz.pkt)
          /\ m + (n + j) = m + n + j
      <3>1. j \in 1 .. Len(xyz.pkt) - n
        BY <1>5, <1>7
      <3>2. QED
        BY <1>3, <3>1
    <2>2. xyz'.pkt[j] = xyz.pkt[n + j]
      BY <1>5, <1>7, <2>1
    <2>3. QED
      BY <1>6, <1>10, <2>1, <2>2
  <1>14. DataInv(b)'
    BY <1>1, <1>7, <1>11, <1>12, <1>13 DEF DataInv
  <1>15. LineInv(b)' /\ PlaceInv(b)'
    BY <1>1, <1>2, <1>7 DEF LineInv, PlaceInv
  <1>16. QED
    BY <1>9, <1>14, <1>15 DEF Known

\* A block is acknowledged when the next is asked for: its sender waits for that.
LEMMA MoreStep ==
    ASSUME NEW b \in 0 .. LastBlock, Known(b), ReadMore
    PROVE  Known(b)'
  <1> USE BlockFacts
  <1>1. /\ xyz \in XyzRecord /\ want \in Nat /\ wire \in Int
        /\ replies \in Seq({"ACK", "C", "CAN"}) /\ LineInv(b) /\ PlaceInv(b)
    BY Before
  <1>2. /\ modem = "reading" /\ xyz.pkt = <<>> /\ modem' = "hdr"
        /\ Putc(IF xyz.tx_ack THEN <<"ACK">> ELSE <<>>)
        /\ xyz' = [xyz EXCEPT !.tx_ack = FALSE] /\ want' = want
        /\ delivered' = delivered /\ wire' = wire /\ sender' = sender
    BY DEF ReadMore, NotReply
  <1>3. /\ xyz' \in XyzRecord /\ xyz'.pkt = xyz.pkt /\ xyz'.next_blk = xyz.next_blk
        /\ xyz'.file_length = xyz.file_length /\ xyz'.read_length = xyz.read_length
        /\ xyz'.tx_ack = FALSE
    BY <1>1, <1>2 DEF XyzRecord
  <1>4. PlaceInv(b)'
    BY <1>2, <1>3 DEF PlaceInv
  <1>5. CASE xyz.tx_ack
    <2>1. Putc(<<"ACK">>)
      BY <1>2, <1>5
    <2>2. /\ replies' \in Seq({"ACK", "C", "CAN"})
          /\ replies = <<>> => replies' = <<"ACK">>
      BY <1>1, <2>1, AnswerSeqs, PutcFacts
    <2>3. sender.at # SenderEnd => /\ sender.at = b /\ replies = <<>> /\ wire = Silent
                                   /\ sender.sent
      BY <1>1, <1>2, <1>5 DEF LineInv
    <2>4. sender.at \in {b, b + 1, SenderEnd}
          /\ (wire >= 0 => wire = sender.at /\ sender.sent /\ sender.at # SenderEnd)
      BY <1>1, <1>2 DEF LineInv
    <2>5. /\ sender'.at \in {b, b + 1, SenderEnd}
          /\ wire' >= 0 => wire' = sender'.at /\ sender'.sent /\ sender'.at # SenderEnd
      BY <1>2, <2>4
    <2>6. sender'.at # SenderEnd => /\ wire' = Silent /\ Len(replies') <= 1
                                    /\ sender'.at = b /\ sender'.sent
      <3>1. wire' = wire /\ sender' = sender
        BY <1>2
      <3>2. sender.at # SenderEnd => replies' = <<"ACK">>
        BY <2>2, <2>3
      <3>3. sender.at # SenderEnd => Len(replies') <= 1
        <4>1. Len(<<"ACK">>) = 1 /\ 1 <= 1
          BY AnswerSeqs
        <4>2. replies' = <<"ACK">> => Len(replies') = Len(<<"ACK">>)
          OBVIOUS
        <4>3. QED
          BY <3>2, <4>1, <4>2
      <3>4. QED
        BY <2>3, <3>1, <3>3
    <2>7. LineInv(b)'
      BY <1>3, <2>5, <2>6 DEF LineInv
    <2>8. QED
      BY <1>1, <1>2, <1>3, <1>4, <2>2, <2>7, ReceiverFacts
  <1>6. CASE ~xyz.tx_ack
    <2>1. Putc(<<>>)
      BY <1>2, <1>6
    <2>2. replies' = replies
      BY <1>1, <2>1, AnswerSeqs, PutcFacts
    <2>3. LineInv(b)'
      BY <1>1, <1>2, <1>3, <2>2 DEF LineInv
    <2>4. QED
      BY <1>1, <1>2, <1>3, <1>4, <2>2, <2>3, ReceiverFacts
  <1>7. QED
    BY <1>5, <1>6
-----------------------------------------------------------------------------
\* A block that comes is the last one taken, or the one after it.
LEMMA BlockOnLine ==
    ASSUME NEW b \in 0 .. LastBlock, Known(b), modem = "hdr", IsData(wire)
    PROVE  /\ wire \in {b, b + 1} /\ wire = sender.at /\ sender.sent /\ replies = <<>>
           /\ wire \in 0 .. LastBlock
           /\ Blk(wire) = xyz.next_blk => wire = b + 1 /\ b \in 0 .. LastBlock - 1
           /\ Blk(wire) = (xyz.next_blk - 1) % BlkMod => wire = b
  <1> USE BlockFacts
  <1>1. LineInv(b) /\ DataInv(b)
    BY Before
  <1>2. wire \in 0 .. LastBlock \/ wire = LastBlock + 2
    BY DEF IsData
  <1>3. wire = sender.at /\ sender.sent /\ sender.at # SenderEnd /\ replies = <<>>
        /\ sender.at \in {b, b + 1, SenderEnd}
    BY <1>1, <1>2 DEF LineInv
  <1>4. wire \in {b, b + 1} /\ wire \in 0 .. LastBlock
    BY <1>2, <1>3
  <1>5. xyz.next_blk = (b + 1) % BlkMod
    BY <1>1 DEF DataInv
  <1>6. /\ Blk(b) # (b + 1) % BlkMod /\ (((b + 1) % BlkMod) - 1) % BlkMod = Blk(b)
        /\ Blk(b + 1) = (b + 1) % BlkMod
    BY BlkFacts
  <1>7. Blk(wire) = xyz.next_blk => wire = b + 1
    BY <1>4, <1>5, <1>6
  <1>8. wire = b + 1 => b \in 0 .. LastBlock - 1
    BY <1>4
  <1>9. Blk(wire) = (xyz.next_blk - 1) % BlkMod => wire = b
    BY <1>4, <1>5, <1>6
  <1>10. QED
    BY <1>3, <1>4, <1>7, <1>8, <1>9

\* The next block is taken.
LEMMA NextStep ==
    ASSUME NEW b \in 0 .. LastBlock, Known(b), NextBlock
    PROVE  b + 1 \in 0 .. LastBlock /\ Known(b + 1)'
  <1> USE BlockFacts
  <1> DEFINE k == Kept(Pieces(b + 1))
  <1>1. /\ xyz \in XyzRecord /\ want \in Nat /\ delivered \in Seq(Nat) /\ XyzTypes
        /\ replies \in Seq({"ACK", "C", "CAN"})
        /\ sender \in [at : 0 .. SenderEnd, sent : BOOLEAN]
        /\ LineInv(b) /\ PlaceInv(b) /\ DataInv(b)
    BY Before DEF Known
  <1>2. /\ modem = "hdr" /\ IsData(wire) /\ Blk(wire) = xyz.next_blk
        /\ wire' = Silent /\ modem' = "reading"
        /\ xyz' = [xyz EXCEPT !.tx_ack = TRUE, !.next_blk = (@ + 1) % BlkMod,
                              !.pkt = Kept(Pieces(wire)),
                              !.read_length = IF xyz.file_length = 0 THEN 0 ELSE @ + 2]
        /\ want' = want /\ delivered' = delivered /\ replies' = replies /\ sender' = sender
    BY DEF NextBlock, NotReply
  <1>3. /\ wire = b + 1 /\ wire = sender.at /\ sender.sent /\ replies = <<>>
        /\ b \in 0 .. LastBlock - 1
    BY <1>2, BlockOnLine
  <1>4. b + 1 \in 0 .. LastBlock /\ b \in Nat
    BY <1>3
  <1>5. /\ xyz.next_blk = (b + 1) % BlkMod
        /\ xyz.read_length = IF xyz.file_length = 0 THEN 0 ELSE 2 * b
        /\ Len(delivered) + Len(xyz.pkt) = Held(b)
        /\ \A i \in 1 .. Len(delivered) : delivered[i] = i
    BY <1>1 DEF DataInv
  <1>6. /\ k \in Seq(Nat) /\ Len(k) = Held(b + 1) - Held(b)
        /\ \A j \in 1 .. Held(b + 1) - Held(b) : k[j] = Held(b) + j
    BY <1>1, <1>3, <1>5, KeptFacts
  <1> HIDE DEF k
  <1>7. xyz.pkt = <<>> /\ Len(delivered) = Held(b) /\ Len(delivered) \in Nat
    <2>1. xyz.pkt = <<>>
      BY <1>1, <1>2 DEF PlaceInv
    <2>2. Len(xyz.pkt) = 0 /\ Len(delivered) \in Nat
      BY <1>1, <2>1, AnswerSeqs
    <2>3. QED
      BY <1>5, <2>1, <2>2
  <1>8. (((b + 1) % BlkMod) + 1) % BlkMod = ((b + 1) + 1) % BlkMod /\ (b + 1) % BlkMod \in Nat
    <2>1. b + 1 \in Nat /\ BlkMod \in Nat /\ BlkMod > 1
      BY <1>4
    <2>2. /\ (b + 1) % BlkMod \in 0 .. BlkMod - 1
          /\ ((b + 1) + 1) % BlkMod =
                 IF (b + 1) % BlkMod = BlkMod - 1 THEN 0 ELSE ((b + 1) % BlkMod) + 1
      BY <2>1, NextNumber
    <2> DEFINE r == (b + 1) % BlkMod
    <2>3. r \in 0 .. BlkMod - 1 /\ r \in Nat /\ r + 1 \in 0 .. BlkMod
      BY <2>2
    <2> HIDE DEF r
    <2>4. CASE r = BlkMod - 1
      <3>1. r + 1 = BlkMod /\ BlkMod % BlkMod = 0
        <4>1. \A n \in Nat \ {0} : n % n = 0
          OBVIOUS
        <4>2. QED
          BY <2>1, <2>4, <4>1
      <3>2. (r + 1) % BlkMod = 0
        BY <3>1
      <3>3. QED
        BY <2>2, <2>3, <2>4, <3>2 DEF r
    <2>5. CASE r # BlkMod - 1
      <3>1. r + 1 \in Int /\ 0 <= r + 1 /\ r + 1 < BlkMod
        BY <2>1, <2>3, <2>5
      <3>2. (r + 1) % BlkMod = r + 1
        BY <2>1, <3>1, ModFacts
      <3>3. QED
        BY <2>2, <2>3, <2>5, <3>2 DEF r
    <2>6. QED
      BY <2>4, <2>5
  <1> DEFINE rl == IF xyz.file_length = 0 THEN 0 ELSE xyz.read_length + 2
             nb == (xyz.next_blk + 1) % BlkMod
  <1>9. /\ rl \in Nat /\ rl = IF xyz.file_length = 0 THEN 0 ELSE 2 * (b + 1)
        /\ nb = ((b + 1) + 1) % BlkMod /\ nb \in Nat
    <2>1. xyz.read_length \in Nat /\ 2 * (b + 1) = 2 * b + 2
      BY <1>1, <1>4 DEF XyzRecord
    <2>2. rl \in Nat /\ rl = IF xyz.file_length = 0 THEN 0 ELSE 2 * (b + 1)
      BY <1>5, <2>1
    <2>3. nb = ((b + 1) + 1) % BlkMod
      BY <1>5, <1>8
    <2>4. ((b + 1) + 1) % BlkMod \in Nat
      <3>1. (b + 1) + 1 \in Nat
        BY <1>4
      <3>2. QED
        BY <3>1, NextNumber
    <2>5. QED
      BY <2>2, <2>3, <2>4
  <1> HIDE DEF rl, nb
  <1>10. xyz' = [xyz EXCEPT !.tx_ack = TRUE, !.next_blk = nb, !.pkt = k, !.read_length = rl]
    BY <1>2, <1>3 DEF nb, rl, k
  <1>11. /\ xyz' \in XyzRecord /\ xyz'.pkt = k /\ xyz'.next_blk = nb /\ xyz'.tx_ack = TRUE
         /\ xyz'.read_length = rl /\ xyz'.file_length = xyz.file_length
    BY <1>1, <1>6, <1>9, <1>10 DEF XyzRecord
  <1>12. XyzTypes'
    BY <1>1, <1>2, <1>11 DEF XyzTypes
  <1>13. DataInv(b + 1)'
    <2>1. Held(b) \in Nat /\ Held(b + 1) \in Nat
      BY <1>4 DEF Held
    <2>2. Len(delivered') = Held(b) /\ Len(xyz'.pkt) = Held(b + 1) - Held(b)
      BY <1>2, <1>6, <1>7, <1>11
    <2>3. Len(delivered') + Len(xyz'.pkt) = Held(b + 1)
      BY <2>1, <2>2
    <2>4. \A i \in 1 .. Len(delivered') : delivered'[i] = i
      BY <1>2, <1>5
    <2>5. \A j \in 1 .. Len(xyz'.pkt) : xyz'.pkt[j] = Len(delivered') + j
      BY <1>6, <1>11, <2>2
    <2>6. /\ xyz'.next_blk = ((b + 1) + 1) % BlkMod
          /\ xyz'.read_length = IF xyz'.file_length = 0 THEN 0 ELSE 2 * (b + 1)
      BY <1>9, <1>11
    <2>7. QED
      BY <2>3, <2>4, <2>5, <2>6 DEF DataInv
  <1>14. LineInv(b + 1)' /\ PlaceInv(b + 1)'
    <2>1. /\ sender'.at = b + 1 /\ sender'.sent /\ replies' = <<>> /\ wire' = Silent
          /\ modem' = "reading" /\ Silent < 0
      BY <1>2, <1>3
    <2>2. Len(replies') <= 1 /\ replies' # <<"ACK">>
      BY <2>1, AnswerSeqs
    <2>3. LineInv(b + 1)'
      BY <2>1, <2>2 DEF LineInv
    <2>4. PlaceInv(b + 1)'
      BY <2>1 DEF PlaceInv
    <2>5. QED
      BY <2>3, <2>4
  <1>15. QED
    BY <1>4, <1>12, <1>13, <1>14 DEF Known

\* The last block comes again, and is acknowledged again.
LEMMA RepeatedStep ==
    ASSUME NEW b \in 0 .. LastBlock, Known(b), Repeated
    PROVE  respent' \/ Known(b)'
  <1> USE BlockFacts
  <1> SUFFICES ASSUME ~respent'
               PROVE  Known(b)'
    OBVIOUS
  <1>1. /\ xyz \in XyzRecord /\ want \in Nat /\ wire \in Int
        /\ replies \in Seq({"ACK", "C", "CAN"}) /\ LineInv(b) /\ PlaceInv(b)
    BY Before
  <1>2. /\ modem = "hdr" /\ IsData(wire) /\ Blk(wire) = (xyz.next_blk - 1) % BlkMod
        /\ wire' = Silent /\ Putc(<<"ACK">>) /\ want' = want /\ delivered' = delivered
        /\ sender' = sender
    BY DEF Repeated, NotReply
  <1>3. xyz' = xyz /\ modem' = modem
    BY DEF Repeated
  <1>4. wire = b /\ wire = sender.at /\ sender.sent /\ replies = <<>>
    BY <1>2, BlockOnLine
  <1>5. replies' = <<"ACK">> /\ replies' \in Seq({"ACK", "C", "CAN"}) /\ Len(replies') = 1
    <2>1. replies' = <<"ACK">>
      BY <1>1, <1>2, <1>4, AnswerSeqs, PutcFacts
    <2>2. QED
      BY <2>1, AnswerSeqs
  <1>6. ~xyz.tx_ack /\ xyz.pkt = <<>>
    BY <1>1, <1>2 DEF PlaceInv
  <1>7. LineInv(b)'
    <2>1. sender'.at = b /\ sender'.sent /\ Silent < 0 /\ Len(replies') <= 1 /\ wire' = Silent
      BY <1>2, <1>4, <1>5
    <2>2. QED
      BY <1>3, <1>6, <2>1 DEF LineInv
  <1>8. PlaceInv(b)'
    BY <1>2, <1>3, <1>6 DEF PlaceInv
  <1>9. wire' \in Int
    BY <1>2
  <1>10. QED
    BY <1>1, <1>2, <1>3, <1>5, <1>7, <1>8, <1>9, ReceiverFacts

\* A packet that cannot be used, or none, is asked for again.
LEMMA AgainStep ==
    ASSUME NEW b \in 0 .. LastBlock, Known(b), ReadAgain
    PROVE  Known(b)'
  <1> USE BlockFacts
  <1>1. /\ xyz \in XyzRecord /\ want \in Nat /\ wire \in Int
        /\ replies \in Seq({"ACK", "C", "CAN"}) /\ LineInv(b) /\ PlaceInv(b)
    BY Before
  <1>2. /\ modem = "hdr" /\ modem' \in {"hdr", "failed"} /\ Putc(<<"C">>)
        /\ xyz' = xyz /\ want' = want /\ delivered' = delivered /\ sender' = sender
    BY DEF ReadAgain, Again, Unread, NotReply
  <1>3. wire' = Silent /\ (wire # Silent \/ replies = <<>>)
    BY DEF ReadAgain, TimesOut, OutOfSequence, IsData
  <1>4. replies' \in Seq({"ACK", "C", "CAN"}) /\ (replies = <<>> => replies' = <<"C">>)
    BY <1>1, <1>2, AnswerSeqs, PutcFacts
  <1>5. wire' \in Int
    BY <1>3
  <1>6. ~xyz.tx_ack /\ xyz.pkt = <<>>
    BY <1>1, <1>2 DEF PlaceInv
  <1>7. PlaceInv(b)'
    BY <1>2, <1>6 DEF PlaceInv
  <1>8. LineInv(b)'
    <2>1. /\ sender.at \in {b, b + 1, SenderEnd}
          /\ sender.at # SenderEnd => replies = <<>>
      BY <1>1, <1>2, <1>3 DEF LineInv
    <2>2. Len(<<"C">>) = 1 /\ <<"C">> # <<"ACK">>
      BY AnswerSeqs
    <2>3. sender.at # SenderEnd => Len(replies') <= 1 /\ replies' # <<"ACK">>
      <3>1. replies' = <<"C">> => Len(replies') <= 1 /\ replies' # <<"ACK">>
        BY <2>2
      <3>2. QED
        BY <1>4, <2>1, <3>1
    <2>4. Silent < 0
      OBVIOUS
    <2>5. QED
      BY <1>2, <1>3, <1>6, <2>1, <2>3, <2>4 DEF LineInv
  <1>9. QED
    BY <1>1, <1>2, <1>4, <1>5, <1>7, <1>8, ReceiverFacts

\* The end of the file comes after its last block.
LEMMA EndStep ==
    ASSUME NEW b \in 0 .. LastBlock, Known(b), EndOfFile \/ EndOfBatch
    PROVE  Known(b)'
  <1> USE BlockFacts
  <1>1. /\ xyz \in XyzRecord /\ want \in Nat /\ wire \in Int
        /\ replies \in Seq({"ACK", "C", "CAN"}) /\ LineInv(b) /\ PlaceInv(b)
    BY Before
  <1>2. /\ want' = want /\ delivered' = delivered /\ sender' = sender
        /\ wire' = Silent /\ modem' \in {"final", "ended"}
        /\ xyz' = xyz \/ xyz' = [xyz EXCEPT !.at_eof = TRUE]
    BY DEF EndOfFile, EndOfBatch, TakesPacket, TimesOut, NotReply
  <1>3. PICK answers \in {<<"ACK">>, <<"ACK", "C">>, <<"ACK", "ACK">>} : Putc(answers)
    <2>1. CASE EndOfFile
      BY <2>1 DEF EndOfFile
    <2>2. CASE EndOfBatch
      <3>1. Putc(IF wire = EOT THEN <<"ACK", "ACK">> ELSE <<"ACK">>)
        BY <2>2 DEF EndOfBatch
      <3>2. QED
        BY <3>1
    <2>3. QED
      BY <2>1, <2>2
  <1>4. answers \in Seq({"ACK", "C", "CAN"})
    <2>1. /\ <<"ACK", "C">> \in Seq({"ACK", "C", "CAN"})
          /\ <<"ACK", "ACK">> \in Seq({"ACK", "C", "CAN"})
      OBVIOUS
    <2>2. QED
      BY <1>3, <2>1, AnswerSeqs
  <1>5. replies' \in Seq({"ACK", "C", "CAN"})
    BY <1>1, <1>3, <1>4, PutcFacts
  <1>6. /\ xyz' \in XyzRecord /\ xyz'.pkt = xyz.pkt /\ xyz'.next_blk = xyz.next_blk
        /\ xyz'.file_length = xyz.file_length /\ xyz'.read_length = xyz.read_length
    BY <1>1, <1>2 DEF XyzRecord
  <1>7. b = LastBlock /\ xyz.pkt = <<>>
    <2>1. CASE EndOfFile
      <3>1. modem = "hdr" /\ wire = LastBlock + 1
        BY <2>1 DEF EndOfFile, TakesPacket
      <3>2. wire = sender.at /\ sender.at \in {b, b + 1, SenderEnd} /\ sender.at # SenderEnd
        BY <1>1, <3>1 DEF LineInv
      <3>3. xyz.pkt = <<>>
        BY <1>1, <3>1 DEF PlaceInv
      <3>4. QED
        BY <3>1, <3>2, <3>3
    <2>2. CASE EndOfBatch
      <3>1. modem = "final"
        BY <2>2 DEF EndOfBatch
      <3>2. QED
        BY <1>1, <3>1 DEF PlaceInv
    <2>3. QED
      BY <2>1, <2>2
  <1>8. LineInv(b)'
    BY <1>2 DEF LineInv
  <1>9. PlaceInv(b)'
    BY <1>2, <1>6, <1>7 DEF PlaceInv
  <1>10. wire' \in Int
    BY <1>2
  <1>11. QED
    BY <1>1, <1>2, <1>5, <1>6, <1>8, <1>9, <1>10, ReceiverFacts
-----------------------------------------------------------------------------
LEMMA XyzInvStep == XyzInv /\ [XyzNext]_xyzVars => XyzInv'
  <1> SUFFICES ASSUME XyzInv, [XyzNext]_xyzVars
               PROVE  XyzInv'
    OBVIOUS
  <1>1. CASE XyzOpen
    BY <1>1, OpenStep
  <1>2. CASE ~XyzOpen /\ respent
    <2>1. respent' = respent \/ respent'
      BY <1>2 DEF XyzNext, xyzVars, receiver, XyzWaits, OpenHeader, OpenAgain, Cancelled, Unread,
             XyzReads, xyzModem_stream_read, ReadCopy, ReadMore, NextBlock, Repeated,
             ReadAgain, EndOfFile, EndOfBatch, SenderStep, SenderAsked, SenderAcked,
             Answer_, ForNobody, xyzModem_stream_terminate, SenderStops, LineFault
    <2>2. QED
      BY <1>2, <2>1 DEF XyzInv
  <1>3. CASE ~XyzOpen /\ ~respent
    <2>1. PICK b \in 0 .. LastBlock : Known(b)
      BY <1>3 DEF XyzInv, Known
    <2>2. ASSUME NEW c \in 0 .. LastBlock, Known(c)'
          PROVE  XyzInv'
      BY <2>2 DEF XyzInv, Known
    <2>3. CASE XyzWaits
      BY <2>1, <2>2, <2>3, WaitStep
    <2>4. CASE XyzReads
      <3>1. CASE \E size \in 1 .. MaxRead : xyzModem_stream_read(size)
        BY <2>1, <2>2, <3>1, AskStep
      <3>2. CASE ReadCopy
        BY <2>1, <2>2, <3>2, CopyStep
      <3>3. CASE ReadMore
        BY <2>1, <2>2, <3>3, MoreStep
      <3>4. CASE NextBlock
        BY <2>1, <2>2, <3>4, NextStep
      <3>5. CASE Repeated
        <4>1. respent' \/ Known(b)'
          BY <2>1, <3>5, RepeatedStep
        <4>2. respent' => XyzInv'
          BY DEF XyzInv
        <4>3. QED
          BY <2>1, <2>2, <4>1, <4>2
      <3>6. CASE ReadAgain
        BY <2>1, <2>2, <3>6, AgainStep
      <3>7. CASE EndOfFile \/ EndOfBatch
        BY <2>1, <2>2, <3>7, EndStep
      <3>8. QED
        BY <2>4, <3>1, <3>2, <3>3, <3>4, <3>5, <3>6, <3>7 DEF XyzReads
    <2>5. CASE SenderAsked
      BY <2>1, <2>2, <2>5, AskedStep
    <2>6. CASE SenderAcked
      BY <2>1, <2>2, <2>6, AckedStep
    <2>7. CASE SenderStops \/ ForNobody \/ LineFault
      BY <2>1, <2>2, <2>7, LineStep
    <2>8. CASE xyzModem_stream_terminate
      BY <2>1, <2>2, <2>8, AskStep
    <2>9. CASE UNCHANGED xyzVars
      <3>1. /\ xyz' = xyz /\ modem' = modem /\ want' = want /\ delivered' = delivered
            /\ wire' = wire /\ replies' = replies /\ sender' = sender /\ respent' = respent
        BY <2>9 DEF xyzVars, receiver
      <3>2. Known(b)'
        BY <2>1, <3>1 DEF Known, XyzTypes, DataInv, LineInv, PlaceInv
      <3>3. QED
        BY <2>1, <2>2, <3>2
    <2>10. QED
      BY <1>3, <2>3, <2>4, <2>5, <2>6, <2>7, <2>8, <2>9 DEF XyzNext, SenderStep
  <1>4. QED
    BY <1>1, <1>2, <1>3

\* The reads return the beginning of the file, and at its end the whole of it.
LEMMA FileFacts == XyzInv => FileInOrder
  <1> SUFFICES ASSUME XyzInv, ~respent
               PROVE  /\ IsPrefix(delivered, File)
                      /\ modem = "ended" => delivered = File
    BY DEF FileInOrder
  <1> USE BlockFacts
  <1>1. PICK b \in 0 .. LastBlock : Known(b)
    BY DEF XyzInv, Known
  <1>2. /\ delivered \in Seq(Nat) /\ xyz.pkt \in Seq(Nat) /\ PlaceInv(b)
        /\ Len(delivered) + Len(xyz.pkt) = Held(b)
        /\ \A i \in 1 .. Len(delivered) : delivered[i] = i
    BY <1>1, Before DEF DataInv
  <1>3. /\ File \in Seq(Nat) /\ Len(File) = FileLen /\ \A i \in 1 .. FileLen : File[i] = i
    <2>1. File = [i \in 1 .. FileLen |-> i]
      BY DEF File
    <2>2. QED
      BY <2>1
  <1>4. Len(delivered) \in Nat /\ Len(xyz.pkt) \in Nat /\ Held(b) <= FileLen /\ Held(b) \in Nat
    BY <1>2 DEF Held
  <1>5. Len(delivered) <= FileLen
    BY <1>2, <1>4
  <1>6. IsPrefix(delivered, File)
    <2>1. SubSeq(delivered, 1, Len(delivered)) = delivered
      BY <1>2, <1>4
    <2> DEFINE m == Len(delivered)
               s == SubSeq(File, 1, m)
    <2>2. m \in 0 .. Len(File)
      BY <1>3, <1>4, <1>5
    <2> HIDE DEF m
    <2>3. s \in Seq(Nat) /\ Len(s) = m /\ \A i \in 1 .. m : s[i] = File[i]
      BY <1>3, <2>2, Beginning
    <2> HIDE DEF s
    <2>4. \A i \in 1 .. m : s[i] = delivered[i]
      <3>1. ASSUME NEW i \in 1 .. m
            PROVE  s[i] = delivered[i]
        <4>1. i \in 1 .. FileLen /\ i \in 1 .. Len(delivered)
          BY <1>3, <2>2 DEF m
        <4>2. QED
          BY <1>2, <1>3, <2>3, <4>1
      <3>2. QED
        BY <3>1
    <2>5. s = delivered
      <3>1. Len(s) = Len(delivered) /\ s \in Seq(Nat) /\ delivered \in Seq(Nat)
        BY <1>2, <2>3 DEF m
      <3>2. \A i \in 1 .. Len(s) : s[i] = delivered[i]
        BY <2>3, <2>4
      <3>3. QED
        BY <3>1, <3>2, SeqEqual
    <2>6. QED
      BY <1>3, <1>5, <2>1, <2>5 DEF IsPrefix, s, m
  <1>7. ASSUME modem = "ended"
        PROVE  delivered = File
    <2>1. b = LastBlock /\ xyz.pkt = <<>>
      BY <1>2, <1>7 DEF PlaceInv
    <2>2. Len(xyz.pkt) = 0 /\ Held(LastBlock) = FileLen
      BY <2>1, AnswerSeqs DEF Held
    <2>3. Len(delivered) = FileLen
      BY <1>2, <1>4, <2>1, <2>2
    <2>4. \A i \in 1 .. Len(delivered) : delivered[i] = File[i]
      BY <1>2, <1>3, <2>3
    <2>5. QED
      BY <1>2, <1>3, <2>3, <2>4, SeqEqual
  <1>8. QED
    BY <1>6, <1>7

\* FileInOrder: whatever the line loses, damages and makes come twice, the reads of
\* xyzModem_stream_read return the beginning of the file, and all of it before they
\* report its end, as long as the retries are not all spent on one block.
THEOREM XyzFileInOrder == XyzSpec => []FileInOrder
  <1>1. XyzSpec => []XyzInv
    BY XyzInvInit, XyzInvStep, PTL DEF XyzSpec
  <1>2. QED
    BY <1>1, FileFacts, PTL
-----------------------------------------------------------------------------
(* The types of the modem, also of a transfer whose retries were all spent.  *)

Answer == {"ACK", "C", "CAN"}

\* How many answers n there are on the line with the packet w, until the transfer is
\* over: none while a packet of the sender is there, since it waits for them, and neither
\* while the receiver has yet to acknowledge one.  Two are there only when the sender
\* has gone, or at the end.
Room(m, tx, at, w, n) ==
    /\ n \in 0 .. 3
    /\ m \in {"opening", "idle", "reading", "hdr"} =>
           (at # SenderEnd /\ w # Silent => n = 0)
    /\ at = SenderEnd => w \in {Silent, CAN, Damaged}
    /\ m \in {"opening", "idle", "reading"} => n <= 1
    /\ m \in {"opening", "hdr"} => ~tx
    /\ m = "hdr" => n <= 1 \/ (n = 2 /\ at = SenderEnd /\ w = Silent)
    /\ m \in {"idle", "reading"} /\ tx => n = 0 /\ (at = SenderEnd \/ w = Silent)
    /\ m = "final" => n <= 2 /\ (at # SenderEnd /\ w # Silent => n <= 1)

BlockTypes ==
    /\ xyz.next_blk \in 0 .. BlkMod - 1 /\ Len(xyz.pkt) <= 2
    /\ retries \in 0 .. MAX_RETRIES /\ (modem \in {"opening", "hdr"} => retries > 0)
    /\ wire \in CAN .. NullName

XyzTypeInv ==
    XyzTypes /\ BlockTypes /\ Room(modem, xyz.tx_ack, sender.at, wire, Len(replies))

\* The beginning of a block is no longer than it.
LEMMA Shorter ==
    ASSUME NEW s \in Seq(Nat), Len(s) = 2, NEW n \in Int, n <= 2
    PROVE  SubSeq(s, 1, n) \in Seq(Nat) /\ Len(SubSeq(s, 1, n)) <= 2
  <1>1. ASSUME NEW i \in 1 .. n
        PROVE  s[i] \in Nat
    <2>1. i \in 1 .. Len(s)
      <3>1. i \in 1 .. 2
        OBVIOUS
      <3>2. QED
        BY <3>1
    <2>2. QED
      BY <2>1, ElementOfSeq
  <1> DEFINE r == SubSeq(s, 1, n)
  <1>2. r \in Seq(Nat) /\ Len(r) = (IF 1 <= n THEN n - 1 + 1 ELSE 0)
    BY <1>1, SubSeqProperties
  <1> HIDE DEF r
  <1>3. r \in Seq(Nat) /\ Len(r) <= 2
    BY <1>2
  <1>4. QED
    BY <1>3 DEF r

LEMMA KeptTypes ==
    ASSUME XyzTypes, NEW i \in Int
    PROVE  /\ Pieces(i) \in Seq(Nat) /\ Len(Pieces(i)) = 2
           /\ Kept(Pieces(i)) \in Seq(Nat) /\ Len(Kept(Pieces(i))) <= 2
  <1> USE BlockFacts
  <1>1. PICK s \in Seq(Nat) : s = Pieces(i) /\ Len(s) = 2 /\ DOMAIN s = {1, 2}
    <2>1. \A x, y \in Nat : /\ <<x, y>> \in Seq(Nat) /\ Len(<<x, y>>) = 2
                            /\ DOMAIN <<x, y>> = {1, 2}
      OBVIOUS
    <2>2. CASE i \in 1 .. LastBlock
      <3>1. 2 * i - 1 \in Nat /\ 2 * i \in Nat
        BY <2>2
      <3>2. Piece(2 * i - 1) \in Nat /\ Piece(2 * i) \in Nat
        BY <3>1 DEF Piece
      <3>3. QED
        BY <2>1, <2>2, <3>2 DEF Pieces
    <2>3. CASE i \notin 1 .. LastBlock
      BY <2>1, <2>3 DEF Pieces
    <2>4. QED
      BY <2>2, <2>3
  <1>2. CASE xyz.file_length = 0
    <2>1. PICK K \in SUBSET {1, 2} : K = {k \in DOMAIN s : s[k] # Padding}
      BY <1>1
    <2>2. PICK n \in 0 .. 2 : n = Max({0} \cup K)
      <3>1. K = {} \/ K = {1} \/ K = {2} \/ K = {1, 2}
        OBVIOUS
      <3>2. Max({0} \cup {}) = 0 /\ Max({0} \cup {1}) = 1
        BY DEF Max
      <3>3. Max({0} \cup {2}) = 2 /\ Max({0} \cup {1, 2}) = 2
        BY DEF Max
      <3>4. PICK n : n = Max({0} \cup K)
        OBVIOUS
      <3>5. n = 0 \/ n = 1 \/ n = 2
        BY <3>1, <3>2, <3>3, <3>4, Zenon
      <3>6. n \in 0 .. 2
        BY <3>5
      <3>7. QED
        BY <3>4, <3>6
    <2>3. Kept(s) = SubSeq(s, 1, n)
      BY <1>2, <2>1, <2>2 DEF Kept, Unpadded
    <2>4. n \in Int /\ n <= 2
      OBVIOUS
    <2>5. SubSeq(s, 1, n) \in Seq(Nat) /\ Len(SubSeq(s, 1, n)) <= 2
      BY <1>1, <2>4, Shorter
    <2>6. QED
      BY <1>1, <2>3, <2>5
  <1>3. CASE xyz.file_length # 0
    <2>1. xyz.read_length \in Nat /\ xyz.file_length \in Nat
      BY DEF XyzTypes, XyzRecord
    <2>2. PICK over \in Int : over = xyz.read_length + 2 - xyz.file_length
      BY <2>1
    <2>3. PICK n \in Int : n = 2 - IF over > 0 THEN over ELSE 0
      OBVIOUS
    <2>4. n <= 2
      BY <2>3
    <2>5. Kept(s) = SubSeq(s, 1, n)
      BY <1>1, <1>3, <2>2, <2>3 DEF Kept
    <2>6. QED
      BY <1>1, <2>4, <2>5, Shorter
  <1>4. QED
    BY <1>2, <1>3

\* Answers that are put on the line, and those that are left of them.
LEMMA PutcLen ==
    ASSUME NEW old \in Seq(Answer), NEW more \in Seq(Answer)
    PROVE  old \o more \in Seq(Answer) /\ Len(old \o more) = Len(old) + Len(more)
  BY ConcatProperties

LEMMA AnswersAre ==
    /\ <<>> \in Seq(Answer) /\ Len(<<>>) = 0
    /\ \A c \in Answer : <<c>> \in Seq(Answer) /\ Len(<<c>>) = 1
    /\ \A c, d \in Answer : <<c, d>> \in Seq(Answer) /\ Len(<<c, d>>) = 2
    /\ {"ACK", "C", "CAN"} = Answer
  <1>1. <<>> \in Seq(Answer) /\ Len(<<>>) = 0
    OBVIOUS
  <1>2. \A c \in Answer : <<c>> \in Seq(Answer) /\ Len(<<c>>) = 1
    OBVIOUS
  <1>3. \A c, d \in Answer : <<c, d>> \in Seq(Answer) /\ Len(<<c, d>>) = 2
    OBVIOUS
  <1>4. QED
    BY <1>1, <1>2, <1>3 DEF Answer

LEMMA TailLen ==
    ASSUME NEW old \in Seq(Answer), old # <<>>
    PROVE  Tail(old) \in Seq(Answer) /\ Len(Tail(old)) = Len(old) - 1 /\ Len(old) > 0
  OBVIOUS

\* There is room for the answers of a step: of the receiver, ...
RoomForReads(m, tx, at, w, n) ==
    /\ m = "idle" => Room("aborted", tx, at, w, n + 1)
    /\ m = "reading" => Room("hdr", FALSE, at, w, n + (IF tx THEN 1 ELSE 0))
    /\ m = "hdr" /\ w >= 0 => /\ Room("reading", TRUE, at, Silent, n)
                              /\ Room("hdr", tx, at, Silent, n + 1)
                              /\ Room("reading", tx, at, Silent, n + 1)
                              /\ Room("ended", tx, at, Silent, n + 1)
                              /\ Room("final", tx, at, Silent, n + 2)
    /\ m = "hdr" /\ (w # Silent \/ n = 0) => /\ Room("hdr", tx, at, Silent, n + 1)
                                             /\ Room("failed", tx, at, Silent, n + 1)
    /\ m = "final" => Room("ended", tx, at, Silent, n + (IF w = EOT THEN 2 ELSE 1))

LEMMA RoomReads ==
    ASSUME NEW m, NEW tx \in BOOLEAN, NEW at \in Int, NEW w \in Int, NEW n \in Nat,
           Room(m, tx, at, w, n)
    PROVE  RoomForReads(m, tx, at, w, n)
  <1> USE BlockFacts DEF Room
  <1>1. m = "idle" => Room("aborted", tx, at, w, n + 1)
    OBVIOUS
  <1>2. ASSUME m = "reading"
        PROVE  Room("hdr", FALSE, at, w, n + (IF tx THEN 1 ELSE 0))
    <2>1. CASE tx
      <3>1. n = 0 /\ n + (IF tx THEN 1 ELSE 0) = 1
        BY <1>2, <2>1
      <3>2. at = SenderEnd \/ w = Silent
        BY <1>2, <2>1
      <3>3. QED
        BY <1>2, <3>1, <3>2
    <2>2. CASE ~tx
      <3>1. n + (IF tx THEN 1 ELSE 0) = n
        BY <2>2
      <3>2. QED
        BY <1>2, <3>1
    <2>3. QED
      BY <2>1, <2>2
  <1>3. ASSUME m = "hdr", w >= 0
        PROVE  /\ Room("reading", TRUE, at, Silent, n) /\ Room("hdr", tx, at, Silent, n + 1)
               /\ Room("reading", tx, at, Silent, n + 1) /\ Room("ended", tx, at, Silent, n + 1)
               /\ Room("final", tx, at, Silent, n + 2)
    <2>1. at # SenderEnd /\ n = 0 /\ ~tx
      BY <1>3
    <2>2. QED
      BY <2>1
  <1>4. ASSUME m = "hdr", w # Silent \/ n = 0
        PROVE  Room("hdr", tx, at, Silent, n + 1) /\ Room("failed", tx, at, Silent, n + 1)
    BY <1>4
  <1>5. m = "final" => Room("ended", tx, at, Silent, n + (IF w = EOT THEN 2 ELSE 1))
    OBVIOUS
  <1> HIDE BlockFacts DEF Room
  <1>6. QED
    BY <1>1, <1>2, <1>3, <1>4, <1>5 DEF RoomForReads

\* ... of the sender, which takes one, and of the line.
RoomForLine(m, tx, at, w, n) ==
    /\ w = Silent /\ at # SenderEnd /\ n > 0 =>
           /\ \A to \in Int : Room(m, tx, to, Silent, n - 1)
           /\ \A to \in Int : to < SenderEnd => Room(m, tx, to, to, n - 1)
    /\ w = Silent /\ at # SenderEnd =>
           Room(m, tx, SenderEnd, CAN, n) /\ Room(m, tx, SenderEnd, Silent, n)
    /\ w # Silent => Room(m, tx, at, Silent, n) /\ Room(m, tx, at, Damaged, n)
    /\ n > 0 => Room(m, tx, at, w, n - 1)

LEMMA RoomLine ==
    ASSUME NEW m, NEW tx \in BOOLEAN, NEW at \in Int, NEW w \in Int, NEW n \in Nat,
           Room(m, tx, at, w, n)
    PROVE  RoomForLine(m, tx, at, w, n)
  <1> USE BlockFacts DEF Room
  <1>1. ASSUME w = Silent, at # SenderEnd, n > 0, NEW to \in Int
        PROVE  /\ Room(m, tx, to, Silent, n - 1)
               /\ to < SenderEnd => Room(m, tx, to, to, n - 1)
    <2>1. n \in 1 .. 3 /\ (m \in {"opening", "idle", "reading", "hdr"} => n = 1)
      BY <1>1
    <2>2. QED
      BY <1>1, <2>1
  <1>2. ASSUME w = Silent, at # SenderEnd
        PROVE  Room(m, tx, SenderEnd, CAN, n) /\ Room(m, tx, SenderEnd, Silent, n)
    BY <1>2
  <1>3. ASSUME w # Silent
        PROVE  Room(m, tx, at, Silent, n) /\ Room(m, tx, at, Damaged, n)
    BY <1>3
  <1>4. n > 0 => Room(m, tx, at, w, n - 1)
    OBVIOUS
  <1> HIDE BlockFacts DEF Room
  <1>5. QED
    BY <1>1, <1>2, <1>3, <1>4 DEF RoomForLine

LEMMA WireFacts == Silent \in CAN .. NullName /\ CAN \in CAN .. NullName
  BY BlockFacts

\* What a step leaves as it is.
LEMMA XyzTypeFacts ==
    ASSUME XyzTypeInv
    PROVE  /\ xyz \in XyzRecord /\ xyz.next_blk \in 0 .. BlkMod - 1 /\ Len(xyz.pkt) <= 2
           /\ xyz.pkt \in Seq(Nat) /\ xyz.tx_ack \in BOOLEAN
           /\ delivered \in Seq(Nat) /\ want \in Nat /\ replies \in Seq(Answer)
           /\ Len(replies) \in Nat
           /\ sender \in [at : 0 .. SenderEnd, sent : BOOLEAN] /\ sender.at \in 0 .. SenderEnd
           /\ retries \in 0 .. MAX_RETRIES /\ MAX_RETRIES \in Nat \ {0}
           /\ modem \in {"opening", "hdr"} => retries > 0
           /\ wire \in CAN .. NullName
           /\ Room(modem, xyz.tx_ack, sender.at, wire, Len(replies))
  <1>1. XyzTypes /\ BlockTypes /\ Room(modem, xyz.tx_ack, sender.at, wire, Len(replies))
    BY DEF XyzTypeInv
  <1>2. /\ xyz \in XyzRecord /\ delivered \in Seq(Nat) /\ want \in Nat
        /\ replies \in Seq(Answer) /\ sender \in [at : 0 .. SenderEnd, sent : BOOLEAN]
    BY <1>1 DEF XyzTypes, Answer
  <1>3. xyz.pkt \in Seq(Nat) /\ xyz.tx_ack \in BOOLEAN /\ sender.at \in 0 .. SenderEnd
    BY <1>2 DEF XyzRecord
  <1>4. Len(replies) \in Nat
    BY <1>2, LenProperties
  <1>5. QED
    BY <1>1, <1>2, <1>3, <1>4, XyzAssumption DEF BlockTypes

ModemPlace == {"closed", "opening", "idle", "reading", "hdr", "final",
               "ended", "failed", "aborted"}

LEMMA XyzTypesNext ==
    ASSUME xyz' \in XyzRecord, xyz'.next_blk \in 0 .. BlkMod - 1, Len(xyz'.pkt) <= 2,
           modem' \in ModemPlace, delivered' \in Seq(Nat), want' \in Nat,
           replies' \in Seq(Answer), sender' \in [at : 0 .. SenderEnd, sent : BOOLEAN],
           retries' \in 0 .. MAX_RETRIES, modem' \in {"opening", "hdr"} => retries' > 0,
           wire' \in CAN .. NullName,
           Room(modem', xyz'.tx_ack, sender'.at, wire', Len(replies'))
    PROVE  XyzTypeInv'
  <1>1. wire' \in Int
    BY BlockFacts
  <1>2. XyzTypes'
    BY <1>1 DEF XyzTypes, Answer, ModemPlace
  <1>3. BlockTypes'
    BY DEF BlockTypes
  <1>4. QED
    BY <1>2, <1>3 DEF XyzTypeInv

LEMMA XyzTypeInit == XyzInit => XyzTypeInv
  <1> SUFFICES ASSUME XyzInit
               PROVE  XyzTypeInv
    OBVIOUS
  <1> USE BlockFacts
  <1>1. /\ xyz = Closed /\ modem = "closed" /\ want = 0 /\ retries = 0 /\ delivered = <<>>
        /\ wire = Silent /\ replies = <<>> /\ sender = [at |-> SenderEnd, sent |-> FALSE]
    BY DEF XyzInit
  <1>2. /\ xyz.pkt = <<>> /\ xyz.next_blk = 1 /\ xyz \in XyzRecord /\ Len(<<>>) = 0
    BY <1>1 DEF Closed, XyzRecord
  <1>3. XyzTypes
    BY <1>1, <1>2 DEF XyzTypes
  <1>4. BlockTypes
    BY <1>1, <1>2, XyzAssumption DEF BlockTypes
  <1>5. Room(modem, xyz.tx_ack, sender.at, wire, Len(replies))
    BY <1>1, <1>2 DEF Room
  <1>6. QED
    BY <1>3, <1>4, <1>5 DEF XyzTypeInv

\* The receiver opens a transfer, or waits for its header.
LEMMA WaitTypes ==
    ASSUME XyzTypeInv, XyzOpen \/ XyzWaits
    PROVE  XyzTypeInv'
  <1> USE BlockFacts
  <1>1. /\ xyz \in XyzRecord /\ xyz.next_blk \in 0 .. BlkMod - 1 /\ Len(xyz.pkt) <= 2
        /\ delivered \in Seq(Nat) /\ want \in Nat /\ replies \in Seq(Answer)
        /\ sender \in [at : 0 .. SenderEnd, sent : BOOLEAN] /\ sender.at \in 0 .. SenderEnd
        /\ Len(replies) \in Nat
        /\ retries \in 0 .. MAX_RETRIES /\ MAX_RETRIES \in Nat \ {0}
        /\ modem \in {"opening", "hdr"} => retries > 0
        /\ wire \in CAN .. NullName
        /\ Room(modem, xyz.tx_ack, sender.at, wire, Len(replies))
    BY XyzTypeFacts
  <1>2. CASE XyzOpen
    <2>1. PICK mode \in {"xmodem", "ymodem"}, length \in {0, FileLen} :
              /\ xyz' = [Closed EXCEPT !.mode = mode, !.file_length = length]
              /\ modem' = IF mode = "xmodem" THEN "idle" ELSE "opening"
              /\ retries' = MAX_RETRIES
              /\ want' = 0 /\ delivered' = <<>> /\ replies' = <<"C">> /\ wire' = Silent
              /\ sender' = [at |-> IF mode = "xmodem" THEN 1 ELSE 0, sent |-> FALSE]
      BY <1>2 DEF XyzOpen, xyzModem_stream_open
    <2>2. xyz' = [mode |-> mode, file_length |-> length, read_length |-> 0, pkt |-> <<>>,
                  next_blk |-> 1, tx_ack |-> FALSE, at_eof |-> FALSE]
      BY <2>1 DEF Closed
    <2>3. <<>> \in Seq(Nat) /\ Len(<<>>) = 0
      OBVIOUS
    <2>4. /\ xyz' \in XyzRecord /\ xyz'.next_blk = 1 /\ Len(xyz'.pkt) = 0
          /\ xyz'.tx_ack = FALSE
      BY <2>2, <2>3 DEF XyzRecord
    <2>5. replies' \in Seq(Answer) /\ Len(replies') = 1
      BY <2>1, AnswersAre
    <2>6. /\ modem' \in {"idle", "opening"} /\ sender'.at \in {0, 1}
          /\ sender' \in [at : 0 .. SenderEnd, sent : BOOLEAN]
      BY <2>1
    <2>7. Room(modem', xyz'.tx_ack, sender'.at, wire', Len(replies'))
      BY <2>1, <2>4, <2>5, <2>6 DEF Room
    <2>8. delivered' \in Seq(Nat) /\ want' \in Nat /\ modem' \in ModemPlace
      BY <2>1, <2>3, <2>6 DEF ModemPlace
    <2>9. retries' \in 0 .. MAX_RETRIES /\ retries' > 0 /\ wire' \in CAN .. NullName
      <3>1. MAX_RETRIES \in 0 .. MAX_RETRIES /\ MAX_RETRIES > 0
        BY XyzAssumption
      <3>2. retries' = MAX_RETRIES /\ wire' = Silent
        BY <2>1
      <3>3. QED
        BY <3>1, <3>2, WireFacts
    <2>10. QED
      BY <2>4, <2>5, <2>6, <2>7, <2>8, <2>9, XyzTypesNext
  <1>3. CASE XyzWaits
    <2>1. /\ xyz' = xyz /\ want' = want /\ delivered' = delivered /\ sender' = sender
          /\ wire' \in {wire, Silent}
      BY <1>3 DEF XyzWaits, OpenHeader, OpenAgain, Cancelled, TakesPacket, TimesOut, Unread, NotReply
    <2>2. wire' \in CAN .. NullName
      BY <1>1, <2>1
    <2>3. CASE OpenHeader
      <3>1. /\ modem = "opening" /\ wire = 0 /\ wire' = Silent /\ modem' = "idle"
            /\ retries' = retries /\ replies' = replies \o <<"ACK">>
        BY <2>3 DEF OpenHeader, TakesPacket, Putc
      <3>2. "ACK" \in Answer
        BY DEF Answer
      <3>3. replies' \in Seq(Answer) /\ Len(replies') = Len(replies) + 1
        BY <1>1, <3>1, <3>2, AnswersAre, PutcLen
      <3>4. Room(modem', xyz'.tx_ack, sender'.at, wire', Len(replies'))
        BY <1>1, <2>1, <3>1, <3>3 DEF Room
      <3>5. QED
        BY <1>1, <2>1, <2>2, <3>1, <3>3, <3>4, XyzTypesNext DEF ModemPlace
    <2>4. CASE OpenAgain
      <3>1. /\ modem = "opening" /\ retries' = retries - 1
            /\ modem' = IF retries = 1 THEN "failed" ELSE modem
            /\ \/ wire' = Silent /\ replies' = replies /\ wire = Damaged
               \/ wire' = wire /\ replies = <<>> /\ replies' = replies \o <<"C">> /\ wire = Silent
        BY <2>4 DEF OpenAgain, TakesPacket, TimesOut, Putc, Again
      <3>2. "C" \in Answer
        BY DEF Answer
      <3>3. /\ replies' \in Seq(Answer)
            /\ Len(replies') = Len(replies) \/ (Len(replies') = Len(replies) + 1 /\ Len(replies) = 0)
        BY <1>1, <3>1, <3>2, AnswersAre, PutcLen
      <3>4. /\ retries' \in 0 .. MAX_RETRIES /\ modem' \in {"opening", "failed"}
            /\ modem' = "opening" => retries' > 0
        BY <1>1, <3>1
      <3>5. wire' = Silent
        BY <3>1
      <3>6. Room(modem', xyz'.tx_ack, sender'.at, wire', Len(replies'))
        BY <1>1, <2>1, <3>1, <3>3, <3>4, <3>5, SMTT(30) DEF Room
      <3>7. QED
        BY <1>1, <2>1, <2>2, <3>3, <3>4, <3>6, XyzTypesNext DEF ModemPlace
    <2>5. CASE Cancelled
      <3>1. modem' = "failed" /\ replies' = replies /\ retries' = retries /\ wire' = Silent
        BY <2>5 DEF Cancelled, TakesPacket
      <3>2. Room(modem', xyz'.tx_ack, sender'.at, wire', Len(replies'))
        BY <1>1, <2>1, <3>1 DEF Room
      <3>3. QED
        BY <1>1, <2>1, <2>2, <3>1, <3>2, XyzTypesNext DEF ModemPlace
    <2>6. QED
      BY <1>3, <2>3, <2>4, <2>5 DEF XyzWaits
  <1>4. QED
    BY <1>2, <1>3

\* A read, and what it needs of the line.
LEMMA ReadTypes ==
    ASSUME XyzTypeInv, XyzReads \/ xyzModem_stream_terminate
    PROVE  XyzTypeInv'
  <1> USE BlockFacts
  <1>1. /\ xyz \in XyzRecord /\ xyz.next_blk \in 0 .. BlkMod - 1 /\ Len(xyz.pkt) <= 2
        /\ xyz.pkt \in Seq(Nat)
        /\ delivered \in Seq(Nat) /\ want \in Nat /\ replies \in Seq(Answer)
        /\ sender \in [at : 0 .. SenderEnd, sent : BOOLEAN] /\ sender.at \in 0 .. SenderEnd
        /\ Len(replies) \in Nat
        /\ retries \in 0 .. MAX_RETRIES /\ MAX_RETRIES \in Nat \ {0}
        /\ modem \in {"opening", "hdr"} => retries > 0
        /\ wire \in CAN .. NullName
        /\ Room(modem, xyz.tx_ack, sender.at, wire, Len(replies))
    BY XyzTypeFacts
  <1>2. /\ "ACK" \in Answer /\ "C" \in Answer /\ "CAN" \in Answer
        /\ xyz.tx_ack \in BOOLEAN /\ sender.at \in Int /\ wire \in Int /\ Len(replies) \in Nat
        /\ Room(modem, xyz.tx_ack, sender.at, wire, Len(replies))
    BY XyzTypeFacts DEF Answer
  <1>r. RoomForReads(modem, xyz.tx_ack, sender.at, wire, Len(replies))
    BY <1>2, RoomReads
  <1>3. ASSUME NEW size \in 1 .. MaxRead, xyzModem_stream_read(size)
        PROVE  XyzTypeInv'
    <2>1. /\ modem = "idle" /\ modem' = "reading" /\ want' = size /\ xyz' = xyz
          /\ delivered' = delivered /\ wire' = wire /\ replies' = replies /\ sender' = sender
          /\ retries' = retries
      BY <1>3 DEF xyzModem_stream_read, NotReply
    <2>2. size \in Nat
      BY XyzAssumption
    <2>3. Room(modem', xyz'.tx_ack, sender'.at, wire', Len(replies'))
      BY <1>1, <2>1 DEF Room
    <2>4. QED
      BY <1>1, <2>1, <2>2, <2>3, XyzTypesNext DEF ModemPlace
  <1>4. CASE xyzModem_stream_terminate
    <2>1. /\ modem = "idle" /\ modem' = "aborted" /\ xyz' = [xyz EXCEPT !.at_eof = TRUE]
          /\ want' = want /\ delivered' = delivered /\ wire' = wire /\ sender' = sender
          /\ retries' = retries /\ replies' = replies \o <<"CAN">>
      BY <1>4 DEF xyzModem_stream_terminate, NotReply, Putc
    <2>2. /\ xyz' \in XyzRecord /\ xyz'.pkt = xyz.pkt /\ xyz'.next_blk = xyz.next_blk
          /\ xyz'.tx_ack = xyz.tx_ack
      BY <1>1, <2>1 DEF XyzRecord
    <2>3. replies' \in Seq(Answer) /\ Len(replies') = Len(replies) + 1
      BY <1>1, <1>2, <2>1, AnswersAre, PutcLen
    <2>4. Room(modem', xyz'.tx_ack, sender'.at, wire', Len(replies'))
      BY <1>r, <2>1, <2>2, <2>3 DEF RoomForReads
    <2>5. QED
      BY <1>1, <2>1, <2>2, <2>3, <2>4, XyzTypesNext DEF ModemPlace
  <1>5. CASE ReadCopy
    <2>1. PICK n \in Nat : n = IF want < Len(xyz.pkt) THEN want ELSE Len(xyz.pkt)
      BY <1>1
    <2>2. /\ modem = "reading" /\ delivered' = delivered \o SubSeq(xyz.pkt, 1, n)
          /\ xyz' = [xyz EXCEPT !.pkt = SubSeq(xyz.pkt, n + 1, Len(xyz.pkt))]
          /\ want' = want - n /\ modem' \in {"idle", "reading"}
          /\ retries' = retries /\ wire' = wire /\ replies' = replies /\ sender' = sender
      BY <1>5, <2>1 DEF ReadCopy, NotReply
    <2>3. Len(xyz.pkt) \in Nat /\ n \in 0 .. Len(xyz.pkt) /\ n <= want
      BY <1>1, <2>1
    <2>4. PICK r \in Seq(Nat) : r = SubSeq(xyz.pkt, n + 1, Len(xyz.pkt)) /\ Len(r) <= Len(xyz.pkt)
      <3>1. /\ SubSeq(xyz.pkt, n + 1, Len(xyz.pkt)) \in Seq(Nat)
            /\ Len(SubSeq(xyz.pkt, n + 1, Len(xyz.pkt))) = Len(xyz.pkt) - n
        BY <1>1, <2>3, Rest
      <3>2. Len(xyz.pkt) - n <= Len(xyz.pkt)
        BY <2>3
      <3>3. QED
        BY <3>1, <3>2
    <2>5. /\ xyz' \in XyzRecord /\ Len(xyz'.pkt) <= 2 /\ xyz'.next_blk = xyz.next_blk
          /\ xyz'.tx_ack = xyz.tx_ack
      <3>1. xyz' = [xyz EXCEPT !.pkt = r]
        BY <2>2, <2>4
      <3>2. xyz' \in XyzRecord /\ xyz'.pkt = r /\ xyz'.next_blk = xyz.next_blk
            /\ xyz'.tx_ack = xyz.tx_ack
        BY <1>1, <3>1 DEF XyzRecord
      <3>3. Len(r) <= 2
        BY <1>1, <2>3, <2>4, LenProperties
      <3>4. QED
        BY <3>2, <3>3
    <2>6. delivered' \in Seq(Nat)
      BY <1>1, <2>2, <2>3, Beginning, ConcatProperties
    <2>7. Room(modem', xyz'.tx_ack, sender'.at, wire', Len(replies'))
      BY <1>1, <2>2, <2>5 DEF Room
    <2>8. want' \in Nat
      <3>1. want \in Nat /\ want' = want - n
        BY <1>1, <2>2
      <3>2. QED
        BY <2>3, <3>1
    <2>9. QED
      BY <1>1, <2>2, <2>5, <2>6, <2>7, <2>8, XyzTypesNext DEF ModemPlace
  <1>6. CASE ReadMore
    <2>1. /\ modem = "reading" /\ modem' = "hdr" /\ retries' = MAX_RETRIES
          /\ replies' = replies \o (IF xyz.tx_ack THEN <<"ACK">> ELSE <<>>)
          /\ xyz' = [xyz EXCEPT !.tx_ack = FALSE] /\ want' = want
          /\ delivered' = delivered /\ wire' = wire /\ sender' = sender
      BY <1>6 DEF ReadMore, NotReply, Putc
    <2>2. /\ xyz' \in XyzRecord /\ xyz'.pkt = xyz.pkt /\ xyz'.next_blk = xyz.next_blk
          /\ xyz'.tx_ack = FALSE
      BY <1>1, <2>1 DEF XyzRecord
    <2>3. /\ replies' \in Seq(Answer)
          /\ Len(replies') = Len(replies) + (IF xyz.tx_ack THEN 1 ELSE 0)
      BY <1>1, <1>2, <2>1, AnswersAre, PutcLen
    <2>4. Room(modem', xyz'.tx_ack, sender'.at, wire', Len(replies'))
      BY <1>r, <2>1, <2>2, <2>3 DEF RoomForReads
    <2>5. retries' \in 0 .. MAX_RETRIES /\ retries' > 0
      <3>1. MAX_RETRIES \in 0 .. MAX_RETRIES /\ MAX_RETRIES > 0
        BY XyzAssumption
      <3>2. QED
        BY <2>1, <3>1
    <2>6. QED
      BY <1>1, <2>1, <2>2, <2>3, <2>4, <2>5, XyzTypesNext DEF ModemPlace
  <1>7. CASE NextBlock
    <2>1. /\ modem = "hdr" /\ IsData(wire) /\ wire' = Silent /\ modem' = "reading"
          /\ xyz' = [xyz EXCEPT !.tx_ack = TRUE, !.next_blk = (xyz.next_blk + 1) % BlkMod,
                        !.pkt = Kept(Pieces(wire)),
                        !.read_length = IF xyz.file_length = 0 THEN 0 ELSE xyz.read_length + 2]
          /\ want' = want /\ retries' = retries /\ delivered' = delivered
          /\ replies' = replies /\ sender' = sender
      BY <1>7 DEF NextBlock, NotReply
    <2>2. PICK r \in Seq(Nat) : r = Kept(Pieces(wire)) /\ Len(r) <= 2
      BY <1>1, KeptTypes DEF XyzTypeInv
    <2>3. (xyz.next_blk + 1) % BlkMod \in 0 .. BlkMod - 1
      <3>1. xyz.next_blk + 1 \in Nat
        BY <1>1 DEF XyzRecord
      <3>2. QED
        BY <3>1, NextNumber
    <2>4. (IF xyz.file_length = 0 THEN 0 ELSE xyz.read_length + 2) \in Nat
      BY <1>1 DEF XyzRecord
    <2>5. /\ xyz' \in XyzRecord /\ xyz'.pkt = r /\ xyz'.tx_ack = TRUE
          /\ xyz'.next_blk = (xyz.next_blk + 1) % BlkMod
      <3>1. (xyz.next_blk + 1) % BlkMod \in Nat
        BY <2>3
      <3>2. QED
        BY <1>1, <2>1, <2>2, <2>4, <3>1 DEF XyzRecord
    <2>6. wire >= 0
      BY <2>1 DEF IsData
    <2>7. Room(modem', xyz'.tx_ack, sender'.at, wire', Len(replies'))
      BY <1>r, <2>1, <2>5, <2>6 DEF RoomForReads
    <2>8. Len(xyz'.pkt) <= 2 /\ wire' \in CAN .. NullName
      BY <2>1, <2>2, <2>5
    <2>9. QED
      BY <1>1, <2>1, <2>3, <2>5, <2>7, <2>8, XyzTypesNext DEF ModemPlace
  <1>8. CASE Repeated
    <2>1. /\ modem = "hdr" /\ IsData(wire) /\ wire' = Silent /\ retries' = retries - 1
          /\ replies' = replies \o <<"ACK">> /\ want' = want /\ delivered' = delivered
          /\ sender' = sender
          /\ \/ retries > 1 /\ xyz' = xyz /\ modem' = modem
             \/ modem' = "reading" /\ xyz' = [xyz EXCEPT !.pkt = Pieces(wire)]
      BY <1>8 DEF Repeated, NotReply, Putc
    <2>2. PICK r \in Seq(Nat) : r = Pieces(wire) /\ Len(r) = 2
      BY <1>1, KeptTypes DEF XyzTypeInv
    <2>3. /\ xyz' \in XyzRecord /\ Len(xyz'.pkt) <= 2 /\ xyz'.next_blk = xyz.next_blk
          /\ xyz'.tx_ack = xyz.tx_ack
      <3>1. CASE xyz' = xyz
        BY <1>1, <3>1
      <3>2. CASE xyz' = [xyz EXCEPT !.pkt = r]
        <4>1. /\ xyz' \in XyzRecord /\ xyz'.pkt = r /\ xyz'.next_blk = xyz.next_blk
              /\ xyz'.tx_ack = xyz.tx_ack
          BY <1>1, <3>2 DEF XyzRecord
        <4>2. Len(r) <= 2
          BY <2>2
        <4>3. QED
          BY <4>1, <4>2
      <3>3. QED
        BY <2>1, <2>2, <3>1, <3>2
    <2>4. replies' \in Seq(Answer) /\ Len(replies') = Len(replies) + 1
      BY <1>1, <1>2, <2>1, AnswersAre, PutcLen
    <2>5. wire >= 0
      BY <2>1 DEF IsData
    <2>6. /\ modem' \in {"hdr", "reading"} /\ retries' \in 0 .. MAX_RETRIES
          /\ modem' = "hdr" => retries' > 0
      <3>1. /\ retries \in 0 .. MAX_RETRIES /\ retries > 0 /\ retries' = retries - 1
            /\ MAX_RETRIES \in Nat
        BY <1>1, <2>1
      <3>2. (modem' = "hdr" /\ retries > 1) \/ modem' = "reading"
        BY <2>1
      <3>3. QED
        BY <3>1, <3>2
    <2>7. Room(modem', xyz'.tx_ack, sender'.at, wire', Len(replies'))
      <3>1. Room("hdr", xyz.tx_ack, sender.at, Silent, Len(replies) + 1)
        BY <1>r, <2>1, <2>5 DEF RoomForReads
      <3>2. Room("reading", xyz.tx_ack, sender.at, Silent, Len(replies) + 1)
        BY <1>r, <2>1, <2>5 DEF RoomForReads
      <3>3. QED
        BY <2>1, <2>3, <2>4, <2>6, <3>1, <3>2
    <2>8. /\ want' \in Nat /\ delivered' \in Seq(Nat) /\ wire' \in CAN .. NullName
          /\ sender' \in [at : 0 .. SenderEnd, sent : BOOLEAN] /\ modem' \in ModemPlace
          /\ xyz'.next_blk \in 0 .. BlkMod - 1
      BY <1>1, <2>1, <2>3, <2>6, WireFacts DEF ModemPlace
    <2>9. QED
      BY <2>3, <2>4, <2>6, <2>7, <2>8, XyzTypesNext
  <1>9. CASE ReadAgain
    <2>1. /\ modem = "hdr" /\ retries' = retries - 1
          /\ modem' = IF retries = 1 THEN "failed" ELSE modem
          /\ xyz' = xyz /\ want' = want /\ delivered' = delivered /\ sender' = sender
          /\ wire' = Silent /\ (wire # Silent \/ replies = <<>>)
          /\ replies' = replies \o <<"C">>
      BY <1>9 DEF ReadAgain, OutOfSequence, IsData, TimesOut, Again, Unread, NotReply, Putc
    <2>2. replies' \in Seq(Answer) /\ Len(replies') = Len(replies) + 1
      BY <1>1, <1>2, <2>1, AnswersAre, PutcLen
    <2>3. /\ modem' \in {"hdr", "failed"} /\ retries' \in 0 .. MAX_RETRIES
          /\ modem' = "hdr" => retries' > 0
      BY <1>1, <2>1
    <2>4. wire # Silent \/ Len(replies) = 0
      BY <2>1, AnswersAre
    <2>5. Room(modem', xyz'.tx_ack, sender'.at, wire', Len(replies'))
      <3>1. /\ Room("hdr", xyz.tx_ack, sender.at, Silent, Len(replies) + 1)
            /\ Room("failed", xyz.tx_ack, sender.at, Silent, Len(replies) + 1)
        BY <1>r, <2>1, <2>4 DEF RoomForReads
      <3>2. QED
        BY <2>1, <2>2, <2>3, <3>1
    <2>6. QED
      BY <1>1, <2>1, <2>2, <2>3, <2>5, XyzTypesNext DEF ModemPlace
  <1>10. CASE EndOfFile
    <2>1. /\ modem = "hdr" /\ wire = EOT /\ wire' = Silent /\ want' = want
          /\ retries' = retries /\ delivered' = delivered /\ sender' = sender
      BY <1>10 DEF EndOfFile, TakesPacket, NotReply
    <2>2. /\ want' \in Nat /\ delivered' \in Seq(Nat) /\ wire' \in CAN .. NullName
          /\ sender' \in [at : 0 .. SenderEnd, sent : BOOLEAN]
          /\ retries' \in 0 .. MAX_RETRIES
      BY <1>1, <2>1, WireFacts
    <2>3. /\ Room("ended", xyz.tx_ack, sender.at, Silent, Len(replies) + 1)
          /\ Room("final", xyz.tx_ack, sender.at, Silent, Len(replies) + 2)
      <3>1. wire >= 0
        BY <2>1
      <3>2. QED
        BY <1>r, <2>1, <3>1 DEF RoomForReads
    <2>4. CASE /\ replies' = replies \o <<"ACK">> /\ modem' = "ended"
               /\ xyz' = [xyz EXCEPT !.at_eof = TRUE]
      <3>1. /\ xyz' \in XyzRecord /\ xyz'.pkt = xyz.pkt /\ xyz'.next_blk = xyz.next_blk
            /\ xyz'.tx_ack = xyz.tx_ack
        BY <1>1, <2>4 DEF XyzRecord
      <3>2. replies' \in Seq(Answer) /\ Len(replies') = Len(replies) + 1
        BY <1>1, <1>2, <2>4, AnswersAre, PutcLen
      <3>3. Room(modem', xyz'.tx_ack, sender'.at, wire', Len(replies'))
        BY <2>1, <2>3, <2>4, <3>1, <3>2
      <3>4. QED
        BY <1>1, <2>2, <2>4, <3>1, <3>2, <3>3, XyzTypesNext DEF ModemPlace
    <2>5. CASE replies' = replies \o <<"ACK", "C">> /\ modem' = "final" /\ xyz' = xyz
      <3>1. replies' \in Seq(Answer) /\ Len(replies') = Len(replies) + 2
        BY <1>1, <1>2, <2>5, AnswersAre, PutcLen
      <3>2. Room(modem', xyz'.tx_ack, sender'.at, wire', Len(replies'))
        BY <2>1, <2>3, <2>5, <3>1
      <3>3. QED
        BY <1>1, <2>2, <2>5, <3>1, <3>2, XyzTypesNext DEF ModemPlace
    <2>6. QED
      BY <1>10, <2>4, <2>5 DEF EndOfFile, Putc
  <1>11. CASE EndOfBatch
    <2>1. /\ modem = "final" /\ wire' = Silent /\ modem' = "ended" /\ want' = want
          /\ retries' = retries /\ delivered' = delivered /\ sender' = sender
          /\ replies' = replies \o (IF wire = EOT THEN <<"ACK", "ACK">> ELSE <<"ACK">>)
          /\ xyz' = [xyz EXCEPT !.at_eof = TRUE]
      BY <1>11 DEF EndOfBatch, TimesOut, NotReply, Putc
    <2>2. /\ xyz' \in XyzRecord /\ xyz'.pkt = xyz.pkt /\ xyz'.next_blk = xyz.next_blk
          /\ xyz'.tx_ack = xyz.tx_ack
      BY <1>1, <2>1 DEF XyzRecord
    <2>3. /\ replies' \in Seq(Answer)
          /\ Len(replies') = Len(replies) + (IF wire = EOT THEN 2 ELSE 1)
      BY <1>1, <1>2, <2>1, AnswersAre, PutcLen
    <2>4. Room(modem', xyz'.tx_ack, sender'.at, wire', Len(replies'))
      BY <1>r, <2>1, <2>2, <2>3 DEF RoomForReads
    <2>5. QED
      BY <1>1, <2>1, <2>2, <2>3, <2>4, XyzTypesNext DEF ModemPlace
  <1>12. QED
    BY <1>3, <1>4, <1>5, <1>6, <1>7, <1>8, <1>9, <1>10, <1>11 DEF XyzReads

\* The sender and the line.
LEMMA LineTypes ==
    ASSUME XyzTypeInv, SenderStep \/ SenderStops \/ LineFault
    PROVE  XyzTypeInv'
  <1> USE BlockFacts
  <1>1. /\ xyz \in XyzRecord /\ xyz.next_blk \in 0 .. BlkMod - 1 /\ Len(xyz.pkt) <= 2
        /\ delivered \in Seq(Nat) /\ want \in Nat /\ replies \in Seq(Answer)
        /\ sender \in [at : 0 .. SenderEnd, sent : BOOLEAN] /\ sender.at \in 0 .. SenderEnd
        /\ Len(replies) \in Nat
        /\ retries \in 0 .. MAX_RETRIES
        /\ modem \in {"opening", "hdr"} => retries > 0
        /\ wire \in CAN .. NullName
        /\ Room(modem, xyz.tx_ack, sender.at, wire, Len(replies))
    BY XyzTypeFacts
  <1>2. /\ modem \in ModemPlace
        /\ xyz.tx_ack \in BOOLEAN /\ sender.at \in Int /\ wire \in Int /\ Len(replies) \in Nat
        /\ Room(modem, xyz.tx_ack, sender.at, wire, Len(replies))
    BY XyzTypeFacts DEF XyzTypeInv, XyzTypes, ModemPlace
  <1>r. RoomForLine(modem, xyz.tx_ack, sender.at, wire, Len(replies))
    BY <1>2, RoomLine
  <1>3. /\ xyz' = xyz /\ modem' = modem /\ want' = want /\ retries' = retries
        /\ delivered' = delivered
    BY DEF SenderStep, SenderAsked, SenderAcked, Answer_, ForNobody, SenderStops, LineFault,
           receiver
  <1>4. ASSUME sender' \in [at : 0 .. SenderEnd, sent : BOOLEAN], replies' \in Seq(Answer),
               wire' \in CAN .. NullName,
               Room(modem, xyz.tx_ack, sender'.at, wire', Len(replies'))
        PROVE  XyzTypeInv'
    BY <1>1, <1>2, <1>3, <1>4, XyzTypesNext
  <1>5. ASSUME NEW c, Answer_(c)
        PROVE  /\ replies' \in Seq(Answer) /\ Len(replies') = Len(replies) - 1
               /\ Len(replies) > 0 /\ wire = Silent /\ sender.at # SenderEnd
    BY <1>1, <1>5, TailLen DEF Answer_
  <1>6. CASE SenderAsked
    <2>1. /\ wire' = sender.at /\ sender' = [sender EXCEPT !.sent = TRUE] /\ Answer_("C")
      BY <1>6 DEF SenderAsked
    <2>2. /\ replies' \in Seq(Answer) /\ Len(replies') = Len(replies) - 1
          /\ Len(replies) > 0 /\ wire = Silent /\ sender.at # SenderEnd
      BY <1>5, <2>1
    <2>3. sender' \in [at : 0 .. SenderEnd, sent : BOOLEAN] /\ sender'.at = sender.at
      BY <1>1, <2>1
    <2>4. wire' \in CAN .. NullName /\ sender.at < SenderEnd
      <3>1. sender.at \in 0 .. SenderEnd /\ sender.at # SenderEnd /\ wire' = sender.at
        BY <1>1, <2>1, <2>2
      <3>2. QED
        BY <3>1
    <2>5. Room(modem, xyz.tx_ack, sender'.at, wire', Len(replies'))
      BY <1>r, <2>1, <2>2, <2>3, <2>4 DEF RoomForLine
    <2>6. QED
      BY <1>4, <2>2, <2>3, <2>4, <2>5
  <1>7. CASE SenderAcked
    <2>1. PICK next \in Nat :
             next = IF sender.at = EOT /\ xyz.mode = "xmodem" THEN SenderEnd ELSE sender.at + 1
      BY <1>1
    <2>2. /\ Answer_("ACK")
          /\ \/ wire' = wire /\ sender' = sender
             \/ /\ sender.at \in 0 .. LastBlock /\ wire' = next
                /\ sender' = [at |-> next, sent |-> TRUE]
             \/ /\ sender' = [at |-> next, sent |-> FALSE] /\ wire' = wire
      BY <1>7, <2>1 DEF SenderAcked
    <2>3. /\ replies' \in Seq(Answer) /\ Len(replies') = Len(replies) - 1
          /\ Len(replies) > 0 /\ wire = Silent /\ sender.at # SenderEnd
      BY <1>5, <2>2
    <2>4. next \in 0 .. SenderEnd
      BY <1>1, <2>1, <2>3
    <2>5. sender.at \in 0 .. LastBlock => next = sender.at + 1 /\ next <= EOT
      BY <2>1
    <2>6. CASE wire' = wire /\ sender' = sender
      BY <1>1, <1>r, <1>4, <2>3, <2>6 DEF RoomForLine
    <2>7. CASE /\ sender.at \in 0 .. LastBlock /\ wire' = next
               /\ sender' = [at |-> next, sent |-> TRUE]
      <3>1. next \in CAN .. NullName /\ next < SenderEnd
        BY <2>4, <2>5, <2>7
      <3>2. Room(modem, xyz.tx_ack, next, next, Len(replies) - 1)
        BY <1>r, <2>3, <3>1 DEF RoomForLine
      <3>3. sender' \in [at : 0 .. SenderEnd, sent : BOOLEAN] /\ sender'.at = next
        BY <2>4, <2>7
      <3>4. wire' \in CAN .. NullName
        BY <2>7, <3>1
      <3>5. Room(modem, xyz.tx_ack, sender'.at, wire', Len(replies'))
        BY <2>3, <2>7, <3>2, <3>3
      <3>6. QED
        BY <1>4, <2>3, <3>3, <3>4, <3>5
    <2>8. CASE sender' = [at |-> next, sent |-> FALSE] /\ wire' = wire
      <3>1. Room(modem, xyz.tx_ack, next, Silent, Len(replies) - 1)
        BY <1>r, <2>3 DEF RoomForLine
      <3>2. sender' \in [at : 0 .. SenderEnd, sent : BOOLEAN] /\ sender'.at = next
        BY <2>4, <2>8
      <3>3. Room(modem, xyz.tx_ack, sender'.at, wire', Len(replies'))
        BY <2>3, <2>8, <3>1, <3>2
      <3>4. QED
        BY <1>1, <1>4, <2>3, <2>8, <3>2, <3>3
    <2>9. QED
      BY <2>2, <2>6, <2>7, <2>8
  <1>8. CASE SenderStops
    <2>1. /\ sender.at # SenderEnd /\ wire = Silent /\ wire' \in {CAN, Silent}
          /\ sender' = [at |-> SenderEnd, sent |-> FALSE] /\ replies' = replies
      BY <1>8 DEF SenderStops
    <2>2. sender' \in [at : 0 .. SenderEnd, sent : BOOLEAN] /\ sender'.at = SenderEnd
      BY <2>1
    <2>3. Room(modem, xyz.tx_ack, sender'.at, wire', Len(replies'))
      BY <1>r, <2>1, <2>2 DEF RoomForLine
    <2>4. wire' \in CAN .. NullName
      BY <2>1, WireFacts
    <2>5. QED
      BY <1>1, <1>4, <2>1, <2>2, <2>3, <2>4
  <1>9. CASE ForNobody
    <2>1. wire' = wire /\ sender' = sender /\ replies' = <<>>
      BY <1>9 DEF ForNobody
    <2>2. replies' \in Seq(Answer) /\ Len(replies') = 0
      BY <2>1, AnswersAre
    <2>3. Room(modem, xyz.tx_ack, sender'.at, wire', Len(replies'))
      BY <1>1, <2>1, <2>2 DEF Room
    <2>4. QED
      BY <1>1, <1>4, <2>1, <2>2, <2>3
  <1>10. CASE LineFault
    <2>1. /\ sender' = sender
          /\ \/ wire # Silent /\ wire' \in {Silent, Damaged} /\ replies' = replies
             \/ replies # <<>> /\ replies' = Tail(replies) /\ wire' = wire
      BY <1>10 DEF LineFault
    <2>2. CASE wire # Silent /\ wire' \in {Silent, Damaged} /\ replies' = replies
      <3>1. /\ Room(modem, xyz.tx_ack, sender.at, Silent, Len(replies))
            /\ Room(modem, xyz.tx_ack, sender.at, Damaged, Len(replies))
        BY <1>r, <2>2, Zenon DEF RoomForLine
      <3>2. Room(modem, xyz.tx_ack, sender'.at, wire', Len(replies'))
        BY <2>1, <2>2, <3>1, Zenon
      <3>3. wire' \in CAN .. NullName
        BY <2>2, WireFacts
      <3>4. sender' \in [at : 0 .. SenderEnd, sent : BOOLEAN] /\ replies' \in Seq(Answer)
        BY <1>1, <2>1, <2>2, Zenon
      <3>5. QED
        BY <1>4, <3>2, <3>3, <3>4, Zenon
    <2>3. CASE replies # <<>> /\ replies' = Tail(replies) /\ wire' = wire
      <3>1. replies' \in Seq(Answer) /\ Len(replies') = Len(replies) - 1 /\ Len(replies) > 0
        BY <1>1, <2>3, TailLen
      <3>2. Room(modem, xyz.tx_ack, sender'.at, wire', Len(replies'))
        BY <1>r, <2>1, <2>3, <3>1, Zenon DEF RoomForLine
      <3>3. QED
        BY <1>1, <1>4, <2>1, <2>3, <3>1, <3>2, Zenon
    <2>4. QED
      BY <2>1, <2>2, <2>3
  <1>11. QED
    BY <1>6, <1>7, <1>8, <1>9, <1>10 DEF SenderStep

LEMMA XyzTypeStep == XyzTypeInv /\ [XyzNext]_xyzVars => XyzTypeInv'
  <1> SUFFICES ASSUME XyzTypeInv, [XyzNext]_xyzVars
               PROVE  XyzTypeInv'
    OBVIOUS
  <1>1. CASE XyzNext
    BY <1>1, WaitTypes, ReadTypes, LineTypes DEF XyzNext
  <1>2. CASE UNCHANGED xyzVars
    BY <1>2 DEF xyzVars, receiver, XyzTypeInv, XyzTypes, BlockTypes, Room
  <1>3. QED
    BY <1>1, <1>2

\* At most three answers are on the line, also when all retries were spent; a packet
\* has two pieces at most, and a loop that waits for one has a retry left
\* (xyzModem_stream_open, xyzModem_stream_read).
THEOREM XyzTypeCorrect == XyzSpec => []XyzTypeOK
  <1>1. ASSUME XyzTypeInv
        PROVE  XyzTypeOK
    <2>1. Len(replies) \in 0 .. 3
      BY <1>1 DEF XyzTypeInv, Room
    <2>2. \A n \in 0 .. 3 : n <= 3
      OBVIOUS
    <2>3. QED
      BY <1>1, <2>1, <2>2, XyzTypeFacts DEF XyzTypeInv, XyzTypes, BlockTypes, XyzTypeOK
  <1>2. QED
    BY <1>1, XyzTypeInit, XyzTypeStep, PTL DEF XyzSpec
===============================================================================
