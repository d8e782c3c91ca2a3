------------------------------- MODULE SerialRx -------------------------------
(***************************************************************************)
(* Reception on a serial device: drivers/serial/serial.c on the USART of   *)
(* libcpu/cortex-m3/stm32f10x/drivers/usart.c.  The interrupt handler      *)
(* fills a ring buffer that serial_read empties; there is no lock, and on  *)
(* overflow the handler moves the reader's index.                          *)
(*                                                                         *)
(* The handler may run between any two accesses of the reader to the       *)
(* shared indices and buffer.  A step of the reader is one such access, in *)
(* the order of the source; the two operands of a test are loaded in       *)
(* either order, and an index loaded once may be used again instead of     *)
(* being loaded anew, as the fields are not volatile.                      *)
(***************************************************************************)
EXTENDS Integers, Sequences

CONSTANTS
    Size,       \* CONFIG_SERIAL_RB_BUFSZ
    ReadSizes,  \* the sizes passed to serial_read
    MaxChars    \* bound on the characters that arrive

\* Indices are masked with Size - 1.
ASSUME SerialAssumption ==
    /\ Size \in 2 .. 2^15 /\ Size \in {2^k : k \in 1 .. 15}
    /\ ReadSizes \subseteq Nat \ {0}
    /\ MaxChars \in Nat

Slot == 0 .. Size - 1

VARIABLES
    int_rx,         \* DEVICE_FLAG_INT_RX is set in dev->flag
    irq,            \* the interrupt is enabled in the NVIC
    rxne,           \* the data register holds a character that was not read
    isr,            \* where the interrupt handler is
    put_index, get_index, buffer,   \* struct serial_ringbuf
    pc, left,       \* where serial_read is, and its size
    p, g,           \* indices it has loaded
    ch,             \* character it has loaded
    \* History: no code reads or writes what follows.
    arrived,        \* how many characters the line has brought
    accepted,       \* how many of them the driver has taken, numbered so
    discards,       \* how often a full ring has discarded a character
    received,       \* how many characters serial_read has stored for its callers
    stored,         \* those the last call has stored
    before,         \* how many characters had left the ring when it started
    disturbed       \* a full ring has discarded a character since

hw      == <<int_rx, irq, rxne, isr>>
ring    == <<put_index, get_index, buffer>>
reader  == <<pc, left, p, g, ch>>
counts  == <<accepted, discards, received>>
last    == <<stored, before, disturbed>>
vars    == <<hw, ring, reader, arrived, counts, last>>

Nothing == -1   \* of an index: not loaded
Garbage == 0    \* what -1 & 0xff stores; characters are numbered from 1

\* Mutant: the mask is forgotten.
Next1Unmasked(index) == index + 1

Next1(index) == (index + 1) % Size

Used == (put_index - get_index) % Size

\* After device_register and serial_init.
Init ==
    /\ int_rx \in BOOLEAN
    /\ irq = FALSE /\ rxne = FALSE /\ isr = "none"
    /\ put_index = 0 /\ get_index = 0
    /\ buffer = [i \in Slot |-> Garbage]
    /\ pc = "idle" /\ left = 0 /\ p = Nothing /\ g = Nothing /\ ch = Garbage
    /\ arrived = 0 /\ accepted = 0 /\ discards = 0 /\ received = 0
    /\ stored = <<>> /\ before = 0 /\ disturbed = FALSE
-----------------------------------------------------------------------------
(* The line and the interrupt handler.                                     *)

\* The USART (external): a character that finds another one there is lost.
Arrive ==
    /\ arrived < MaxChars
    /\ arrived' = arrived + 1
    /\ rxne' = TRUE
    /\ UNCHANGED <<int_rx, irq, isr, ring, reader, counts, last>>

USART1_IRQHandler ==
    /\ irq /\ rxne /\ isr = "none"
    /\ isr' = "drain"
    /\ UNCHANGED <<int_rx, irq, rxne, ring, reader, arrived, counts, last>>

Overflows == Next1(put_index) = get_index

\* Mutant: the index of the reader moves while there is a free slot left.
PutcDiscardsEarly(c) ==
    /\ buffer' = [buffer EXCEPT ![put_index] = c]
    /\ put_index' = Next1(put_index)
    /\ get_index' = IF Next1(put_index') = get_index THEN Next1(get_index) ELSE get_index

serial_ringbuf_putc(c) ==
    /\ buffer' = [buffer EXCEPT ![put_index] = c]
    /\ put_index' = Next1(put_index)
    /\ get_index' = IF put_index' = get_index THEN Next1(get_index) ELSE get_index

\* One turn of the loop of the handler: reading the data register clears RXNE.
hw_serial_isr ==
    /\ isr = "drain"
    /\ UNCHANGED <<int_rx, irq, reader, arrived, received, stored, before>>
    /\ \/ /\ rxne
          /\ rxne' = FALSE
          /\ serial_ringbuf_putc(accepted + 1)
          /\ accepted' = accepted + 1
          /\ discards' = IF Overflows THEN discards + 1 ELSE discards
          /\ disturbed' = (disturbed \/ Overflows)
          /\ UNCHANGED isr
       \/ /\ ~rxne
          /\ isr' = "clear"
          /\ UNCHANGED <<rxne, ring, accepted, discards, disturbed>>

\* USART_ClearITPendingBit, which loses a character that has just arrived.
ClearPending ==
    /\ isr = "clear"
    /\ rxne' = FALSE /\ isr' = "none"
    /\ UNCHANGED <<int_rx, irq, ring, reader, arrived, counts, last>>
-----------------------------------------------------------------------------
(* The thread that opens, reads and closes the device.                     *)

At(place) == isr = "none" /\ pc = place

serial_open ==
    /\ At("idle")
    /\ irq' = int_rx
    /\ UNCHANGED <<int_rx, rxne, isr, ring, reader, arrived, counts, last>>

serial_close ==
    /\ At("idle")
    /\ irq' = (irq /\ ~int_rx)
    /\ UNCHANGED <<int_rx, rxne, isr, ring, reader, arrived, counts, last>>

serial_read(size) ==
    /\ At("idle")
    /\ pc' = IF int_rx THEN "size" ELSE "poll"
    /\ left' = size
    /\ stored' = <<>> /\ before' = accepted - Used /\ disturbed' = FALSE
    /\ UNCHANGED <<hw, ring, p, g, ch, arrived, counts>>

\* Stores a character; the next turn of the loop, or the return.
Store(c) ==
    /\ stored' = Append(stored, c)
    /\ received' = IF c = Garbage THEN received ELSE received + 1
    /\ left' = left - 1
    /\ pc' = IF left = 1 THEN "idle" ELSE IF int_rx THEN "size" ELSE "poll"

Return == pc' = "idle" /\ left' = 0

\* Polling mode: poll, then getc.
ReadPolled ==
    /\ At("poll")
    /\ \/ /\ rxne
          /\ rxne' = FALSE
          /\ Store(accepted + 1)
          /\ accepted' = accepted + 1
       \/ /\ ~rxne
          /\ Return
          /\ UNCHANGED <<rxne, accepted, received, stored>>
    /\ UNCHANGED <<int_rx, irq, isr, ring, p, g, ch, arrived, discards, before, disturbed>>

LoadPut ==
    /\ At("size") \/ At("getc")
    /\ p = Nothing /\ p' = put_index
    /\ UNCHANGED <<hw, ring, pc, left, g, ch, arrived, counts, last>>

LoadGet ==
    /\ At("size") \/ At("getc") \/ At("take") \/ At("advance")
    /\ g = Nothing /\ g' = get_index
    /\ UNCHANGED <<hw, ring, pc, left, p, ch, arrived, counts, last>>

Loaded == p # Nothing /\ g # Nothing

\* Whether a loaded index is used again.
Keep(index) == {index, Nothing}

\* Mutant: a ring that holds one character is taken for empty.
SizeOffByOne ==
    /\ At("size") /\ Loaded
    /\ \/ /\ (p - g) % Size > 1
          /\ pc' = "getc"
          /\ p' \in Keep(p) /\ g' \in Keep(g)
          /\ UNCHANGED left
       \/ /\ (p - g) % Size <= 1
          /\ Return
          /\ p' = Nothing /\ g' = Nothing
    /\ UNCHANGED <<hw, ring, ch, arrived, counts, last>>

\* serial_ringbuf_size(...) == 0
serial_ringbuf_size ==
    /\ At("size") /\ Loaded
    /\ \/ /\ (p - g) % Size # 0
          /\ pc' = "getc"
          /\ p' \in Keep(p) /\ g' \in Keep(g)
          /\ UNCHANGED left
       \/ /\ (p - g) % Size = 0
          /\ Return
          /\ p' = Nothing /\ g' = Nothing
    /\ UNCHANGED <<hw, ring, ch, arrived, counts, last>>

\* serial_ringbuf_getc: its own test, the load of the character ...
GetcTest ==
    /\ At("getc") /\ Loaded
    /\ p' = Nothing
    /\ \/ /\ g # p
          /\ pc' = "take" /\ g' \in Keep(g)
          /\ UNCHANGED <<left, received, stored>>
       \/ /\ g = p
          /\ Store(Garbage)
          /\ g' = Nothing
    /\ UNCHANGED <<hw, ring, ch, arrived, accepted, discards, before, disturbed>>

GetcTake ==
    /\ At("take") /\ g # Nothing
    /\ ch' = buffer[g]
    /\ pc' = "advance" /\ g' \in Keep(g)
    /\ UNCHANGED <<hw, ring, left, p, arrived, counts, last>>

\* ... and the store of the index.
GetcAdvance ==
    /\ At("advance") /\ g # Nothing
    /\ get_index' = Next1(g)
    /\ Store(ch)
    /\ g' = Nothing /\ ch' = Garbage
    /\ UNCHANGED <<hw, put_index, buffer, p, arrived, accepted, discards, before, disturbed>>

ReadStep ==
    \/ ReadPolled
    \/ LoadPut \/ LoadGet
    \/ serial_ringbuf_size \/ GetcTest \/ GetcTake \/ GetcAdvance

CallRead == \E size \in ReadSizes : serial_read(size)

Interrupt == USART1_IRQHandler \/ hw_serial_isr \/ ClearPending

Next ==
    \/ Arrive
    \/ Interrupt
    \/ serial_open \/ serial_close
    \/ CallRead \/ ReadStep

\* The handler runs to its end, a read that was started goes on, and the thread
\* calls read again and again, whatever it opens and closes between two calls.
Fairness ==
    /\ WF_vars(Interrupt)
    /\ WF_vars(ReadStep)
    /\ SF_vars(CallRead)

Spec == Init /\ [][Next]_vars /\ Fairness
-----------------------------------------------------------------------------
\* The characters in the ring, oldest first.
InRing == [k \in 1 .. Used |-> buffer[(get_index + k - 1) % Size]]

TypeOK ==
    /\ int_rx \in BOOLEAN /\ irq \in BOOLEAN /\ rxne \in BOOLEAN
    /\ isr \in {"none", "drain", "clear"}
    /\ put_index \in Slot /\ get_index \in Slot
    /\ buffer \in [Slot -> 0 .. accepted]
    /\ pc \in {"idle", "poll", "size", "getc", "take", "advance"}
    /\ p \in Slot \cup {Nothing} /\ g \in Slot \cup {Nothing}
    /\ ch \in 0 .. accepted
    /\ accepted \in 0 .. arrived

\* A read during which the ring does not overflow is exact, although it takes no
\* lock and whatever an overflow has done to the reads before it: it stores the
\* oldest characters, in order, each once, none that did not come, and leaves
\* the rest in the ring (serial.c:33-42, 59-72, 196-210).
ReadIsExact ==
    int_rx /\ ~disturbed =>
        /\ stored = [i \in 1 .. Len(stored) |-> before + i]
        /\ before + Len(stored) = accepted - Used

\* A character that has come into the ring does not stay there, as the reader
\* calls again: no state of the indices makes a full ring look empty for good.
RingDrains ==
    \A n \in 1 .. MaxChars :
        accepted >= n ~> \A k \in 1 .. Used : InRing[k] # n

\* "if the next position is read index, discard this 'read char'"
\* (serial.c:38): each time the ring is full one character is lost, no more.
DiscardsOne ==
    int_rx /\ pc = "idle" => accepted - received - Used <= discards
=============================================================================
