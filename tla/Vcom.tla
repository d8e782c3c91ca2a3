--------------------------------- MODULE Vcom ---------------------------------
(***************************************************************************)
(* Sending by the virtual serial port of drivers/usb/usbdevice/class/      *)
(* cdc_vcom.c, on the core of UsbDevice and the completion of              *)
(* common/completion.c.                                                    *)
(*                                                                         *)
(* Writers put characters into a ring; the thread of the core moves them   *)
(* to the buffer of the end point, at a start of frame or when the host    *)
(* has taken a transfer.  The class locks its ring but not its decisions:  *)
(* a writer that has waited too long resets everything at any time.        *)
(*                                                                         *)
(* The ring holds what ByteFifo says.  The controller, the host and the    *)
(* cable are external.  Characters are told apart by a number modulo       *)
(* CharModulus; what is left in the buffer from an earlier transfer is     *)
(* StaleByte.                                                              *)
(***************************************************************************)
EXTENDS UsbDevice

CONSTANTS
    Writer,             \* threads that write to the device
    CDC_TX_BUFSIZE,
    CDC_MaxPacketSize,
    CharModulus

ASSUME VcomAssumption ==
    /\ CDC_TX_BUFSIZE \in Nat \ {0} /\ CDC_MaxPacketSize \in Nat \ {0}
    /\ CharModulus \in Nat /\ CharModulus > 2 * CDC_TX_BUFSIZE

VARIABLES
    tx_ringbuffer, tx_buf,
    vcom_connected, vcom_in_sending,
    ep_in,              \* how much the end point is armed with, or Idle
    usb_pc, sof_size,   \* where the thread of the core is; its local size or remain
    completed,          \* completion.flag
    putc_pc,            \* where each writer is in _vcom_putc
    char,               \* the next character
    bus,                \* the host: how far it is with the enumeration
    due,                \* history: what was accepted and not yet received
    raced               \* history: a reset met a transfer

vcom     == <<tx_ringbuffer, tx_buf, vcom_connected, vcom_in_sending, ep_in>>
hist     == <<char, due, raced>>
vcomVars == <<core, vcom, usb_pc, sof_size, completed, putc_pc, bus, hist>>

Idle == -1
StaleByte == -1

\* rt_usb_vcom_init, and the class created; no cable yet.
VcomInit ==
    /\ rt_usbd_core_init
    /\ tx_ringbuffer = <<>> /\ tx_buf = <<>>
    /\ vcom_connected = FALSE /\ vcom_in_sending = FALSE
    /\ ep_in = Idle /\ usb_pc = "loop" /\ sof_size = 0 /\ completed = FALSE
    /\ putc_pc = [w \in Writer |-> "idle"]
    /\ char = 0 /\ bus = "off" /\ due = <<>> /\ raced = FALSE
-----------------------------------------------------------------------------
_vcom_reset_state ==
    /\ tx_ringbuffer' = <<>>
    /\ vcom_connected' = FALSE /\ vcom_in_sending' = FALSE
    /\ due' = <<>> /\ char' = 0

\* A transfer is under way until the thread has come to the event of its end.
UnderWay == \/ ep_in # Idle \/ usb_pc \in {"fetch", "send", "write"}
            \/ \E i \in 1 .. Len(usb_mq) : usb_mq[i].type = "in"

\* Resets by the thread itself, where the events still to come may disturb what is
\* sent after them.
ThreadReset ==
    /\ _vcom_reset_state
    /\ raced' = UnderWay

\* The end point lets go of the buffer: what it holds is not looked at again.
Leave == tx_buf' = IF usb_pc \in {"send", "write"} THEN tx_buf ELSE <<>>

_class_run  == ThreadReset
_class_stop == ThreadReset

\* rt_ringbuffer_get of n characters, which may be more than there are.
Fetch(n) ==
    LET k == IF n < Len(tx_ringbuffer) THEN n ELSE Len(tx_ringbuffer) IN
    /\ tx_buf' = [i \in 1 .. n |-> IF i <= k THEN tx_ringbuffer[i] ELSE StaleByte]
    /\ tx_ringbuffer' = SubSeq(tx_ringbuffer, k + 1, Len(tx_ringbuffer))

\* Mutant: the flag is left set, as if there were always more to come.
EpInKeepsFlag(size) ==
    /\ UNCHANGED <<vcom_connected, vcom_in_sending, ep_in, hist>>
    /\ IF tx_ringbuffer # <<>>
         THEN Fetch(Len(tx_ringbuffer)) /\ usb_pc' = "write" /\ sof_size' = Len(tx_ringbuffer)
         ELSE UNCHANGED <<tx_ringbuffer, tx_buf, usb_pc, sof_size>>

\* The host has taken size bytes: go on with what has gathered, end a transfer of
\* whole packets with an empty one, or wait for the next frame.  This is under the
\* lock; what it has decided to send is sent without it (EpInWrite).
_ep_in_handler(size) ==
    /\ UNCHANGED <<vcom_connected, ep_in, hist>>
    /\ \/ /\ tx_ringbuffer # <<>>
          /\ Fetch(Len(tx_ringbuffer))
          /\ vcom_in_sending' = TRUE
          /\ usb_pc' = "write" /\ sof_size' = Len(tx_ringbuffer)
       \/ /\ tx_ringbuffer = <<>> /\ size # 0 /\ size % CDC_MaxPacketSize = 0
          /\ vcom_in_sending' = TRUE
          /\ usb_pc' = "write" /\ sof_size' = 0
          /\ UNCHANGED <<tx_ringbuffer, tx_buf>>
       \/ /\ tx_ringbuffer = <<>> /\ (size = 0 \/ size % CDC_MaxPacketSize # 0)
          /\ vcom_in_sending' = FALSE
          /\ UNCHANGED <<tx_ringbuffer, tx_buf, usb_pc, sof_size>>

EpInWrite ==
    /\ usb_pc = "write" /\ ep_in' = sof_size
    /\ usb_pc' = "loop" /\ sof_size' = 0
    /\ UNCHANGED <<core, tx_ringbuffer, tx_buf, vcom_connected, vcom_in_sending, completed,
                   hist>>
-----------------------------------------------------------------------------
\* Mutant: the flag of a transfer under way is not looked at.
MaySendAnyTime == vcom_connected /\ tx_ringbuffer # <<>>

\* _class_sof_handler: the tests and the length are read without the lock, the
\* characters are fetched under it, and what was fetched is sent without it.
MaySend == vcom_connected /\ ~vcom_in_sending /\ tx_ringbuffer # <<>>

HandleSof ==
    /\ usb_pc = "loop" /\ Received("sof")
    /\ IF MaySend THEN usb_pc' = "fetch" /\ sof_size' = Len(tx_ringbuffer)
                  ELSE UNCHANGED <<usb_pc, sof_size>>
    /\ UNCHANGED <<ep0, state, vcom, completed, hist>>

SofFetch ==
    /\ usb_pc = "fetch"
    /\ Fetch(sof_size)
    /\ usb_pc' = "send"
    /\ UNCHANGED <<core, vcom_connected, vcom_in_sending, ep_in, sof_size, completed,
                   hist>>

SofSend ==
    /\ usb_pc = "send"
    /\ vcom_in_sending' = TRUE /\ ep_in' = sof_size
    /\ usb_pc' = "loop" /\ sof_size' = 0
    /\ UNCHANGED <<core, tx_ringbuffer, tx_buf, vcom_connected, completed, hist>>
-----------------------------------------------------------------------------
\* Mutant: it waits although the call of done was before it.
SuspendAlways == TRUE

\* rt_completion_wait.  A waiter that was suspended clears the flag, whoever woke
\* it; one that finds the flag set leaves it.
WaitCompleted == completed
Suspend       == ~completed

\* rt_completion_done: the second call in a row does nothing.
rt_completion_done ==
    /\ completed' = TRUE
    /\ usb_pc' = IF ~completed /\ usb_pc = "suspended" THEN "resumed" ELSE usb_pc

\* The other events.  CDC_SET_LINE_CODING asks for its data and waits for it; when
\* it has waited, for the data or in vain, the port is connected.
HandleIn ==
    /\ usb_pc = "loop" /\ Received("in")
    /\ IF state = "configured" THEN _ep_in_handler(Head(usb_mq).size)
                               ELSE UNCHANGED <<vcom, usb_pc, sof_size, hist>>
    /\ UNCHANGED <<ep0, state, completed>>

HandleSetup ==
    /\ usb_pc = "loop" /\ Received("setup")
    /\ UNCHANGED sof_size
    /\ \/ /\ _setup_request
          /\ UNCHANGED <<vcom, usb_pc, completed, hist>>
       \/ /\ SetConfigRun /\ _class_run
          /\ ep_in' = Idle /\ Leave
          /\ UNCHANGED <<usb_pc, completed>>
       \/ /\ packet.request = "SET_LINE_CODING"
          /\ completed' = FALSE /\ Answer("read") /\ usb_pc' = "coding"
          /\ UNCHANGED <<state, vcom, hist>>

CodingWait ==
    /\ usb_pc = "coding" /\ Suspend
    /\ usb_pc' = "suspended"
    /\ UNCHANGED <<core, vcom, sof_size, completed, hist>>

CodingTimeout ==
    /\ usb_pc = "suspended"
    /\ usb_pc' = "resumed"
    /\ UNCHANGED <<core, vcom, sof_size, completed, hist>>

CodingDone ==
    /\ \/ usb_pc = "coding" /\ WaitCompleted /\ UNCHANGED completed
       \/ usb_pc = "resumed" /\ completed' = FALSE
    /\ usb_pc' = "loop"
    /\ vcom_connected' = TRUE
    /\ UNCHANGED <<core, tx_ringbuffer, tx_buf, vcom_in_sending, ep_in, sof_size, hist>>

\* A reset of the bus counts in the address state only.
HandleReset ==
    /\ usb_pc = "loop" /\ Received("reset")
    /\ IF state = "address" THEN ThreadReset
       ELSE UNCHANGED <<tx_ringbuffer, vcom_connected, vcom_in_sending, hist>>
    /\ UNCHANGED <<ep0, state, tx_buf, ep_in, usb_pc, sof_size, completed>>

HandlePlugOut ==
    /\ usb_pc = "loop" /\ Received("plugout")
    /\ _class_stop
    /\ UNCHANGED <<ep0, state, tx_buf, ep_in, usb_pc, sof_size, completed>>

VcomThread ==
    /\ \/ HandleSof \/ SofFetch \/ SofSend
       \/ HandleIn \/ EpInWrite \/ HandleSetup \/ HandleReset \/ HandlePlugOut
       \/ CodingWait \/ CodingDone \/ CodingTimeout
    /\ UNCHANGED <<putc_pc, bus>>
-----------------------------------------------------------------------------
\* _vcom_putc.  It tests for room without the lock and again with it, and reports
\* one character written in any case.
PutcReturns(w) == putc_pc' = [putc_pc EXCEPT ![w] = "idle"]

PutcStart(w) ==
    /\ putc_pc[w] = "idle" /\ vcom_connected
    /\ putc_pc' = [putc_pc EXCEPT ![w] = "wait"]
    /\ UNCHANGED <<vcom, hist>>

PutcRoom(w) ==
    /\ putc_pc[w] = "wait" /\ Len(tx_ringbuffer) < CDC_TX_BUFSIZE
    /\ putc_pc' = [putc_pc EXCEPT ![w] = "put"]
    /\ UNCHANGED <<vcom, hist>>

\* A look at a full ring, of 500 at most: the port may be found disconnected.
PutcFull(w) ==
    /\ putc_pc[w] = "wait" /\ Len(tx_ringbuffer) = CDC_TX_BUFSIZE
    /\ putc_pc' = [putc_pc EXCEPT ![w] = "full"]
    /\ UNCHANGED <<vcom, hist>>

PutcUnplugged(w) ==
    /\ putc_pc[w] = "full" /\ ~vcom_connected
    /\ PutcReturns(w)
    /\ UNCHANGED <<vcom, hist>>

PutcWaits(w) ==
    /\ putc_pc[w] = "full" /\ vcom_connected
    /\ \E next \in {"wait", "tired"} : putc_pc' = [putc_pc EXCEPT ![w] = next]
    /\ UNCHANGED <<vcom, hist>>

\* After the last look: the reset takes no more notice of the ring, nor of the flags.
PutcGivesUp(w) ==
    /\ putc_pc[w] = "tired"
    /\ PutcReturns(w)
    /\ _vcom_reset_state
    /\ raced' = (raced \/ UnderWay)
    /\ UNCHANGED <<tx_buf, ep_in>>

PutcPut(w) ==
    /\ putc_pc[w] = "put"
    /\ PutcReturns(w)
    /\ IF Len(tx_ringbuffer) < CDC_TX_BUFSIZE
         THEN /\ tx_ringbuffer' = Append(tx_ringbuffer, char)
              /\ due' = IF raced THEN due ELSE Append(due, char)
              /\ char' = IF raced THEN 0 ELSE (char + 1) % CharModulus
         ELSE UNCHANGED <<tx_ringbuffer, due, char>>
    /\ UNCHANGED <<tx_buf, vcom_connected, vcom_in_sending, ep_in, raced>>

_vcom_putc(w) ==
    /\ \/ PutcStart(w) \/ PutcRoom(w) \/ PutcFull(w) \/ PutcUnplugged(w)
       \/ PutcWaits(w) \/ PutcGivesUp(w) \/ PutcPut(w)
    /\ UNCHANGED <<core, usb_pc, sof_size, completed, bus>>
-----------------------------------------------------------------------------
\* The controller, the host and the cable (external).  A reset of the bus disarms
\* the end point.  A host gives up on a request after seconds: the thread has
\* handled by then what was posted.
RingVcom == <<tx_ringbuffer, vcom_connected, vcom_in_sending, sof_size, putc_pc>>
BusVcom  == <<RingVcom, tx_buf>>

VcomSof ==
    /\ bus # "off"
    /\ rt_usbd_post_event(Event("sof", 0))
    /\ UNCHANGED <<packet, ep0, state, BusVcom, ep_in, usb_pc, completed, bus, hist>>

BusLeaves(type, to) ==
    /\ bus # "off"
    /\ \/ ep0 \in {"idle", "read"}
       \/ ep0 = "asked" /\ usb_mq = <<>>
    /\ rt_usbd_post_event(Event(type, 0))
    /\ bus' = to /\ ep0' = "idle"
    /\ ep_in' = Idle /\ raced' = TRUE /\ due' = <<>> /\ char' = 0
    /\ Leave
    /\ UNCHANGED <<packet, state, RingVcom, usb_pc, completed>>

VcomPlugIn ==
    /\ bus = "off" /\ usb_mq = <<>> /\ usb_pc = "loop" /\ bus' = "default"
    /\ UNCHANGED <<core, BusVcom, ep_in, usb_pc, completed, hist>>

\* SET_ADDRESS, SET_CONFIGURATION and the line coding, which may be set again.
NextRequest == CASE bus = "default"   -> Setup("SET_ADDRESS", 0)
                 [] bus = "addressed" -> Setup("SET_CONFIGURATION", 1)
                 [] OTHER             -> Setup("SET_LINE_CODING", 0)

VcomAsk ==
    /\ bus # "off" /\ ep0 = "idle"
    /\ packet' = NextRequest /\ ep0' = "asked"
    /\ rt_usbd_post_event(Event("setup", 0))
    /\ UNCHANGED <<state, BusVcom, ep_in, usb_pc, completed, bus, hist>>

VcomAnswer ==
    /\ ep0 = "status" /\ ep0' = "idle" /\ packet' = NoPacket
    /\ bus' = IF bus = "default" THEN "addressed" ELSE "configured"
    /\ UNCHANGED <<usb_mq, lost, state, BusVcom, ep_in, usb_pc, completed, hist>>

\* The data of a line coding: the controller driver calls done.
VcomCoding ==
    /\ ep0 = "read" /\ ep0' = "idle" /\ packet' = NoPacket
    /\ rt_completion_done
    /\ bus' = "ready"
    /\ UNCHANGED <<usb_mq, lost, state, BusVcom, ep_in, hist>>

\* The host takes a transfer.
VcomTake ==
    /\ bus = "ready" /\ ep_in # Idle
    /\ rt_usbd_post_event(Event("in", ep_in))
    /\ due' = IF raced THEN due ELSE SubSeq(due, ep_in + 1, Len(due))
    /\ ep_in' = Idle /\ Leave
    /\ UNCHANGED <<packet, ep0, state, RingVcom, usb_pc, completed, bus, char, raced>>
-----------------------------------------------------------------------------
VcomNext ==
    \/ VcomThread
    \/ \E w \in Writer : _vcom_putc(w)
    \/ VcomSof \/ BusLeaves("reset", "default") \/ BusLeaves("plugout", "off")
    \/ VcomPlugIn \/ VcomAsk \/ VcomAnswer \/ VcomCoding \/ VcomTake

\* The thread runs, frames start, and the host takes what it is offered.
VcomSpec ==
    /\ VcomInit /\ [][VcomNext]_vcomVars
    /\ WF_vcomVars(VcomThread) /\ WF_vcomVars(VcomSof) /\ WF_vcomVars(VcomTake)
-----------------------------------------------------------------------------
VcomTypeOK ==
    /\ Len(usb_mq) <= MqMax
    /\ Len(tx_ringbuffer) <= CDC_TX_BUFSIZE /\ Len(tx_buf) <= CDC_TX_BUFSIZE
    /\ vcom_connected \in BOOLEAN /\ vcom_in_sending \in BOOLEAN
    /\ ep_in \in Idle .. CDC_TX_BUFSIZE /\ sof_size \in 0 .. CDC_TX_BUFSIZE
    /\ usb_pc \in {"loop", "fetch", "send", "write", "coding", "suspended", "resumed"}
    /\ usb_pc = "suspended" => ~completed
    /\ putc_pc \in [Writer -> {"idle", "wait", "full", "tired", "put"}]

\* What is on its way: in the buffer, armed or about to be.
Flight == IF (usb_pc \in {"send", "write"} /\ sof_size > 0) \/ ep_in > 0
          THEN tx_buf ELSE <<>>

\* Every character that was accepted is on its way or in the ring, once and in its
\* order, although the thread decides and sends without the lock: nothing is sent
\* twice, overtaken or overwritten in the end point, unless a writer has reset the
\* port, or the host the bus, in the middle of a transfer.
CharsInOrder == ~raced => due = Flight \o tx_ringbuffer

\* A character that was accepted reaches the host, whatever frames, writers, line
\* codings and time-outs come in between, as long as the port stays connected, the
\* end of no transfer is lost in a full queue and no reset meets a transfer.
CharArrives ==
    due # <<>> /\ Head(due) = 0 ~>
        \/ due = <<>> \/ Head(due) # 0
        \/ raced \/ lost \/ ~vcom_connected \/ bus # "ready"
=============================================================================
