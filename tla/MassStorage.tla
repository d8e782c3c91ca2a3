------------------------------ MODULE MassStorage ------------------------------
(***************************************************************************)
(* The mass storage class of drivers/usb/usbdevice/class/mstorage.c on the *)
(* core of UsbDevice, with the controller, the host and the cable, which   *)
(* are not in the repository.                                              *)
(*                                                                         *)
(* The thread of the core is the only one that runs the class, so handling *)
(* an event is one step.  The controller lends the host the memory that an *)
(* end point was given: what the host gets is what is there when it asks.  *)
(* The disk does not fail, and memory is found.                            *)
(***************************************************************************)
EXTENDS UsbDevice

CONSTANTS
    Sectors,            \* geometry.sector_count
    SectorSize,         \* geometry.bytes_per_sector
    SIZEOF_CBW,
    Modulus,            \* 2^32: the class counts in rt_uint32_t
    Data,               \* what a sector may hold
    Foreign,            \* a sector that holds something else
    Command, NoCommand, \* what the host may ask of the disk
    Ask                 \* the control requests it makes

ASSUME DiskAssumption ==
    /\ Sectors \in Nat /\ SectorSize \in Nat \ {0} /\ SIZEOF_CBW \in Nat \ {0}
    /\ Modulus \in Nat /\ Modulus > Sectors * SectorSize
    /\ Foreign \notin Data

VARIABLES
    disk,
    status, csw, block, count, size, removed,   \* the statics of the class
    buf,                \* what the buffer of both end points holds, or Null
    out, in,            \* what the end points are armed with
    at,                 \* the host: how far it is
    cmd, tag,           \* its command, or NoCommand, and the tag it gave
    sent, got,          \* what it has sent and received of the data
    cut                 \* history: a command was cut off by a reset or with the
                        \* cable, and the class has not since been configured
                        \* while it happened to wait for a command

class  == <<status, csw, block, count, size, removed>>
host   == <<at, cmd, tag, sent, got>>
msvars == <<core, disk, class, buf, out, in, host, cut>>

Block == 0 .. Sectors - 1
Value == Data \cup {Foreign}

Null      == [holds |-> "nothing"]      \* no buffer
Junk      == [holds |-> "junk"]         \* fresh from rt_malloc
Sector(v) == [holds |-> "sector", value |-> v]
Cbw       == [holds |-> "cbw", cmd |-> cmd, tag |-> tag]

\* READ(10) asserts that a host asks for less than the whole disk (mstorage.c:257),
\* and neither command may ask for nothing.
Commands ==
    {[op |-> "read", block |-> b, count |-> n] : b \in Block, n \in 1 .. Sectors - 1}
    \cup {[op |-> "write", block |-> b, data |-> d] :
             b \in Block, d \in UNION {[1 .. n -> Data] : n \in 1 .. Sectors}}
    \cup {[op |-> o] : o \in {"inquiry", "test", "startstop", "verify"}}

ASSUME CommandAssumption ==
    /\ NoCommand \notin Command /\ Command \subseteq Commands
    /\ \A c \in Command : /\ c.op = "read"  => c.block + c.count <= Sectors
                          /\ c.op = "write" => c.block + Len(c.data) <= Sectors
    /\ Ask \subseteq Request

\* rt_usb_device_init with rt_usbd_class_mstorage_create; no cable yet.
Init ==
    /\ rt_usbd_core_init
    /\ disk \in [Block -> Data]
    /\ status = "CBW" /\ csw = [tag |-> 0, data_reside |-> 0, status |-> 0]
    /\ block = 0 /\ count = 0 /\ size = 0 /\ removed = 0
    /\ buf = Null /\ out = 0 /\ in = "nothing"
    /\ at = "off" /\ cmd = NoCommand /\ tag = 0 /\ sent = 0 /\ got = <<>>
    /\ cut = FALSE
-----------------------------------------------------------------------------
\* The block device under the class.
DiskRead(b) == buf' = Sector(disk[b])

DiskWrite(b) ==
    disk' = IF b \in Block
            THEN [disk EXCEPT ![b] = IF buf.holds = "sector" THEN buf.value ELSE Foreign]
            ELSE disk

\* Mutant: the next command is not asked for.
SendStatusOnly ==
    /\ in' = "csw"
    /\ status' = "CBW"
    /\ UNCHANGED out

_send_status ==
    /\ in' = "csw"
    /\ out' = SIZEOF_CBW
    /\ status' = "CBW"

\* One sector to the host, and how to go on.  Mutant: it goes on once too often.
SendSectorMore(b, n) ==
    /\ DiskRead(b)
    /\ in' = "sector"
    /\ count' = n - 1
    /\ block' = IF n > 1 THEN b + 1 ELSE b
    /\ status' = IF n > 0 THEN "SEND" ELSE "CSW"
    /\ UNCHANGED <<disk, size, removed, out>>

SendSector(b, n) ==
    /\ DiskRead(b)
    /\ in' = "sector"
    /\ count' = n - 1
    /\ block' = IF n > 1 THEN b + 1 ELSE b
    /\ status' = IF n > 1 THEN "SEND" ELSE "CSW"
    /\ UNCHANGED <<disk, size, removed, out>>

_ep_in_handler ==
    \/ /\ status = "CSW"
       /\ _send_status
       /\ UNCHANGED <<disk, csw, block, count, size, removed, buf>>
    \/ /\ status = "SEND"
       /\ SendSector(block, count)
       /\ UNCHANGED csw
    \/ /\ status \notin {"CSW", "SEND"}
       /\ UNCHANGED <<disk, class, buf, out, in>>
-----------------------------------------------------------------------------
\* The cases of _ep_out_handler for a command, with the csw it starts from.
_read_10(c, fresh) ==
    /\ c.op = "read"
    /\ SendSector(c.block, c.count)
    /\ csw' = fresh

\* Mutant: the residue is forgotten.
WriteNoResidue(c, fresh) ==
    /\ c.op = "write"
    /\ block' = c.block
    /\ count' = Len(c.data)
    /\ size' = Len(c.data) * SectorSize
    /\ csw' = fresh
    /\ out' = SectorSize
    /\ status' = "RECEIVE"
    /\ UNCHANGED <<disk, removed, buf, in>>

_write_10(c, fresh) ==
    /\ c.op = "write"
    /\ block' = c.block
    /\ count' = Len(c.data)
    /\ size' = Len(c.data) * SectorSize
    /\ csw' = [fresh EXCEPT !.data_reside = Len(c.data) * SectorSize]
    /\ out' = SectorSize
    /\ status' = "RECEIVE"
    /\ UNCHANGED <<disk, removed, buf, in>>

\* SCSI_INQUIRY_CMD, and the four others that are answered with a few bytes.
\* Mutant: the status is not sent after them.
InquiryNoStatus(c, fresh) ==
    /\ c.op = "inquiry"
    /\ in' = "reply"
    /\ csw' = fresh
    /\ UNCHANGED <<disk, status, block, count, size, removed, buf, out>>

_inquiry_cmd(c, fresh) ==
    /\ c.op = "inquiry"
    /\ in' = "reply"
    /\ status' = "CSW"
    /\ csw' = fresh
    /\ UNCHANGED <<disk, block, count, size, removed, buf, out>>

\* SCSI_TEST_UNIT_READY, and SCSI_ALLOW_MEDIUM_REMOVAL but for the status.
_test_unit_ready(c, fresh) ==
    /\ c.op = "test"
    /\ csw' = [fresh EXCEPT !.status = removed]
    /\ _send_status
    /\ UNCHANGED <<disk, block, count, size, removed, buf>>

_start_stop(c, fresh) ==
    /\ c.op = "startstop"
    /\ removed' = 1
    /\ csw' = fresh
    /\ _send_status
    /\ UNCHANGED <<disk, block, count, size, buf>>

\* SCSI_VERIFY_10 and every unknown command: no data, no status, and the end
\* point that takes commands stays unarmed.
_verify_10(c, fresh) ==
    /\ c.op = "verify"
    /\ csw' = fresh
    /\ UNCHANGED <<disk, status, block, count, size, removed, buf, out, in>>

CommandBlock ==
    LET fresh == [tag |-> buf.tag, data_reside |-> 0, status |-> 0]
    IN  \/ _read_10(buf.cmd, fresh)
        \/ _write_10(buf.cmd, fresh)
        \/ _inquiry_cmd(buf.cmd, fresh)
        \/ _test_unit_ready(buf.cmd, fresh)
        \/ _start_stop(buf.cmd, fresh)
        \/ _verify_10(buf.cmd, fresh)

\* A sector of a write: n is the number of bytes that came.  Mutant: every sector
\* goes to the same place.
ReceiveInPlace(n) ==
    /\ size' = (size - n) % Modulus
    /\ csw' = [csw EXCEPT !.data_reside = (@ - n) % Modulus]
    /\ DiskWrite(block)
    /\ \/ size' = 0 /\ _send_status
       \/ size' # 0 /\ out' = SectorSize /\ UNCHANGED <<in, status>>
    /\ UNCHANGED <<block, count, removed, buf>>

Receive(n) ==
    /\ size' = (size - n) % Modulus
    /\ csw' = [csw EXCEPT !.data_reside = (@ - n) % Modulus]
    /\ DiskWrite(block)
    /\ block' = (block + 1) % Modulus
    /\ \/ size' = 0 /\ _send_status
       \/ size' # 0 /\ out' = SectorSize /\ UNCHANGED <<in, status>>
    /\ UNCHANGED <<count, removed, buf>>

_ep_out_handler(n) ==
    \/ status = "CBW" /\ buf.holds = "cbw" /\ CommandBlock
    \/ status = "RECEIVE" /\ Receive(n)
    \/ /\ \/ status = "CBW" /\ buf.holds # "cbw"
          \/ status \in {"CSW", "SEND"}
       /\ UNCHANGED <<disk, class, buf, out, in>>

\* _class_run and _class_stop.  Neither touches the statics of the class.  Mutant:
\* no buffer is taken.
ClassRunNoBuffer == UNCHANGED buf /\ out' = SIZEOF_CBW

_class_run  == buf' = Junk /\ out' = SIZEOF_CBW
_class_stop == buf' = Null /\ UNCHANGED out
-----------------------------------------------------------------------------
\* rt_usbd_thread_entry, one event.
HandleSof ==
    /\ Received("sof")
    /\ UNCHANGED <<ep0, state, disk, class, buf, out, in, cut>>

HandleIn ==
    /\ Received("in")
    /\ UNCHANGED <<ep0, state, cut>>
    /\ \/ state = "configured" /\ _ep_in_handler
       \/ state # "configured" /\ UNCHANGED <<disk, class, buf, out, in>>

HandleOut ==
    /\ Received("out")
    /\ UNCHANGED <<ep0, state, cut>>
    /\ \/ state = "configured" /\ _ep_out_handler(Head(usb_mq).size)
       \/ state # "configured" /\ UNCHANGED <<disk, class, buf, out, in>>

\* _set_config stops every end point before it runs the class.
HandleSetup ==
    /\ Received("setup")
    /\ UNCHANGED <<disk, class>>
    /\ \/ _setup_request /\ UNCHANGED <<buf, out, in, cut>>
       \/ /\ SetConfigRun /\ _class_run /\ in' = "nothing"
          /\ cut' = (cut /\ status # "CBW")

\* _reset_notify stops the class and runs it again.
HandleReset ==
    /\ Received("reset")
    /\ UNCHANGED <<ep0, state, disk, class, in, cut>>
    /\ \/ state = "address" /\ _class_run
       \/ state # "address" /\ UNCHANGED <<buf, out>>

HandlePlugOut ==
    /\ Received("plugout")
    /\ _class_stop
    /\ UNCHANGED <<ep0, state, disk, class, in, cut>>

UsbThread ==
    /\ \/ HandleSof \/ HandleIn \/ HandleOut
       \/ HandleSetup \/ HandleReset \/ HandlePlugOut
    /\ UNCHANGED host
-----------------------------------------------------------------------------
\* The host, the cable and the controller (external).
Attached == at # "off"

Sof ==
    /\ Attached
    /\ rt_usbd_post_event(Event("sof", 0))
    /\ UNCHANGED <<packet, ep0, state, disk, class, buf, out, in, host, cut>>

PlugIn ==
    /\ at = "off"
    /\ at' = "attached"
    /\ UNCHANGED <<core, disk, class, buf, out, in, cmd, tag, sent, got, cut>>

\* The host resets the bus, and the cable is pulled, at any time, in the middle of a
\* command also: it has no other way out of one that is not answered, or whose
\* transfer was lost.  But a control request is waited for, or given up after
\* seconds, when the thread has handled what was posted.
Quiet == ep0 = "idle" \/ (ep0 = "asked" /\ usb_mq = <<>>)

Unplug ==
    /\ Attached /\ Quiet
    /\ rt_usbd_post_event(Event("plugout", 0))
    /\ at' = "off" /\ cmd' = NoCommand /\ sent' = 0 /\ got' = <<>>
    /\ ep0' = "idle" /\ out' = 0 /\ in' = "nothing"
    /\ cut' = (cut \/ cmd # NoCommand)
    /\ UNCHANGED <<packet, state, disk, class, buf, tag>>

BusReset ==
    /\ Attached /\ Quiet
    /\ rt_usbd_post_event(Event("reset", 0))
    /\ at' = "default" /\ cmd' = NoCommand /\ sent' = 0 /\ got' = <<>>
    /\ ep0' = "idle" /\ out' = 0 /\ in' = "nothing"
    /\ cut' = (cut \/ cmd # NoCommand)
    /\ UNCHANGED <<packet, state, disk, class, buf, tag>>

\* What the host may ask at this point of the enumeration.
Asks(r) ==
    \/ r.request \in Replied \cup Refused \cup Ignored \cup {"GET_INTERFACE"}
    \/ r.request = "SET_ADDRESS" /\ at = "default"
    \/ r.request = "SET_CONFIGURATION" /\ at \in {"addressed", "ready"}

AskFor(r) ==
    /\ at \notin {"off", "attached"} /\ ep0 = "idle" /\ cmd = NoCommand
    /\ Asks(r)
    /\ packet' = r /\ ep0' = "asked"
    /\ rt_usbd_post_event(Event("setup", 0))
    /\ UNCHANGED <<state, disk, class, buf, out, in, host, cut>>

TakeAnswer ==
    /\ ep0 \in {"data", "status", "stall"}
    /\ ep0' = "idle" /\ packet' = NoPacket
    /\ at' = CASE ep0 = "status" /\ packet.request = "SET_ADDRESS" -> "addressed"
               [] ep0 = "status" /\ packet.request = "SET_CONFIGURATION" ->
                      IF packet.value = 0 THEN "addressed" ELSE "ready"
               [] OTHER -> at
    /\ UNCHANGED <<usb_mq, lost, state, disk, class, buf, out, in>>
    /\ UNCHANGED <<cmd, tag, sent, got, cut>>

\* The bulk-only protocol: a command block, its data, and a status block.
SendCommand(c) ==
    /\ at = "ready" /\ ep0 = "idle" /\ cmd = NoCommand
    /\ cmd' = c /\ tag' = 1 - tag
    /\ UNCHANGED <<core, disk, class, buf, out, in, at, sent, got, cut>>

OutTransfer(contents, n) ==
    /\ out # 0
    /\ buf' = IF buf = Null THEN Null ELSE contents
    /\ out' = 0
    /\ rt_usbd_post_event(Event("out", n))
    /\ UNCHANGED <<packet, ep0, state, disk, class, in, cut>>

SendCbw ==
    /\ at = "ready" /\ cmd # NoCommand
    /\ OutTransfer(Cbw, SIZEOF_CBW)
    /\ at' = IF cmd.op \in {"read", "write", "inquiry"} THEN "data" ELSE "status"
    /\ UNCHANGED <<cmd, tag, sent, got>>

SendData ==
    /\ at = "data" /\ cmd.op = "write"
    /\ OutTransfer(Sector(cmd.data[sent + 1]), SectorSize)
    /\ sent' = sent + 1
    /\ at' = IF sent' = Len(cmd.data) THEN "status" ELSE "data"
    /\ UNCHANGED <<cmd, tag, got>>

InTransfer ==
    /\ in' = "nothing"
    /\ rt_usbd_post_event(Event("in", 0))
    /\ UNCHANGED <<packet, ep0, state, disk, class, buf, out, cut>>

TakeSector ==
    /\ at = "data" /\ cmd.op = "read" /\ in = "sector" /\ buf.holds = "sector"
    /\ InTransfer
    /\ got' = Append(got, buf.value)
    /\ at' = IF Len(got') = cmd.count THEN "status" ELSE "data"
    /\ UNCHANGED <<cmd, tag, sent>>

TakeReply ==
    /\ at = "data" /\ cmd.op = "inquiry" /\ in = "reply"
    /\ InTransfer
    /\ at' = "status"
    /\ UNCHANGED <<cmd, tag, sent, got>>

TakeStatus ==
    /\ at = "status" /\ in = "csw"
    /\ InTransfer
    /\ at' = "ready" /\ cmd' = NoCommand /\ sent' = 0 /\ got' = <<>>
    /\ UNCHANGED tag

HostStep == SendCbw \/ SendData \/ TakeSector \/ TakeReply \/ TakeStatus
-----------------------------------------------------------------------------
Next ==
    \/ UsbThread
    \/ Sof \/ PlugIn \/ Unplug \/ BusReset
    \/ \E r \in Ask : AskFor(r)
    \/ TakeAnswer
    \/ \E c \in Command : SendCommand(c)
    \/ HostStep

\* The thread runs when it has an event, and the host carries on with a command.
Spec == Init /\ [][Next]_msvars /\ WF_msvars(UsbThread) /\ WF_msvars(HostStep)
-----------------------------------------------------------------------------
Promise == INSTANCE BlockDisk

\* The values the class and the controller may take; no count goes below zero
\* (mstorage.c:258-270, 461-471).
TypeOK ==
    /\ Len(usb_mq) <= MqMax
    /\ state \in {"notattached", "address", "configured"}
    /\ ep0 \in {"idle", "asked", "data", "status", "stall"}
    /\ disk \in [Block -> Value]
    /\ status \in {"CBW", "CSW", "RECEIVE", "SEND"}
    /\ csw \in [tag : 0 .. 1, data_reside : 0 .. Modulus - 1, status : 0 .. 1]
    /\ block \in Nat /\ count \in Nat /\ size \in 0 .. Modulus - 1
    /\ buf.holds \in {"nothing", "junk", "sector", "cbw"}
    /\ out \in {0, SIZEOF_CBW, SectorSize}
    /\ in \in {"nothing", "sector", "reply", "csw"}
    /\ at \in {"off", "attached", "default", "addressed", "ready", "data", "status"}
    /\ cmd \in Command \cup {NoCommand}

\* The host sees a disk (mstorage.c:246-362, 387-479): a read returns what the
\* last writes have stored, a write stores its sectors and no others, nothing
\* else changes a sector, across resets and replugging.  This ends when a command
\* is cut off (cut), and holds again once the class has been configured while it
\* waits for a command.
IsDisk == Promise!Init /\ [][cut' \/ Promise!Next]_<<disk, cmd, got>>

\* The status block that the host takes belongs to its command and reports no
\* residue, after all of the data (mstorage.c:313-318, 400-405, 461-471); not after
\* a command has been cut off, when the class may go on with that one.
StatusIsTrue ==
    ~cut /\ at \in {"data", "status"} /\ in = "csw" =>
        /\ at = "status"
        /\ csw.tag = tag /\ csw.data_reside = 0
        /\ csw.status = IF cmd.op = "test" THEN removed ELSE 0

\* A host that has configured the device and has no command under way finds it
\* configured and with a buffer, whatever requests, lost events, resets and
\* replugging, in the middle of a command also, came before (core.c:318-381,
\* 1506-1512).  It finds the class waiting for a command unless one has been cut
\* off: _class_run does not put status back (mstorage.c:523-550), so after that the
\* class waits for one only if it did when it was configured.
ReadyForCommand ==
    at = "ready" /\ ep0 = "idle" =>
        /\ state = "configured" /\ buf # Null
        /\ ~cut => status = "CBW" /\ out = SIZEOF_CBW

\* The handlers of the end points use the buffer without a look: it is there for
\* every event that reaches them, although PLUG_OUT frees it and leaves the
\* device configured (core.c:1510-1512, mstorage.c:559-572).
BufferInUse ==
    \A i \in 1 .. Len(usb_mq) :
        /\ usb_mq[i].type \in {"in", "out"}
        /\ \A j \in 1 .. i - 1 : usb_mq[j].type \in {"in", "out", "sof"}
        => buf # Null

\* A command comes to its end, if no event is lost and none was cut off before:
\* SCSI_VERIFY_10 excepted, which nobody answers (mstorage.c:447-449).
CommandEnds ==
    cmd # NoCommand /\ cmd.op # "verify" ~> cmd = NoCommand \/ lost \/ cut

\* A RESET "should reset and run the class while plug_in is not"
\* (usb_device.h:159-162): after it the class waits for a command.
ResetRestarts ==
    [][HandleReset => status' = "CBW"]_msvars
=============================================================================
