-------------------------- MODULE MassStorageProof --------------------------
(***************************************************************************)
(* Proofs about MassStorage, for every disk, sector size, set of commands  *)
(* and requests, and length of the event queue: the host sees a disk       *)
(* (IsDisk), the status it takes is true (StatusIsTrue), it finds the      *)
(* device ready (ReadyForCommand) and no handler is without the buffer     *)
(* (BufferInUse).  The bus is reset and the cable pulled at any time; what *)
(* is not claimed once a command has been cut off is said in MassStorage,  *)
(* by the variable cut.                                                    *)
(*                                                                         *)
(* Plan: what the queue may hold follows from how far host and class are   *)
(* (QueueInv): an event is lost or it waits, and nothing that is posted    *)
(* behind it can overtake it.  Host and class then agree on how far a      *)
(* command is (CommandInv), and between two commands, through requests,    *)
(* resets and replugging, the class waits for a command (IdleInv, SetUp).  *)
(* This is MassStorageInv, for as long as no command has been cut off.     *)
(* BusInv is weaker and holds throughout; from it MassStorageInv follows   *)
(* again when the class is configured while it waits for a command         *)
(* (Recovered).                                                            *)
(***************************************************************************)
EXTENDS MassStorage, TLAPS

EventType == {"sof", "in", "out", "setup", "reset", "plugout"}
EventMsg  == [type : EventType, size : Nat]
Transfer  == {"in", "out"}

\* The types of the variables.
QueueTypes == usb_mq \in Seq(EventMsg) /\ Len(usb_mq) <= MqMax /\ lost \in BOOLEAN

CoreTypes ==
    /\ ep0 \in {"idle", "asked", "data", "status", "stall"}
    /\ state \in {"notattached", "address", "configured"}

ClassTypes ==
    /\ disk \in [Block -> Value]
    /\ status \in {"CBW", "CSW", "RECEIVE", "SEND"}
    /\ csw \in [tag : 0 .. 1, data_reside : 0 .. Modulus - 1, status : 0 .. 1]
    /\ block \in Nat /\ count \in Nat /\ size \in 0 .. Modulus - 1 /\ removed \in 0 .. 1
    /\ buf.holds \in {"nothing", "junk", "sector", "cbw"}
    /\ out \in {0, SIZEOF_CBW, SectorSize}
    /\ in \in {"nothing", "sector", "reply", "csw"}

HostTypes ==
    /\ at \in {"off", "attached", "default", "addressed", "ready", "data", "status"}
    /\ cmd \in Command \cup {NoCommand} /\ tag \in 0 .. 1
    /\ sent \in Nat /\ got \in Seq(Value)

Types == QueueTypes /\ CoreTypes /\ ClassTypes /\ HostTypes

\* The host has configured the device; it is in a command.
Session == at \in {"ready", "data", "status"}
Busy    == at \in {"data", "status"}

\* What the queue may hold.  A transfer is behind other transfers only.
Only(types) == \A i \in 1 .. Len(usb_mq) : usb_mq[i].type \in types
Last(i)     == \A j \in 1 .. Len(usb_mq) : j > i => usb_mq[j].type = "sof"

TransfersFirst ==
    \A i \in 1 .. Len(usb_mq) : usb_mq[i].type \in Transfer =>
        /\ \A j \in 1 .. i - 1 : usb_mq[j].type \in {"in", "out", "sof"}
        /\ buf.holds # "nothing"

\* A request is the last event, and the host waits for its answer.
RequestLast ==
    /\ \A i \in 1 .. Len(usb_mq) : usb_mq[i].type = "setup" => ep0 = "asked" /\ Last(i)
    /\ ep0 \in {"data", "status", "stall"} => Only({"sof"})

\* What the host has sent is the last event, and the class waits for it.
OutLast ==
    \A i \in 1 .. Len(usb_mq) : usb_mq[i].type = "out" =>
        /\ Last(i) /\ Busy /\ in = "nothing" /\ out = 0 /\ status \in {"CBW", "RECEIVE"}
        /\ status = "RECEIVE" => usb_mq[i].size = SectorSize

\* No reset waits in a session.
SessionOnly == Session => Only({"sof", "in", "out", "setup"})

\* While the class sends, nothing waits but the news of what it has sent last.
InAlone ==
    status \in {"SEND", "CSW"} =>
        /\ in # "nothing" => Only({"sof"})
        /\ \A i \in 1 .. Len(usb_mq) : usb_mq[i].type = "in" =>
              \A j \in (1 .. Len(usb_mq)) \ {i} : usb_mq[j].type = "sof"

QueueInv == TransfersFirst /\ RequestLast /\ OutLast /\ SessionOnly /\ InAlone

\* While no command is under way the class waits for one.
WaitsForCommand ==
    out = SIZEOF_CBW /\ in = "nothing" /\ buf.holds # "nothing"

IdleInv ==
    /\ ~Busy => status = "CBW" /\ sent = 0 /\ got = <<>>
    /\ ~Session => cmd = NoCommand
    /\ cmd # NoCommand => ep0 = "idle"
    /\ at = "ready" =>
          /\ WaitsForCommand
          /\ state = "configured" \/ (ep0 = "status" /\ packet = Setup("SET_CONFIGURATION", 0))

\* A configuration that has been set, and of which the host has not heard.
SetUp ==
    ep0 = "status" /\ packet.request = "SET_CONFIGURATION" /\ packet.value # 0 =>
        state = "configured" /\ WaitsForCommand

\* The packet is a request that the host may make where it is.
PacketInv ==
    /\ packet \in Request \cup {NoPacket}
    /\ ep0 # "idle" =>
          /\ packet # NoPacket /\ ~Busy /\ at \notin {"off", "attached"} /\ cmd = NoCommand
          /\ packet.request = "SET_ADDRESS" => at = "default"

Fresh == [tag |-> tag, data_reside |-> 0, status |-> 0]

\* A command block that the class has not seen, or does not answer.
InCbw ==
    /\ status = "CBW" /\ in = "nothing" /\ out = 0
    /\ sent = 0 /\ got = <<>> /\ buf = Cbw
    /\ at = IF cmd.op \in {"read", "write", "inquiry"} THEN "data" ELSE "status"

\* A read: Read sectors have been read from the disk, and the host has got them, or
\* waits for the last of them.
Read == IF in = "sector" THEN Len(got) + 1 ELSE Len(got)
InRead ==
    /\ cmd.op = "read" /\ in \in {"sector", "nothing"} /\ out = 0
    /\ Read <= cmd.count /\ count = cmd.count - Read
    /\ status = IF count > 0 THEN "SEND" ELSE "CSW"
    /\ count > 0 => block = cmd.block + Read
    /\ at = IF Len(got) = cmd.count THEN "status" ELSE "data"
    /\ in = "sector" => buf = Sector(disk[cmd.block + Len(got)])
    /\ csw = Fresh

\* A write: Written sectors are on the disk, and the next one may be in the buffer.
Stored(n) == \A i \in 1 .. n : disk[cmd.block + i - 1] = cmd.data[i]
Written   == IF out = 0 THEN sent - 1 ELSE sent
InWrite ==
    /\ cmd.op = "write" /\ status = "RECEIVE" /\ in = "nothing" /\ out \in {0, SectorSize}
    /\ Written \in 0 .. Len(cmd.data) - 1 /\ Stored(Written)
    /\ block = cmd.block + Written
    /\ size = (Len(cmd.data) - Written) * SectorSize
    /\ out = 0 => buf = Sector(cmd.data[sent])
    /\ at = IF sent = Len(cmd.data) THEN "status" ELSE "data"
    /\ csw = [Fresh EXCEPT !.data_reside = size]

\* An inquiry, and whatever is answered with a few bytes.
InInquiry ==
    /\ cmd.op = "inquiry" /\ status = "CSW" /\ csw = Fresh /\ out = 0
    /\ \/ in = "reply" /\ at = "data"
       \/ in = "nothing" /\ at = "status"

\* The status block waits for the host.
InStatus ==
    /\ status = "CBW" /\ in = "csw" /\ out = SIZEOF_CBW /\ at = "status"
    /\ csw = [Fresh EXCEPT !.status = IF cmd.op = "test" THEN removed ELSE 0]
    /\ cmd.op = "read"  => Len(got) = cmd.count
    /\ cmd.op = "write" => Stored(Len(cmd.data))

\* Host and class agree on how far the command is.
Agreed == InCbw \/ InRead \/ InWrite \/ InInquiry \/ InStatus
CommandInv ==
    Busy => cmd \in Command /\ state = "configured" /\ buf.holds # "nothing" /\ Agreed

\* While no command has been cut off.
MassStorageInv == Types /\ QueueInv /\ IdleInv /\ SetUp /\ PacketInv /\ CommandInv

\* Throughout, also when the class goes on with a command that was cut off: what it
\* takes from the buffer and from the disk exists,
BufferTypes ==
    /\ buf.holds = "sector" => buf.value \in Value
    /\ buf.holds = "cbw" => buf.cmd \in Command /\ buf.tag \in 0 .. 1

SendsWithin == status = "SEND" => count > 0 /\ block + count <= Sectors

\* and while the host is in a session the device is configured and has its buffer.
HostInv ==
    /\ ~Busy => sent = 0 /\ got = <<>>
    /\ ~Session => cmd = NoCommand
    /\ cmd # NoCommand => ep0 = "idle"
    /\ Session => buf.holds # "nothing"
    /\ at = "ready" =>
          state = "configured" \/ (ep0 = "status" /\ packet = Setup("SET_CONFIGURATION", 0))
    /\ Busy => cmd \in Command /\ state = "configured"
    /\ at = "data" /\ cmd.op = "write" => sent < Len(cmd.data)

Configured ==
    ep0 = "status" /\ packet.request = "SET_CONFIGURATION" /\ packet.value # 0 =>
        state = "configured" /\ buf.holds # "nothing"

ClassInv  == ClassTypes /\ BufferTypes /\ SendsWithin
EventsInv == QueueTypes /\ TransfersFirst /\ RequestLast /\ SessionOnly
BusInv    == EventsInv /\ CoreTypes /\ HostTypes /\ ClassInv /\ HostInv /\ Configured /\ PacketInv

\* The inductive invariant.
Inv == BusInv /\ (~cut => MassStorageInv)
-----------------------------------------------------------------------------
\* What a command is.
LEMMA CommandFacts ==
    ASSUME NEW c \in Command
    PROVE  /\ c # NoCommand
           /\ c.op \in {"read", "write", "inquiry", "test", "startstop", "verify"}
           /\ c.op = "read" => /\ c.block \in Nat /\ c.count \in Nat \ {0}
                               /\ c.block + c.count <= Sectors
           /\ c.op = "write" => /\ c.block \in Nat /\ Len(c.data) \in Nat \ {0}
                                /\ c.block + Len(c.data) <= Sectors
                                /\ DOMAIN c.data = 1 .. Len(c.data)
                                /\ \A i \in 1 .. Len(c.data) : c.data[i] \in Data
  <1> DEFINE Reads  == {[op |-> "read", block |-> b, count |-> n] :
                            b \in Block, n \in 1 .. Sectors - 1}
             Buffers == UNION {[1 .. n -> Data] : n \in 1 .. Sectors}
             Writes == {[op |-> "write", block |-> b, data |-> d] : b \in Block, d \in Buffers}
             Others == {[op |-> o] : o \in {"inquiry", "test", "startstop", "verify"}}
  <1>1. c \in Reads \/ c \in Writes \/ c \in Others
    BY CommandAssumption DEF Commands
  <1>2. /\ c # NoCommand
        /\ c.op = "read"  => c.block + c.count <= Sectors
        /\ c.op = "write" => c.block + Len(c.data) <= Sectors
    BY CommandAssumption
  <1>3. ASSUME c \in Reads
        PROVE  c.op = "read" /\ c.block \in Nat /\ c.count \in Nat \ {0}
    BY <1>3, DiskAssumption DEF Block
  <1>4. ASSUME c \in Writes
        PROVE  /\ c.op = "write" /\ c.block \in Nat /\ Len(c.data) \in Nat \ {0}
               /\ DOMAIN c.data = 1 .. Len(c.data)
               /\ \A i \in 1 .. Len(c.data) : c.data[i] \in Data
    <2>1. PICK b \in Block, d \in Buffers : c = [op |-> "write", block |-> b, data |-> d]
      BY <1>4
    <2>2. PICK n \in 1 .. Sectors : d \in [1 .. n -> Data]
      BY <2>1
    <2>3. n \in Nat /\ n # 0
      BY DiskAssumption
    <2>4. d \in Seq(Data) /\ Len(d) = n
      BY <2>2, <2>3
    <2>5. DOMAIN d = 1 .. Len(d) /\ \A i \in 1 .. Len(d) : d[i] \in Data
      BY <2>2, <2>4
    <2>6. c.op = "write" /\ c.block = b /\ c.data = d /\ b \in Nat
      BY <2>1 DEF Block
    <2>7. QED
      BY <2>3, <2>4, <2>5, <2>6
  <1>5. ASSUME c \in Others
        PROVE  c.op \in {"inquiry", "test", "startstop", "verify"}
    BY <1>5
  <1>6. QED
    BY <1>1, <1>2, <1>3, <1>4, <1>5

\* The queue after an event has been posted: the event is its last, or it is lost.
LEMMA PostFacts ==
    ASSUME QueueTypes, NEW e \in EventMsg, rt_usbd_post_event(e)
    PROVE  /\ usb_mq' \in Seq(EventMsg) /\ Len(usb_mq') <= MqMax /\ lost' \in BOOLEAN
           /\ Len(usb_mq) \in Nat /\ Len(usb_mq') \in Nat
           /\ Len(usb_mq') \in {Len(usb_mq), Len(usb_mq) + 1}
           /\ \A i \in 1 .. Len(usb_mq) : usb_mq'[i] = usb_mq[i]
           /\ Len(usb_mq') # Len(usb_mq) => usb_mq'[Len(usb_mq) + 1] = e
  <1>1. usb_mq \in Seq(EventMsg) /\ Len(usb_mq) \in Nat /\ MqMax \in Nat
    BY MqAssumption DEF QueueTypes
  <1>2. CASE Len(usb_mq) < MqMax
    <2>1. usb_mq' = Append(usb_mq, e) /\ lost' = lost
      BY <1>2 DEF rt_usbd_post_event
    <2>2. /\ usb_mq' \in Seq(EventMsg) /\ Len(usb_mq') = Len(usb_mq) + 1
          /\ \A i \in 1 .. Len(usb_mq) : usb_mq'[i] = usb_mq[i]
          /\ usb_mq'[Len(usb_mq) + 1] = e
      BY <1>1, <2>1
    <2>3. QED
      BY <1>1, <1>2, <2>1, <2>2 DEF QueueTypes
  <1>3. CASE ~(Len(usb_mq) < MqMax)
    <2>1. usb_mq' = usb_mq
      BY <1>3 DEF rt_usbd_post_event
    <2>2. lost' \in BOOLEAN
      BY <1>3 DEF rt_usbd_post_event
    <2>3. QED
      BY <1>1, <2>1, <2>2 DEF QueueTypes
  <1>4. QED
    BY <1>2, <1>3

\* The queue after an event has been taken: its head is gone.
LEMMA TakeFacts ==
    ASSUME QueueTypes, NEW t, Received(t)
    PROVE  /\ usb_mq' \in Seq(EventMsg) /\ Len(usb_mq') <= MqMax /\ lost' \in BOOLEAN
           /\ Len(usb_mq) \in Nat /\ Len(usb_mq') \in Nat /\ Len(usb_mq) = Len(usb_mq') + 1
           /\ \A i \in 1 .. Len(usb_mq') : i + 1 \in 1 .. Len(usb_mq) /\ usb_mq'[i] = usb_mq[i + 1]
           /\ usb_mq[1] \in EventMsg /\ usb_mq[1].type = t /\ Head(usb_mq) = usb_mq[1]
           /\ UNCHANGED packet
  <1>1. usb_mq \in Seq(EventMsg) /\ usb_mq # <<>> /\ usb_mq' = Tail(usb_mq)
    BY DEF QueueTypes, Received
  <1>2. /\ usb_mq' \in Seq(EventMsg) /\ Len(usb_mq) \in Nat /\ Len(usb_mq') \in Nat
        /\ Len(usb_mq) = Len(usb_mq') + 1
        /\ \A i \in 1 .. Len(usb_mq') : usb_mq'[i] = usb_mq[i + 1]
        /\ Head(usb_mq) = usb_mq[1] /\ usb_mq[1] \in EventMsg
    BY <1>1
  <1>3. /\ MqMax \in Nat /\ Len(usb_mq) <= MqMax /\ lost' \in BOOLEAN
        /\ Head(usb_mq).type = t /\ UNCHANGED packet
    BY MqAssumption DEF QueueTypes, Received
  <1>4. QED
    BY <1>2, <1>3

\* The events that are posted.
LEMMA EventFacts ==
    /\ \A t \in EventType, n \in Nat :
          Event(t, n) \in EventMsg /\ Event(t, n).type = t /\ Event(t, n).size = n
    /\ SIZEOF_CBW \in Nat \ {0} /\ SectorSize \in Nat \ {0}
  BY DiskAssumption DEF Event, EventMsg

\* Contents of the buffer.
LEMMA BufferFacts ==
    /\ Null.holds = "nothing" /\ Junk.holds = "junk" /\ Cbw.holds = "cbw"
    /\ Cbw.cmd = cmd /\ Cbw.tag = tag
    /\ \A v : Sector(v).holds = "sector" /\ Sector(v).value = v
  BY DEF Null, Junk, Cbw, Sector

\* Bytes that a command counts fit 32 bits.
LEMMA ByteFacts ==
    ASSUME NEW n \in 0 .. Sectors
    PROVE  /\ n * SectorSize \in 0 .. Modulus - 1
           /\ n # 0 => (n * SectorSize - SectorSize) % Modulus = (n - 1) * SectorSize
           /\ n * SectorSize = 0 <=> n = 0
  <1>1. /\ Sectors \in Nat /\ SectorSize \in Nat /\ SectorSize > 0
        /\ Modulus \in Nat /\ Modulus > Sectors * SectorSize
    BY DiskAssumption
  <1>2. \A k \in 0 .. Sectors : k * SectorSize \in Nat /\ k * SectorSize <= Sectors * SectorSize
    BY <1>1
  <1>3. n * SectorSize \in 0 .. Modulus - 1
    BY <1>1, <1>2
  <1>4. n * SectorSize = 0 <=> n = 0
    BY <1>1
  <1>5. ASSUME n # 0
        PROVE  (n * SectorSize - SectorSize) % Modulus = (n - 1) * SectorSize
    <2>1. n * SectorSize - SectorSize = (n - 1) * SectorSize /\ n - 1 \in 0 .. Sectors
      BY <1>1, <1>5
    <2>2. (n - 1) * SectorSize \in Nat /\ (n - 1) * SectorSize < Modulus
      BY <1>1, <1>2, <2>1
    <2>3. \A a \in Nat, m \in Nat : a < m => a % m = a
      OBVIOUS
    <2>4. ((n - 1) * SectorSize) % Modulus = (n - 1) * SectorSize
      BY <1>1, <2>2, <2>3
    <2>5. QED
      BY <2>1, <2>4
  <1>6. QED
    BY <1>3, <1>4, <1>5
\* So does the number of a sector.
LEMMA BlockFacts ==
    /\ \A b \in Block : b \in Nat /\ (b + 1) % Modulus = b + 1
    /\ Modulus \in Nat \ {0}
  <1>1. /\ Sectors \in Nat /\ SectorSize \in Nat /\ SectorSize > 0
        /\ Modulus \in Nat /\ Modulus > Sectors * SectorSize
    BY DiskAssumption
  <1>2. Sectors * SectorSize >= Sectors
    BY <1>1
  <1>3. ASSUME NEW b \in Block
        PROVE  b \in Nat /\ (b + 1) % Modulus = b + 1
    <2>1. b + 1 \in Nat /\ b + 1 <= Sectors /\ b \in Nat
      BY <1>1 DEF Block
    <2>2. b + 1 < Modulus
      BY <1>1, <1>2, <2>1
    <2>3. \A k \in Nat, m \in Nat : k < m => k % m = k
      OBVIOUS
    <2>4. QED
      BY <1>1, <2>1, <2>2, <2>3
  <1>4. QED
    BY <1>1, <1>2, <1>3
-----------------------------------------------------------------------------
\* It holds at the start.
LEMMA InvInit == Init => MassStorageInv
  <1> SUFFICES ASSUME Init
               PROVE  MassStorageInv
    OBVIOUS
  <1>1. usb_mq = <<>> /\ Len(usb_mq) = 0 /\ usb_mq \in Seq(EventMsg) /\ got \in Seq(Value)
    BY DEF Init, rt_usbd_core_init
  <1>2. QueueTypes
    <2>1. lost = FALSE
      BY DEF Init, rt_usbd_core_init
    <2>2. Len(usb_mq) <= MqMax
      BY <1>1, MqAssumption
    <2>3. QED
      BY <1>1, <2>1, <2>2 DEF QueueTypes
  <1>3. CoreTypes
    BY DEF CoreTypes, Init, rt_usbd_core_init
  <1>4. Modulus \in Nat /\ Modulus > 0
    BY DiskAssumption
  <1>5. disk \in [Block -> Value]
    BY DEF Init, Value
  <1>6. csw \in [tag : 0 .. 1, data_reside : 0 .. Modulus - 1, status : 0 .. 1]
    BY <1>4 DEF Init
  <1>7. ClassTypes
    BY <1>4, <1>5, <1>6, BufferFacts DEF ClassTypes, Init
  <1>8. HostTypes
    BY <1>1 DEF HostTypes, Init
  <1>9. QueueInv
    BY <1>1 DEF QueueInv, TransfersFirst, RequestLast, OutLast, SessionOnly, InAlone, Only,
                Session, Init, rt_usbd_core_init
  <1>10. IdleInv /\ SetUp /\ CommandInv
    BY DEF IdleInv, SetUp, CommandInv, Session, Busy, Init, rt_usbd_core_init
  <1>11. PacketInv
    BY DEF PacketInv, Init, rt_usbd_core_init
  <1>12. QED
    BY <1>2, <1>3, <1>7, <1>8, <1>9, <1>10, <1>11 DEF MassStorageInv, Types

\* The thread takes an event and nothing else changes.
LEMMA TakeOnly ==
    ASSUME MassStorageInv, NEW t, Received(t),
           UNCHANGED <<ep0, state, disk, class, buf, out, in, host>>
    PROVE  MassStorageInv'
  <1> USE TakeFacts DEF MassStorageInv, Types
  <1>1. /\ ep0' = ep0 /\ state' = state /\ disk' = disk /\ buf' = buf /\ out' = out /\ in' = in
        /\ status' = status /\ csw' = csw /\ block' = block /\ count' = count /\ size' = size
        /\ removed' = removed /\ at' = at /\ cmd' = cmd /\ tag' = tag /\ sent' = sent /\ got' = got
        /\ packet' = packet
    BY DEF class, host
  <1>2. Types'
    BY <1>1 DEF QueueTypes, CoreTypes, ClassTypes, HostTypes
  <1>3. ASSUME NEW i \in 1 .. Len(usb_mq'), Last(i + 1)
        PROVE  Last(i)'
    <2> SUFFICES ASSUME NEW j \in 1 .. Len(usb_mq'), j > i
                 PROVE  usb_mq'[j].type = "sof"
      BY DEF Last
    <2>1. j + 1 \in 1 .. Len(usb_mq) /\ j + 1 > i + 1 /\ usb_mq'[j] = usb_mq[j + 1]
      OBVIOUS
    <2>2. QED
      BY <1>3, <2>1 DEF Last
  <1>4. TransfersFirst'
    <2> SUFFICES ASSUME NEW i \in 1 .. Len(usb_mq'), usb_mq'[i].type \in Transfer
                 PROVE  /\ \A j \in 1 .. i - 1 : usb_mq'[j].type \in {"in", "out", "sof"}
                        /\ buf'.holds # "nothing"
      BY DEF TransfersFirst
    <2>1. i + 1 \in 1 .. Len(usb_mq) /\ usb_mq[i + 1].type \in Transfer
      OBVIOUS
    <2>2. /\ \A j \in 1 .. (i + 1) - 1 : usb_mq[j].type \in {"in", "out", "sof"}
          /\ buf.holds # "nothing"
      BY <2>1 DEF QueueInv, TransfersFirst
    <2>3. ASSUME NEW j \in 1 .. i - 1
          PROVE  usb_mq'[j].type \in {"in", "out", "sof"}
      <3>1. j + 1 \in 1 .. (i + 1) - 1 /\ usb_mq'[j] = usb_mq[j + 1]
        OBVIOUS
      <3>2. QED
        BY <2>2, <3>1
    <2>4. QED
      BY <1>1, <2>2, <2>3
  <1>5. RequestLast'
    <2>1. ASSUME NEW i \in 1 .. Len(usb_mq'), usb_mq'[i].type = "setup"
          PROVE  ep0' = "asked" /\ Last(i)'
      <3>1. i + 1 \in 1 .. Len(usb_mq) /\ usb_mq[i + 1].type = "setup"
        BY <2>1
      <3>2. ep0 = "asked" /\ Last(i + 1)
        BY <3>1 DEF QueueInv, RequestLast
      <3>3. QED
        BY <1>1, <3>2, <1>3
    <2>2. ep0' \in {"data", "status", "stall"} => Only({"sof"})'
      BY <1>1 DEF QueueInv, RequestLast, Only
    <2>3. QED
      BY <2>1, <2>2 DEF RequestLast
  <1>6. OutLast'
    <2> SUFFICES ASSUME NEW i \in 1 .. Len(usb_mq'), usb_mq'[i].type = "out"
                 PROVE  /\ Last(i)' /\ Busy' /\ in' = "nothing" /\ out' = 0
                        /\ status' \in {"CBW", "RECEIVE"}
                        /\ status' = "RECEIVE" => usb_mq'[i].size = SectorSize
      BY DEF OutLast
    <2>1. i + 1 \in 1 .. Len(usb_mq) /\ usb_mq[i + 1].type = "out" /\ usb_mq'[i] = usb_mq[i + 1]
      OBVIOUS
    <2>2. /\ Last(i + 1) /\ Busy /\ in = "nothing" /\ out = 0 /\ status \in {"CBW", "RECEIVE"}
          /\ status = "RECEIVE" => usb_mq[i + 1].size = SectorSize
      BY <2>1 DEF QueueInv, OutLast
    <2>3. QED
      BY <1>1, <1>3, <2>1, <2>2 DEF Busy
  <1>7. SessionOnly'
    BY <1>1 DEF QueueInv, SessionOnly, Session, Only
  <1>8. InAlone'
    <2> SUFFICES ASSUME status \in {"SEND", "CSW"}
                 PROVE  /\ in # "nothing" => Only({"sof"})'
                        /\ \A i \in 1 .. Len(usb_mq') : usb_mq'[i].type = "in" =>
                              \A j \in (1 .. Len(usb_mq')) \ {i} : usb_mq'[j].type = "sof"
      BY <1>1 DEF InAlone
    <2>1. in # "nothing" => Only({"sof"})'
      BY DEF QueueInv, InAlone, Only
    <2>2. ASSUME NEW i \in 1 .. Len(usb_mq'), usb_mq'[i].type = "in",
                 NEW j \in (1 .. Len(usb_mq')) \ {i}
          PROVE  usb_mq'[j].type = "sof"
      <3>1. /\ i + 1 \in 1 .. Len(usb_mq) /\ usb_mq[i + 1].type = "in"
            /\ j + 1 \in (1 .. Len(usb_mq)) \ {i + 1} /\ usb_mq'[j] = usb_mq[j + 1]
        BY <2>2
      <3>2. QED
        BY <3>1 DEF QueueInv, InAlone
    <2>3. QED
      BY <2>1, <2>2
  <1>9. IdleInv' /\ SetUp' /\ PacketInv'
    BY <1>1 DEF IdleInv, SetUp, PacketInv, WaitsForCommand, Session, Busy
  <1>10. CommandInv'
    BY <1>1 DEF CommandInv, Busy, Agreed, InCbw, InRead, InWrite, InInquiry, InStatus, Cbw,
                Fresh, Read, Written, Stored
  <1>11. QED
    BY <1>2, <1>4, <1>5, <1>6, <1>7, <1>8, <1>9, <1>10 DEF QueueInv

\* The class has told the host that its data are out, and sends the next sector, or the
\* status block.
LEMMA InHandled ==
    ASSUME MassStorageInv, Received("in"), UNCHANGED <<ep0, state, host>>,
           status \in {"CSW", "SEND"}, _ep_in_handler
    PROVE  /\ MassStorageInv'
           /\ UNCHANGED <<disk, cmd, got>>
  <1> USE TakeFacts DEF MassStorageInv, Types
  <1>1. /\ ep0' = ep0 /\ state' = state /\ at' = at /\ cmd' = cmd /\ tag' = tag
        /\ sent' = sent /\ got' = got /\ packet' = packet
    BY DEF host
  <1>2. \A i \in 1 .. Len(usb_mq') : usb_mq'[i].type = "sof"
    BY DEF QueueInv, InAlone
  <1>3. in = "nothing"
    BY DEF QueueInv, InAlone, Only
  <1>4. Busy /\ cmd \in Command /\ state = "configured" /\ Agreed
    BY DEF IdleInv, CommandInv
  <1>5. QueueTypes' /\ CoreTypes' /\ HostTypes'
    BY <1>1 DEF QueueTypes, CoreTypes, HostTypes
  <1>6. QueueInv'
    <2>1. TransfersFirst' /\ RequestLast' /\ OutLast'
      BY <1>2 DEF TransfersFirst, RequestLast, OutLast, Transfer, Only
    <2>2. SessionOnly' /\ InAlone'
      BY <1>2 DEF SessionOnly, InAlone, Only
    <2>3. QED
      BY <2>1, <2>2 DEF QueueInv
  <1>7. IdleInv' /\ SetUp' /\ PacketInv'
    BY <1>1, <1>4 DEF IdleInv, SetUp, PacketInv, Session, Busy
  <1>8. CASE status = "CSW"
    <2>1. /\ status' = "CBW" /\ in' = "csw" /\ out' = SIZEOF_CBW
          /\ UNCHANGED <<disk, csw, block, count, size, removed, buf>>
      BY <1>8 DEF _ep_in_handler, _send_status
    <2>2. ClassTypes'
      BY <2>1 DEF ClassTypes
    <2>3. InRead \/ InInquiry
      BY <1>4, <1>8 DEF Agreed, InCbw, InWrite, InStatus
    <2>4. ASSUME InRead
          PROVE  InStatus'
      <3>1. count \in Nat /\ Len(got) \in Nat /\ cmd.count \in Nat
        BY <2>4, <1>4, CommandFacts DEF ClassTypes, HostTypes, InRead
      <3>2. count = 0 /\ Len(got) = cmd.count /\ at = "status"
        BY <2>4, <1>3, <1>8, <3>1 DEF InRead, Read
      <3>3. cmd.op = "read" /\ csw = Fresh
        BY <2>4 DEF InRead
      <3>4. csw' = [Fresh EXCEPT !.status = 0]'
        BY <1>1, <2>1, <3>3 DEF Fresh
      <3>5. QED
        BY <1>1, <2>1, <3>2, <3>3, <3>4 DEF InStatus
    <2>5. ASSUME InInquiry
          PROVE  InStatus'
      <3>1. cmd.op = "inquiry" /\ csw = Fresh /\ at = "status"
        BY <2>5, <1>3 DEF InInquiry
      <3>2. csw' = [Fresh EXCEPT !.status = 0]'
        BY <1>1, <2>1, <3>1 DEF Fresh
      <3>3. QED
        BY <1>1, <2>1, <3>1, <3>2 DEF InStatus
    <2>6. CommandInv'
      BY <1>1, <1>4, <2>1, <2>3, <2>4, <2>5 DEF CommandInv, Agreed
    <2>7. QED
      BY <1>1, <1>5, <1>6, <1>7, <2>1, <2>2, <2>6
  <1>9. CASE status = "SEND"
    <2>1. SendSector(block, count) /\ UNCHANGED csw
      BY <1>9 DEF _ep_in_handler
    <2>2. InRead
      BY <1>4, <1>9 DEF Agreed, InCbw, InWrite, InInquiry, InStatus
    <2>3. /\ cmd.op = "read" /\ cmd.count \in Nat /\ cmd.block \in Nat /\ Len(got) \in Nat
          /\ cmd.block + cmd.count <= Sectors /\ Sectors \in Nat
      BY <1>4, <2>2, CommandFacts, DiskAssumption DEF InRead, HostTypes
    <2>4. /\ count \in Nat /\ count > 0 /\ count = cmd.count - Len(got)
          /\ block = cmd.block + Len(got) /\ out = 0 /\ at = "data" /\ csw = Fresh
      BY <1>3, <1>9, <2>2, <2>3 DEF InRead, Read, ClassTypes
    <2>5. /\ buf' = Sector(disk[block]) /\ in' = "sector" /\ count' = count - 1
          /\ block' = (IF count > 1 THEN block + 1 ELSE block)
          /\ status' = (IF count > 1 THEN "SEND" ELSE "CSW")
          /\ UNCHANGED <<disk, size, removed, out, csw>>
      BY <2>1 DEF SendSector, DiskRead
    <2>6. ClassTypes'
      <3>1. block' \in Nat /\ count' \in Nat
        <4>1. block \in Nat /\ count \in Nat /\ count - 1 \in Nat
          BY <2>3, <2>4
        <4>2. QED
          BY <4>1, <2>5
      <3>2. buf'.holds = "sector"
        BY <2>5, BufferFacts
      <3>3. QED
        BY <3>1, <3>2, <2>5 DEF ClassTypes
    <2>7. InRead'
      <3>1. Read' = Len(got) + 1
        BY <1>1, <2>5 DEF Read
      <3>2. Read' <= cmd.count /\ count' = cmd.count - Read'
        <4>1. Len(got) + 1 <= cmd.count /\ count - 1 = cmd.count - (Len(got) + 1)
          BY <2>3, <2>4
        <4>2. QED
          BY <2>5, <3>1, <4>1
      <3>3. status' = (IF count' > 0 THEN "SEND" ELSE "CSW")
        BY <2>4, <2>5
      <3>4. count' > 0 => block' = cmd.block + Read'
        <4>1. count' > 0 => block' = block + 1
          BY <2>4, <2>5
        <4>2. block + 1 = cmd.block + (Len(got) + 1)
          BY <2>3, <2>4
        <4>3. QED
          BY <3>1, <4>1, <4>2
      <3>5. at = IF Len(got) = cmd.count THEN "status" ELSE "data"
        BY <2>3, <2>4
      <3>6. csw' = Fresh'
        BY <1>1, <2>4, <2>5 DEF Fresh
      <3>7. buf' = Sector(disk'[cmd.block + Len(got)])
        BY <2>4, <2>5
      <3>8. QED
        BY <1>1, <2>3, <2>4, <2>5, <3>2, <3>3, <3>4, <3>5, <3>6, <3>7 DEF InRead
    <2>8. CommandInv'
      BY <1>1, <1>4, <2>5, <2>7, BufferFacts DEF CommandInv, Agreed
    <2>9. QED
      BY <1>1, <1>5, <1>6, <1>7, <2>5, <2>6, <2>8
  <1>10. QED
    BY <1>8, <1>9

\* An "in" event.
LEMMA InStep ==
    ASSUME MassStorageInv, HandleIn, UNCHANGED host
    PROVE  MassStorageInv' /\ UNCHANGED <<disk, cmd, got>>
  <1>1. CASE state = "configured" /\ status \in {"CSW", "SEND"}
    BY <1>1, InHandled DEF HandleIn
  <1>2. CASE ~(state = "configured" /\ status \in {"CSW", "SEND"})
    <2>1. UNCHANGED <<ep0, state, disk, class, buf, out, in, host>> /\ Received("in")
      BY <1>2 DEF HandleIn, _ep_in_handler
    <2>2. QED
      BY <2>1, TakeOnly DEF host
  <1>3. QED
    BY <1>1, <1>2

\* What it means for the class to have a command block: it is that of the host, nothing
\* else waits, and the buffer is that of the command.
LEMMA OutContext ==
    ASSUME MassStorageInv, Received("out")
    PROVE  /\ \A i \in 1 .. Len(usb_mq') : usb_mq'[i].type = "sof"
           /\ Busy /\ in = "nothing" /\ out = 0 /\ status \in {"CBW", "RECEIVE"}
           /\ status = "RECEIVE" => Head(usb_mq).size = SectorSize
           /\ cmd \in Command /\ state = "configured" /\ Agreed
           /\ status = "CBW" => InCbw
           /\ status = "RECEIVE" => InWrite
  <1> USE TakeFacts DEF MassStorageInv, Types
  <1>1. 1 \in 1 .. Len(usb_mq) /\ usb_mq[1].type = "out" /\ Head(usb_mq) = usb_mq[1]
    OBVIOUS
  <1>2. /\ Last(1) /\ Busy /\ in = "nothing" /\ out = 0 /\ status \in {"CBW", "RECEIVE"}
        /\ status = "RECEIVE" => Head(usb_mq).size = SectorSize
    BY <1>1 DEF QueueInv, OutLast
  <1>3. \A i \in 1 .. Len(usb_mq') : usb_mq'[i].type = "sof"
    <2> SUFFICES ASSUME NEW i \in 1 .. Len(usb_mq')
                 PROVE  usb_mq'[i].type = "sof"
      OBVIOUS
    <2>1. i + 1 \in 1 .. Len(usb_mq) /\ i + 1 > 1 /\ usb_mq'[i] = usb_mq[i + 1]
      OBVIOUS
    <2>2. QED
      BY <1>2, <2>1 DEF Last
  <1>4. cmd \in Command /\ state = "configured" /\ Agreed
    BY <1>2 DEF CommandInv
  <1>5. ~InInquiry /\ ~InStatus /\ (InRead => status \in {"SEND", "CSW"})
    BY <1>2 DEF InInquiry, InStatus, InRead
  <1>6. (InCbw => status = "CBW") /\ (InWrite => status = "RECEIVE")
    BY DEF InCbw, InWrite
  <1>7. QED
    BY <1>2, <1>3, <1>4, <1>5, <1>6 DEF Agreed

\* A queue of starts of frame alone is in order, whatever the rest does while a command
\* is under way; and so is what says that none is.
LEMMA BusyOnly ==
    ASSUME MassStorageInv, Busy, UNCHANGED <<ep0, state, packet, host>>,
           QueueTypes', \A i \in 1 .. Len(usb_mq') : usb_mq'[i].type = "sof"
    PROVE  QueueInv' /\ IdleInv' /\ SetUp' /\ PacketInv' /\ CoreTypes' /\ HostTypes'
  <1>1. /\ ep0' = ep0 /\ state' = state /\ at' = at /\ cmd' = cmd /\ tag' = tag
        /\ sent' = sent /\ got' = got /\ packet' = packet
    BY DEF host
  <1>2. TransfersFirst' /\ RequestLast' /\ OutLast'
    BY DEF TransfersFirst, RequestLast, OutLast, Transfer, Only
  <1>3. SessionOnly' /\ InAlone'
    BY DEF SessionOnly, InAlone, Only
  <1>4. IdleInv' /\ SetUp' /\ PacketInv'
    BY <1>1 DEF IdleInv, SetUp, PacketInv, Session, Busy, MassStorageInv
  <1>5. CoreTypes' /\ HostTypes'
    BY <1>1 DEF CoreTypes, HostTypes, MassStorageInv, Types
  <1>6. QED
    BY <1>2, <1>3, <1>4, <1>5 DEF QueueInv

\* The class reads a command block.
LEMMA BlockHandled ==
    ASSUME MassStorageInv, Received("out"), UNCHANGED <<ep0, state, host>>,
           status = "CBW", CommandBlock
    PROVE  /\ MassStorageInv'
           /\ UNCHANGED <<disk, cmd, got>>
  <1> USE DEF MassStorageInv, Types
  <1>1. /\ ep0' = ep0 /\ state' = state /\ at' = at /\ cmd' = cmd /\ tag' = tag
        /\ sent' = sent /\ got' = got /\ packet' = packet
    BY TakeFacts DEF host
  <1>2. /\ Busy /\ in = "nothing" /\ out = 0 /\ cmd \in Command /\ state = "configured"
        /\ InCbw
    BY OutContext
  <1>3. sent = 0 /\ got = <<>> /\ Len(got) = 0 /\ buf = Cbw
    BY <1>2 DEF InCbw
  <1>4. QueueTypes'
    BY TakeFacts DEF QueueTypes
  <1>5. QueueInv' /\ IdleInv' /\ SetUp' /\ PacketInv' /\ CoreTypes' /\ HostTypes'
    BY <1>1, <1>2, <1>4, OutContext, BusyOnly DEF host
  <1>6. buf.cmd = cmd /\ buf.tag = tag /\ buf.holds = "cbw"
    BY <1>3, BufferFacts
  <1>7. /\ Fresh' = Fresh /\ Fresh \in [tag : 0 .. 1, data_reside : 0 .. Modulus - 1, status : 0 .. 1]
        /\ Fresh = [tag |-> buf.tag, data_reside |-> 0, status |-> 0]
    <2>1. tag \in 0 .. 1 /\ 0 \in 0 .. Modulus - 1
      BY DiskAssumption DEF HostTypes
    <2>2. QED
      BY <1>1, <1>6, <2>1 DEF Fresh
  <1>8. \/ _read_10(cmd, Fresh) \/ _write_10(cmd, Fresh) \/ _inquiry_cmd(cmd, Fresh)
        \/ _test_unit_ready(cmd, Fresh) \/ _start_stop(cmd, Fresh) \/ _verify_10(cmd, Fresh)
    BY <1>6, <1>7 DEF CommandBlock
  <1>9. SUFFICES ClassTypes' /\ Agreed' /\ buf'.holds # "nothing" /\ UNCHANGED disk
    BY <1>1, <1>2, <1>4, <1>5 DEF CommandInv
  <1>10. CASE _read_10(cmd, Fresh)
    <2>1. /\ cmd.op = "read" /\ cmd.count \in Nat \ {0} /\ cmd.block \in Nat
      BY <1>2, <1>10, CommandFacts DEF _read_10
    <2>2. /\ buf' = Sector(disk[cmd.block]) /\ in' = "sector" /\ count' = cmd.count - 1
          /\ block' = (IF cmd.count > 1 THEN cmd.block + 1 ELSE cmd.block)
          /\ status' = (IF cmd.count > 1 THEN "SEND" ELSE "CSW")
          /\ csw' = Fresh
          /\ UNCHANGED <<disk, size, removed, out>>
      BY <1>10 DEF _read_10, SendSector, DiskRead
    <2>3. block' \in Nat /\ count' \in Nat /\ buf'.holds = "sector"
      BY <2>1, <2>2, BufferFacts
    <2>4. ClassTypes'
      BY <1>7, <2>2, <2>3 DEF ClassTypes
    <2>5. Read' = 1 /\ at = "data"
      BY <1>1, <1>2, <1>3, <2>1, <2>2 DEF Read, InCbw
    <2>6. /\ Read' <= cmd.count /\ count' = cmd.count - Read'
          /\ status' = (IF count' > 0 THEN "SEND" ELSE "CSW")
          /\ count' > 0 => block' = cmd.block + Read'
          /\ at = IF Len(got) = cmd.count THEN "status" ELSE "data"
      BY <1>3, <2>1, <2>2, <2>5
    <2>7. buf' = Sector(disk'[cmd.block + Len(got)])
      BY <1>3, <2>1, <2>2
    <2>8. InRead'
      BY <1>1, <1>2, <1>7, <2>1, <2>2, <2>6, <2>7 DEF InRead
    <2>9. QED
      BY <2>2, <2>3, <2>4, <2>8 DEF Agreed
  <1>11. CASE _write_10(cmd, Fresh)
    <2>1. /\ cmd.op = "write" /\ cmd.block \in Nat /\ Len(cmd.data) \in Nat \ {0}
          /\ Len(cmd.data) \in 0 .. Sectors
      BY <1>2, <1>11, CommandFacts, DiskAssumption DEF _write_10
    <2>2. /\ block' = cmd.block /\ count' = Len(cmd.data)
          /\ size' = Len(cmd.data) * SectorSize
          /\ csw' = [Fresh EXCEPT !.data_reside = Len(cmd.data) * SectorSize]
          /\ out' = SectorSize /\ status' = "RECEIVE"
          /\ UNCHANGED <<disk, removed, buf, in>>
      BY <1>11 DEF _write_10
    <2>3. size' \in 0 .. Modulus - 1
      BY <2>1, <2>2, ByteFacts
    <2>4. csw' \in [tag : 0 .. 1, data_reside : 0 .. Modulus - 1, status : 0 .. 1]
      BY <1>7, <2>2, <2>3
    <2>5. ClassTypes'
      BY <2>1, <2>2, <2>3, <2>4 DEF ClassTypes
    <2>6. Written' = 0
      BY <1>1, <1>3, <2>2, EventFacts DEF Written
    <2>7. Stored(0)'
      BY DEF Stored
    <2>8. /\ block' = cmd.block + Written' /\ Written' \in 0 .. Len(cmd.data) - 1
          /\ size' = (Len(cmd.data) - Written') * SectorSize
      BY <2>1, <2>2, <2>6
    <2>9. at = IF sent = Len(cmd.data) THEN "status" ELSE "data"
      BY <1>2, <1>3, <2>1 DEF InCbw
    <2>10. csw' = [Fresh EXCEPT !.data_reside = size]'
      BY <1>7, <2>2
    <2>11. InWrite'
      BY <1>1, <1>2, <2>1, <2>2, <2>6, <2>7, <2>8, <2>9, <2>10, EventFacts DEF InWrite
    <2>12. QED
      BY <1>6, <2>2, <2>5, <2>11 DEF Agreed
  <1>12. CASE _inquiry_cmd(cmd, Fresh)
    <2>1. /\ cmd.op = "inquiry" /\ in' = "reply" /\ status' = "CSW" /\ csw' = Fresh
          /\ UNCHANGED <<disk, block, count, size, removed, buf, out>>
      BY <1>12 DEF _inquiry_cmd
    <2>2. ClassTypes'
      BY <1>7, <2>1 DEF ClassTypes
    <2>3. InInquiry'
      BY <1>1, <1>2, <1>7, <2>1 DEF InInquiry, InCbw
    <2>4. QED
      BY <1>6, <2>1, <2>2, <2>3 DEF Agreed
  <1>13. CASE _test_unit_ready(cmd, Fresh)
    <2>1. /\ cmd.op = "test" /\ in' = "csw" /\ out' = SIZEOF_CBW /\ status' = "CBW"
          /\ csw' = [Fresh EXCEPT !.status = removed]
          /\ UNCHANGED <<disk, block, count, size, removed, buf>>
      BY <1>13 DEF _test_unit_ready, _send_status
    <2>2. csw' \in [tag : 0 .. 1, data_reside : 0 .. Modulus - 1, status : 0 .. 1]
      BY <1>7, <2>1 DEF ClassTypes
    <2>3. ClassTypes'
      BY <2>1, <2>2 DEF ClassTypes
    <2>4. InStatus'
      BY <1>1, <1>2, <1>7, <2>1 DEF InStatus, InCbw
    <2>5. QED
      BY <1>6, <2>1, <2>3, <2>4 DEF Agreed
  <1>14. CASE _start_stop(cmd, Fresh)
    <2>1. /\ cmd.op = "startstop" /\ in' = "csw" /\ out' = SIZEOF_CBW /\ status' = "CBW"
          /\ csw' = Fresh /\ removed' = 1
          /\ UNCHANGED <<disk, block, count, size, buf>>
      BY <1>14 DEF _start_stop, _send_status
    <2>2. ClassTypes'
      BY <1>7, <2>1 DEF ClassTypes
    <2>3. csw' = [Fresh EXCEPT !.status = 0]
      BY <2>1 DEF Fresh
    <2>4. InStatus'
      BY <1>1, <1>2, <1>7, <2>1, <2>3 DEF InStatus, InCbw
    <2>5. QED
      BY <1>6, <2>1, <2>2, <2>4 DEF Agreed
  <1>15. CASE _verify_10(cmd, Fresh)
    <2>1. /\ csw' = Fresh
          /\ UNCHANGED <<disk, status, block, count, size, removed, buf, out, in>>
      BY <1>15 DEF _verify_10
    <2>2. ClassTypes'
      BY <1>7, <2>1 DEF ClassTypes
    <2>3. InCbw'
      BY <1>1, <1>2, <2>1 DEF InCbw, Cbw
    <2>4. QED
      BY <1>6, <2>1, <2>2, <2>3 DEF Agreed
  <1>16. QED
    BY <1>8, <1>10, <1>11, <1>12, <1>13, <1>14, <1>15

\* The class stores a sector: the one the host has sent last.
LEMMA SectorHandled ==
    ASSUME MassStorageInv, Received("out"), UNCHANGED <<ep0, state, host>>,
           status = "RECEIVE", Receive(Head(usb_mq).size)
    PROVE  /\ MassStorageInv'
           /\ UNCHANGED <<cmd, got>>
           /\ cmd \in Command /\ cmd.op = "write" /\ sent \in 1 .. Len(cmd.data)
           /\ disk' = [disk EXCEPT ![cmd.block + sent - 1] = cmd.data[sent]]
  <1> USE DEF MassStorageInv, Types
  <1>1. /\ ep0' = ep0 /\ state' = state /\ at' = at /\ cmd' = cmd /\ tag' = tag
        /\ sent' = sent /\ got' = got /\ packet' = packet /\ Fresh' = Fresh
    BY TakeFacts DEF host, Fresh
  <1>2. /\ Busy /\ in = "nothing" /\ out = 0 /\ cmd \in Command /\ state = "configured"
        /\ InWrite /\ Head(usb_mq).size = SectorSize
    BY OutContext
  <1>3. /\ cmd.op = "write" /\ cmd.block \in Nat /\ Len(cmd.data) \in Nat \ {0}
        /\ cmd.block + Len(cmd.data) <= Sectors /\ Sectors \in Nat
        /\ \A i \in 1 .. Len(cmd.data) : cmd.data[i] \in Data
    BY <1>2, CommandFacts, DiskAssumption DEF InWrite
  <1>4. /\ Written = sent - 1 /\ sent \in Nat /\ sent \in 1 .. Len(cmd.data)
        /\ Stored(sent - 1) /\ block = cmd.block + sent - 1 /\ block \in Block
        /\ buf = Sector(cmd.data[sent])
    <2>1. Written = sent - 1 /\ sent \in Nat
      BY <1>2 DEF Written, HostTypes
    <2>2. /\ sent - 1 \in 0 .. Len(cmd.data) - 1 /\ Stored(sent - 1)
          /\ block = cmd.block + (sent - 1) /\ buf = Sector(cmd.data[sent])
      BY <1>2, <2>1 DEF InWrite
    <2>3. QED
      BY <1>3, <2>1, <2>2 DEF Block
  <1>5. QueueTypes'
    BY TakeFacts DEF QueueTypes
  <1>6. QueueInv' /\ IdleInv' /\ SetUp' /\ PacketInv' /\ CoreTypes' /\ HostTypes'
    BY <1>1, <1>2, <1>5, OutContext, BusyOnly DEF host
  <1> DEFINE left == Len(cmd.data) - sent + 1
  <1>7. /\ left \in 1 .. Sectors /\ left - 1 \in 0 .. Sectors
        /\ left = Len(cmd.data) - (sent - 1) /\ left - 1 = Len(cmd.data) - sent
    <2>1. Len(cmd.data) \in Nat /\ sent \in Nat /\ sent >= 1 /\ sent <= Len(cmd.data)
      BY <1>3, <1>4
    <2>2. Len(cmd.data) <= Sectors /\ Sectors \in Nat
      BY <1>3
    <2>3. QED
      BY <2>1, <2>2
  <1>8. size = left * SectorSize /\ csw = [Fresh EXCEPT !.data_reside = size]
    BY <1>2, <1>4, <1>7 DEF InWrite
  <1>9. /\ (size - SectorSize) % Modulus = (left - 1) * SectorSize
        /\ (left - 1) * SectorSize \in 0 .. Modulus - 1
        /\ (left - 1) * SectorSize = 0 <=> left - 1 = 0
    <2> HIDE DEF left
    <2>1. left \in 0 .. Sectors /\ left # 0
      BY <1>7
    <2>2. QED
      BY <1>7, <1>8, <2>1, ByteFacts
  <1>10. /\ size' = (left - 1) * SectorSize
         /\ csw' = [Fresh EXCEPT !.data_reside = size']
         /\ disk' = [disk EXCEPT ![block] = cmd.data[sent]]
         /\ block' = block + 1
         /\ UNCHANGED <<count, removed, buf>>
    <2>1. /\ size' = (size - SectorSize) % Modulus
          /\ csw' = [csw EXCEPT !.data_reside = (@ - SectorSize) % Modulus]
          /\ DiskWrite(block) /\ block' = (block + 1) % Modulus
          /\ UNCHANGED <<count, removed, buf>>
      BY <1>2 DEF Receive
    <2>2. csw' = [Fresh EXCEPT !.data_reside = size']
      BY <1>8, <2>1 DEF Fresh
    <2>3. buf.holds = "sector" /\ buf.value = cmd.data[sent]
      BY <1>4, BufferFacts
    <2>4. disk' = [disk EXCEPT ![block] = cmd.data[sent]]
      BY <1>4, <2>1, <2>3 DEF DiskWrite
    <2>5. block' = block + 1
      BY <1>4, <2>1, BlockFacts
    <2>6. QED
      BY <1>9, <2>1, <2>2, <2>4, <2>5
  <1>11. /\ disk' \in [Block -> Value] /\ block' \in Nat /\ size' \in 0 .. Modulus - 1
         /\ csw' \in [tag : 0 .. 1, data_reside : 0 .. Modulus - 1, status : 0 .. 1]
         /\ count' \in Nat /\ removed' \in 0 .. 1
         /\ buf'.holds = "sector"
    <2>1. cmd.data[sent] \in Value /\ disk \in [Block -> Value]
      BY <1>3, <1>4 DEF Value, ClassTypes
    <2>2. disk' \in [Block -> Value]
      BY <1>4, <1>10, <2>1
    <2>3. block' \in Nat
      BY <1>4, <1>10 DEF Block
    <2>4. size' \in 0 .. Modulus - 1 /\ tag \in 0 .. 1 /\ 0 \in 0 .. 1
      BY <1>9, <1>10 DEF HostTypes
    <2>5. csw' \in [tag : 0 .. 1, data_reside : 0 .. Modulus - 1, status : 0 .. 1]
      BY <1>10, <2>4 DEF Fresh
    <2>6. QED
      BY <1>4, <1>10, <2>2, <2>3, <2>4, <2>5, BufferFacts DEF ClassTypes
  <1>12. Stored(sent)'
    <2> SUFFICES ASSUME NEW i \in 1 .. sent
                 PROVE  disk'[cmd.block + i - 1] = cmd.data[i]
      BY <1>1 DEF Stored
    <2>1. disk \in [Block -> Value] /\ cmd.block + i - 1 \in Block
      <3>1. disk \in [Block -> Value]
        BY DEF ClassTypes
      <3>2. cmd.block + i - 1 \in Block
        BY <1>3, <1>4 DEF Block
      <3>3. QED
        BY <3>1, <3>2
    <2>2. CASE i = sent
      BY <1>4, <1>10, <2>1, <2>2
    <2>3. CASE i # sent
      <3>1. i \in 1 .. sent - 1 /\ cmd.block + i - 1 # block
        BY <1>3, <1>4, <2>3
      <3>2. disk[cmd.block + i - 1] = cmd.data[i]
        BY <1>4, <3>1 DEF Stored
      <3>3. QED
        BY <1>10, <2>1, <3>1, <3>2
    <2>4. QED
      BY <2>2, <2>3
  <1>13. at = IF sent = Len(cmd.data) THEN "status" ELSE "data"
    BY <1>2 DEF InWrite
  <1>14. SUFFICES ClassTypes' /\ Agreed'
    BY <1>1, <1>2, <1>3, <1>4, <1>5, <1>6, <1>10, <1>11 DEF CommandInv
  <1>15. CASE size' = 0
    <2>1. in' = "csw" /\ out' = SIZEOF_CBW /\ status' = "CBW"
      BY <1>15 DEF Receive, _send_status
    <2>2. sent = Len(cmd.data) /\ at = "status"
      BY <1>3, <1>4, <1>9, <1>10, <1>13, <1>15
    <2>3. ClassTypes'
      BY <1>11, <2>1 DEF ClassTypes
    <2>4. csw' = [Fresh EXCEPT !.status = 0]'
      BY <1>1, <1>10, <1>15 DEF Fresh
    <2>5. Stored(Len(cmd.data))'
      BY <1>1, <1>12, <2>2
    <2>6. InStatus'
      BY <1>1, <1>3, <2>1, <2>2, <2>4, <2>5 DEF InStatus
    <2>7. QED
      BY <2>3, <2>6 DEF Agreed
  <1>16. CASE size' # 0
    <2>1. out' = SectorSize /\ in' = in /\ status' = status
      BY <1>16 DEF Receive
    <2>2. sent \in 0 .. Len(cmd.data) - 1
      BY <1>3, <1>4, <1>9, <1>10, <1>16
    <2>3. ClassTypes'
      BY <1>2, <1>11, <2>1 DEF ClassTypes
    <2>4. Written' = sent
      BY <1>1, <2>1, EventFacts DEF Written
    <2>5. block' = cmd.block + sent
      <3>1. cmd.block \in Nat /\ sent \in Nat /\ (cmd.block + sent - 1) + 1 = cmd.block + sent
        BY <1>3, <1>4
      <3>2. QED
        BY <1>4, <1>10, <3>1
    <2>6. size' = (Len(cmd.data) - sent) * SectorSize
      BY <1>7, <1>10
    <2>7. csw' = [Fresh EXCEPT !.data_reside = size]'
      BY <1>1, <1>10
    <2>8. InWrite'
      BY <1>1, <1>2, <1>3, <1>12, <1>13, <2>1, <2>2, <2>4, <2>5, <2>6, <2>7, EventFacts DEF InWrite
    <2>9. QED
      BY <2>3, <2>8 DEF Agreed
  <1>17. QED
    BY <1>15, <1>16

\* An "out" event, as a step of the disk that the host sees.
LEMMA OutStep ==
    ASSUME MassStorageInv, HandleOut, UNCHANGED host
    PROVE  /\ MassStorageInv'
           /\ Promise!Store \/ UNCHANGED <<disk, cmd, got>>
  <1>1. CASE status = "CBW" /\ CommandBlock
    BY <1>1, BlockHandled DEF HandleOut
  <1>2. CASE status = "RECEIVE" /\ Receive(Head(usb_mq).size)
    <2>1. /\ MassStorageInv' /\ UNCHANGED <<cmd, got>>
          /\ cmd \in Command /\ cmd.op = "write" /\ sent \in 1 .. Len(cmd.data)
          /\ disk' = [disk EXCEPT ![cmd.block + sent - 1] = cmd.data[sent]]
      BY <1>2, SectorHandled DEF HandleOut
    <2>2. cmd # NoCommand
      BY <2>1, CommandFacts
    <2>3. sent \in DOMAIN cmd.data
      BY <2>1, CommandFacts
    <2>4. QED
      BY <2>1, <2>2, <2>3 DEF Promise!Store
  <1>3. CASE UNCHANGED <<disk, class, buf, out, in>>
    <2>1. Received("out") /\ UNCHANGED <<ep0, state, disk, class, buf, out, in, host>>
      BY <1>3 DEF HandleOut
    <2>2. QED
      BY <2>1, TakeOnly DEF host
  <1>4. QED
    BY <1>1, <1>2, <1>3 DEF HandleOut, _ep_out_handler
-----------------------------------------------------------------------------
\* A request: the host is in no command, and nothing but starts of frame is left.
LEMMA RequestStep ==
    ASSUME MassStorageInv, HandleSetup, UNCHANGED host
    PROVE  MassStorageInv' /\ UNCHANGED <<disk, cmd, got>>
  <1> USE DEF MassStorageInv, Types
  <1>1. /\ Received("setup") /\ disk' = disk /\ status' = status /\ csw' = csw
        /\ block' = block /\ count' = count /\ size' = size /\ removed' = removed
        /\ at' = at /\ cmd' = cmd /\ tag' = tag /\ sent' = sent /\ got' = got
    BY DEF HandleSetup, class, host
  <1>2. packet' = packet
    BY <1>1, TakeFacts
  <1>3. 1 \in 1 .. Len(usb_mq) /\ usb_mq[1].type = "setup" /\ ep0 = "asked" /\ Last(1)
    <2>1. 1 \in 1 .. Len(usb_mq) /\ usb_mq[1].type = "setup"
      BY <1>1, TakeFacts
    <2>2. QED
      BY <2>1 DEF QueueInv, RequestLast
  <1>4. \A i \in 1 .. Len(usb_mq') : usb_mq'[i].type = "sof"
    <2> SUFFICES ASSUME NEW i \in 1 .. Len(usb_mq')
                 PROVE  usb_mq'[i].type = "sof"
      OBVIOUS
    <2>1. i + 1 \in 1 .. Len(usb_mq) /\ i + 1 > 1 /\ usb_mq'[i] = usb_mq[i + 1]
      BY <1>1, TakeFacts
    <2>2. QED
      BY <1>3, <2>1 DEF Last
  <1>5. /\ packet \in Request \cup {NoPacket} /\ packet # NoPacket /\ ~Busy /\ cmd = NoCommand
        /\ at \notin {"off", "attached"}
        /\ packet.request = "SET_ADDRESS" => at = "default"
    BY <1>3 DEF PacketInv
  <1>6. status = "CBW" /\ sent = 0 /\ got = <<>>
    BY <1>5 DEF IdleInv
  <1>7. packet.request = "SET_CONFIGURATION" /\ packet.value = 0
            => packet = Setup("SET_CONFIGURATION", 0)
    BY <1>5 DEF Request, Setup, Replied, Refused, Ignored, NumConfigurations
  <1>8. QueueTypes' /\ HostTypes'
    BY <1>1, TakeFacts DEF QueueTypes, HostTypes
  <1>9. QueueInv'
    <2>1. TransfersFirst' /\ RequestLast' /\ OutLast'
      BY <1>4 DEF TransfersFirst, RequestLast, OutLast, Transfer, Only
    <2>2. SessionOnly' /\ InAlone'
      BY <1>4 DEF SessionOnly, InAlone, Only
    <2>3. QED
      BY <2>1, <2>2 DEF QueueInv
  <1>10. PacketInv' /\ CommandInv'
    BY <1>1, <1>2, <1>5 DEF PacketInv, CommandInv, Busy
  <1>11. SUFFICES CoreTypes' /\ ClassTypes' /\ IdleInv' /\ SetUp'
    BY <1>1, <1>8, <1>9, <1>10
  <1>12. /\ ~Busy' /\ status' = "CBW" /\ sent' = 0 /\ got' = <<>> /\ cmd' = NoCommand
    BY <1>1, <1>5, <1>6 DEF Busy
  <1>13. at = "ready" => state = "configured" /\ WaitsForCommand
    BY <1>3 DEF IdleInv
  <1>14. CASE _setup_request /\ UNCHANGED <<buf, out, in>>
    <2>1. ClassTypes'
      BY <1>1, <1>14 DEF ClassTypes
    <2>2. WaitsForCommand' = WaitsForCommand
      BY <1>14 DEF WaitsForCommand
    <2>3. ASSUME CoreTypes',
                 at = "ready" => \/ state' = "configured"
                                 \/ /\ ep0' = "status"
                                    /\ packet = Setup("SET_CONFIGURATION", 0),
                 packet.request = "SET_CONFIGURATION" => ep0' = "stall" \/ packet.value = 0
          PROVE  CoreTypes' /\ ClassTypes' /\ IdleInv' /\ SetUp'
      <3>1. IdleInv'
        BY <1>1, <1>2, <1>12, <1>13, <2>2, <2>3 DEF IdleInv
      <3>2. SetUp'
        BY <1>2, <2>3 DEF SetUp
      <3>3. QED
        BY <2>1, <2>3, <3>1, <3>2
    <2>4. CASE _get_interface
      BY <1>13, <2>3, <2>4 DEF _get_interface, Answer, CoreTypes
    <2>5. CASE _set_address
      BY <1>5, <2>3, <2>5 DEF _set_address, Answer, CoreTypes
    <2>6. CASE SetConfigRefused
      BY <1>13, <2>3, <2>6 DEF SetConfigRefused, Answer, CoreTypes
    <2>7. CASE SetConfigNone
      BY <1>7, <2>3, <2>7 DEF SetConfigNone, Answer, CoreTypes
    <2>8. CASE OtherRequest
      <3>1. /\ packet.request \in Replied \cup Refused \cup Ignored
            /\ state' = state /\ ep0' \in {"data", "stall", "asked"}
        BY <1>3, <2>8 DEF OtherRequest
      <3>2. packet.request # "SET_CONFIGURATION"
        BY <3>1 DEF Replied, Refused, Ignored
      <3>3. CoreTypes'
        BY <3>1 DEF CoreTypes
      <3>4. QED
        BY <1>13, <2>3, <3>1, <3>2, <3>3
    <2>9. QED
      BY <1>14, <2>4, <2>5, <2>6, <2>7, <2>8 DEF _setup_request
  <1>15. CASE SetConfigRun /\ _class_run /\ in' = "nothing"
    <2>1. state' = "configured" /\ ep0' = "status"
      BY <1>15 DEF SetConfigRun, Answer
    <2>2. buf' = Junk /\ out' = SIZEOF_CBW /\ in' = "nothing" /\ buf'.holds = "junk"
      BY <1>15, BufferFacts DEF _class_run
    <2>3. CoreTypes' /\ ClassTypes'
      BY <1>1, <2>1, <2>2 DEF CoreTypes, ClassTypes
    <2>4. WaitsForCommand'
      BY <2>2 DEF WaitsForCommand
    <2>5. IdleInv' /\ SetUp'
      <3>1. cmd' = NoCommand
        BY <1>12
      <3>2. QED
        BY <1>12, <2>1, <2>4, <3>1 DEF IdleInv, SetUp
    <2>6. QED
      BY <2>3, <2>5
  <1>16. QED
    BY <1>14, <1>15 DEF HandleSetup

\* An event of a reset or of the plug: no transfer waits behind it and no session is on.
LEMMA NoSession ==
    ASSUME MassStorageInv, NEW t \in {"reset", "plugout"}, Received(t)
    PROVE  /\ ~Session /\ ~Busy /\ cmd = NoCommand /\ status = "CBW"
           /\ ep0 \notin {"data", "status", "stall"}
           /\ \A i \in 1 .. Len(usb_mq') : usb_mq'[i].type \notin Transfer
  <1> USE TakeFacts DEF MassStorageInv, Types
  <1>1. 1 \in 1 .. Len(usb_mq) /\ usb_mq[1].type = t
    OBVIOUS
  <1>2. ~Session /\ ep0 \notin {"data", "status", "stall"}
    BY <1>1 DEF QueueInv, SessionOnly, RequestLast, Only
  <1>3. ~Busy /\ cmd = NoCommand /\ status = "CBW"
    BY <1>2 DEF IdleInv, Session, Busy
  <1>4. ASSUME NEW i \in 1 .. Len(usb_mq'), usb_mq'[i].type \in Transfer
        PROVE  FALSE
    <2>1. i + 1 \in 1 .. Len(usb_mq) /\ usb_mq[i + 1].type \in Transfer /\ 1 \in 1 .. (i + 1) - 1
      BY <1>4
    <2>2. usb_mq[1].type \in {"in", "out", "sof"}
      BY <2>1 DEF QueueInv, TransfersFirst
    <2>3. QED
      BY <1>1, <2>2
  <1>5. QED
    BY <1>2, <1>3, <1>4

\* A reset runs the class again, an unplugging stops it: neither in a session.
LEMMA ResetStep ==
    ASSUME MassStorageInv, HandleReset \/ HandlePlugOut, UNCHANGED host
    PROVE  MassStorageInv' /\ UNCHANGED <<disk, cmd, got>>
  <1> USE DEF MassStorageInv, Types
  <1>1. PICK t \in {"reset", "plugout"} : Received(t)
    BY DEF HandleReset, HandlePlugOut
  <1>2. /\ ep0' = ep0 /\ state' = state /\ disk' = disk /\ status' = status /\ csw' = csw
        /\ block' = block /\ count' = count /\ size' = size /\ removed' = removed /\ in' = in
        /\ at' = at /\ cmd' = cmd /\ tag' = tag /\ sent' = sent /\ got' = got
    BY DEF HandleReset, HandlePlugOut, class, host
  <1>3. packet' = packet /\ QueueTypes'
    BY <1>1, TakeFacts DEF QueueTypes
  <1>4. /\ ~Session /\ ~Busy /\ cmd = NoCommand /\ status = "CBW"
        /\ ep0 \notin {"data", "status", "stall"}
        /\ \A i \in 1 .. Len(usb_mq') : usb_mq'[i].type \notin Transfer
    BY <1>1, NoSession
  <1>5. out' \in {out, SIZEOF_CBW} /\ buf' \in {buf, Junk, Null}
    BY DEF HandleReset, HandlePlugOut, _class_run, _class_stop
  <1>6. buf'.holds \in {"nothing", "junk", "sector", "cbw"}
    BY <1>5, BufferFacts DEF ClassTypes
  <1>7. Types'
    BY <1>2, <1>3, <1>5, <1>6 DEF CoreTypes, ClassTypes, HostTypes
  <1>8. QueueInv'
    <2>1. TransfersFirst' /\ OutLast'
      BY <1>4 DEF TransfersFirst, OutLast, Transfer
    <2>2. RequestLast'
      <3>1. ASSUME NEW i \in 1 .. Len(usb_mq'), usb_mq'[i].type = "setup"
            PROVE  ep0' = "asked" /\ Last(i)'
        <4>1. i + 1 \in 1 .. Len(usb_mq) /\ usb_mq[i + 1].type = "setup"
          BY <1>1, <3>1, TakeFacts
        <4>2. ep0 = "asked" /\ Last(i + 1)
          BY <4>1 DEF QueueInv, RequestLast
        <4>3. ASSUME NEW j \in 1 .. Len(usb_mq'), j > i
              PROVE  usb_mq'[j].type = "sof"
          <5>1. j + 1 \in 1 .. Len(usb_mq) /\ j + 1 > i + 1 /\ usb_mq'[j] = usb_mq[j + 1]
            BY <1>1, <4>3, TakeFacts
          <5>2. QED
            BY <4>2, <5>1 DEF Last
        <4>4. QED
          BY <1>2, <4>2, <4>3 DEF Last
      <3>2. QED
        BY <1>2, <1>4, <3>1 DEF RequestLast
    <2>3. SessionOnly' /\ InAlone'
      BY <1>2, <1>4 DEF SessionOnly, InAlone, Session
    <2>4. QED
      BY <2>1, <2>2, <2>3 DEF QueueInv
  <1>9. IdleInv' /\ SetUp' /\ PacketInv' /\ CommandInv'
    BY <1>2, <1>3, <1>4 DEF IdleInv, SetUp, PacketInv, CommandInv, Session, Busy
  <1>10. QED
    BY <1>2, <1>7, <1>8, <1>9

\* Every step of the thread of the core.
LEMMA ThreadStep ==
    ASSUME MassStorageInv, UsbThread
    PROVE  /\ MassStorageInv'
           /\ Promise!Store \/ UNCHANGED <<disk, cmd, got>>
  <1>1. CASE HandleSof
    <2>1. Received("sof") /\ UNCHANGED <<ep0, state, disk, class, buf, out, in, host>>
      BY <1>1 DEF HandleSof, UsbThread
    <2>2. QED
      BY <2>1, TakeOnly DEF host
  <1>2. CASE HandleIn
    BY <1>2, InStep DEF UsbThread
  <1>3. CASE HandleOut
    BY <1>3, OutStep DEF UsbThread
  <1>4. CASE HandleSetup
    BY <1>4, RequestStep DEF UsbThread
  <1>5. CASE HandleReset \/ HandlePlugOut
    BY <1>5, ResetStep DEF UsbThread
  <1>6. QED
    BY <1>1, <1>2, <1>3, <1>4, <1>5 DEF UsbThread
-----------------------------------------------------------------------------
\* Of the queue after a post: which of its events are old, and which is the new one.
LEMMA PostCases ==
    ASSUME QueueTypes, NEW e \in EventMsg, rt_usbd_post_event(e)
    PROVE  /\ QueueTypes'
           /\ \A i \in 1 .. Len(usb_mq') :
                 \/ i \in 1 .. Len(usb_mq) /\ usb_mq'[i] = usb_mq[i]
                 \/ i = Len(usb_mq) + 1 /\ i = Len(usb_mq') /\ usb_mq'[i] = e
           /\ \A i \in 1 .. Len(usb_mq) : i \in 1 .. Len(usb_mq') /\ usb_mq'[i] = usb_mq[i]
           /\ Len(usb_mq) \in Nat /\ Len(usb_mq') \in Nat
  BY PostFacts DEF QueueTypes

\* A transfer waits behind other transfers, whatever is posted: a new one when nothing
\* else was there.
LEMMA PostTransfersFirst ==
    ASSUME QueueTypes, TransfersFirst, NEW e \in EventMsg, rt_usbd_post_event(e),
           buf.holds # "nothing" => buf'.holds # "nothing",
           e.type \in Transfer => Only({"in", "out", "sof"}) /\ buf'.holds # "nothing"
    PROVE  TransfersFirst'
  <1> SUFFICES ASSUME NEW i \in 1 .. Len(usb_mq'), usb_mq'[i].type \in Transfer
               PROVE  /\ \A j \in 1 .. i - 1 : usb_mq'[j].type \in {"in", "out", "sof"}
                      /\ buf'.holds # "nothing"
    BY DEF TransfersFirst
  <1>1. \A j \in 1 .. i - 1 : j \in 1 .. Len(usb_mq) /\ usb_mq'[j] = usb_mq[j]
    BY PostCases
  <1>2. CASE i \in 1 .. Len(usb_mq) /\ usb_mq'[i] = usb_mq[i]
    BY <1>1, <1>2 DEF TransfersFirst
  <1>3. CASE usb_mq'[i] = e
    BY <1>1, <1>3 DEF Only
  <1>4. QED
    BY <1>2, <1>3, PostCases

\* A request stays the last but for starts of frame, and is posted when none waits.
LEMMA PostRequestLast ==
    ASSUME QueueTypes, RequestLast, NEW e \in EventMsg, rt_usbd_post_event(e),
           e.type = "setup" => ep0' = "asked",
           \/ e.type = "sof" /\ ep0' = ep0
           \/ /\ \A i \in 1 .. Len(usb_mq) : usb_mq[i].type # "setup"
              /\ ep0' \notin {"data", "status", "stall"}
    PROVE  RequestLast'
  <1>1. ASSUME NEW i \in 1 .. Len(usb_mq'), usb_mq'[i].type = "setup"
        PROVE  ep0' = "asked" /\ Last(i)'
    <2>1. CASE i \in 1 .. Len(usb_mq) /\ usb_mq'[i] = usb_mq[i]
      <3>1. e.type = "sof" /\ ep0' = ep0 /\ ep0 = "asked" /\ Last(i)
        BY <1>1, <2>1 DEF RequestLast
      <3>2. ASSUME NEW j \in 1 .. Len(usb_mq'), j > i
            PROVE  usb_mq'[j].type = "sof"
        BY <3>1, <3>2, PostCases DEF Last
      <3>3. QED
        BY <3>1, <3>2 DEF Last
    <2>2. CASE i = Len(usb_mq') /\ usb_mq'[i] = e
      <3>1. ep0' = "asked"
        BY <1>1, <2>2
      <3>2. \A j \in 1 .. Len(usb_mq') : ~(j > i)
        BY <2>2, PostCases
      <3>3. QED
        BY <3>1, <3>2 DEF Last
    <2>3. QED
      BY <2>1, <2>2, PostCases
  <1>2. ep0' \in {"data", "status", "stall"} => Only({"sof"})'
    <2> SUFFICES ASSUME ep0' \in {"data", "status", "stall"}, NEW i \in 1 .. Len(usb_mq')
                 PROVE  usb_mq'[i].type = "sof"
      BY DEF Only
    <2>1. e.type = "sof" /\ ep0' = ep0
      OBVIOUS
    <2>2. QED
      BY <2>1, PostCases DEF RequestLast, Only
  <1>3. QED
    BY <1>1, <1>2 DEF RequestLast

\* What the host has sent stays the last but for starts of frame.
LEMMA PostOutLast ==
    ASSUME MassStorageInv, NEW e \in EventMsg, rt_usbd_post_event(e),
           e.type = "out" => /\ Busy' /\ in' = "nothing" /\ out' = 0
                             /\ status' \in {"CBW", "RECEIVE"}
                             /\ status' = "RECEIVE" => e.size = SectorSize,
           \/ e.type = "sof" /\ UNCHANGED <<at, in, out, status>>
           \/ \A i \in 1 .. Len(usb_mq) : usb_mq[i].type # "out"
    PROVE  OutLast'
  <1> USE DEF MassStorageInv, Types
  <1> SUFFICES ASSUME NEW i \in 1 .. Len(usb_mq'), usb_mq'[i].type = "out"
               PROVE  /\ Last(i)' /\ Busy' /\ in' = "nothing" /\ out' = 0
                      /\ status' \in {"CBW", "RECEIVE"}
                      /\ status' = "RECEIVE" => usb_mq'[i].size = SectorSize
    BY DEF OutLast
  <1>1. CASE i \in 1 .. Len(usb_mq) /\ usb_mq'[i] = usb_mq[i]
    <2>1. e.type = "sof" /\ at' = at /\ in' = in /\ out' = out /\ status' = status
      BY <1>1
    <2>2. /\ Last(i) /\ Busy /\ in = "nothing" /\ out = 0 /\ status \in {"CBW", "RECEIVE"}
          /\ status = "RECEIVE" => usb_mq[i].size = SectorSize
      BY <1>1 DEF QueueInv, OutLast
    <2>3. ASSUME NEW j \in 1 .. Len(usb_mq'), j > i
          PROVE  usb_mq'[j].type = "sof"
      BY <2>1, <2>2, <2>3, PostCases DEF Last
    <2>4. QED
      BY <1>1, <2>1, <2>2, <2>3 DEF Last, Busy
  <1>2. CASE i = Len(usb_mq') /\ usb_mq'[i] = e
    <2>1. \A j \in 1 .. Len(usb_mq') : ~(j > i)
      BY <1>2, PostCases
    <2>2. QED
      BY <1>2, <2>1 DEF Last
  <1>3. QED
    BY <1>1, <1>2, PostCases

\* No reset is posted in a session, and none waits when one begins.
LEMMA PostSessionOnly ==
    ASSUME QueueTypes, SessionOnly, NEW e \in EventMsg, rt_usbd_post_event(e),
           Session' => Session /\ e.type \in {"sof", "in", "out", "setup"}
    PROVE  SessionOnly'
  <1> SUFFICES ASSUME Session', NEW i \in 1 .. Len(usb_mq')
               PROVE  usb_mq'[i].type \in {"sof", "in", "out", "setup"}
    BY DEF SessionOnly, Only
  <1>1. Session /\ e.type \in {"sof", "in", "out", "setup"}
    OBVIOUS
  <1>2. QED
    BY <1>1, PostCases DEF SessionOnly, Only

\* The news of what the class has sent waits alone.
LEMMA PostInAlone ==
    ASSUME MassStorageInv, NEW e \in EventMsg, rt_usbd_post_event(e), status' = status,
           \/ e.type = "sof" /\ in' = in
           \/ e.type = "in" /\ in # "nothing" /\ in' = "nothing"
           \/ status \notin {"SEND", "CSW"}
    PROVE  InAlone'
  <1> USE DEF MassStorageInv, Types
  <1> SUFFICES ASSUME status \in {"SEND", "CSW"}
               PROVE  InAlone'
    BY DEF InAlone
  <1>1. CASE e.type = "sof" /\ in' = in
    <2>1. in # "nothing" => Only({"sof"})'
      BY <1>1, PostCases DEF QueueInv, InAlone, Only
    <2>2. ASSUME NEW i \in 1 .. Len(usb_mq'), usb_mq'[i].type = "in",
                 NEW j \in (1 .. Len(usb_mq')) \ {i}
          PROVE  usb_mq'[j].type = "sof"
      <3>1. i \in 1 .. Len(usb_mq) /\ usb_mq[i].type = "in"
        BY <1>1, <2>2, PostCases
      <3>2. CASE j \in 1 .. Len(usb_mq) /\ usb_mq'[j] = usb_mq[j]
        BY <3>1, <3>2 DEF QueueInv, InAlone
      <3>3. CASE usb_mq'[j] = e
        BY <1>1, <3>3
      <3>4. QED
        BY <3>2, <3>3, PostCases
    <2>3. QED
      BY <1>1, <2>1, <2>2 DEF InAlone
  <1>2. CASE e.type = "in" /\ in # "nothing" /\ in' = "nothing"
    <2>1. Only({"sof"})
      BY <1>2 DEF QueueInv, InAlone
    <2>2. ASSUME NEW i \in 1 .. Len(usb_mq'), usb_mq'[i].type = "in",
                 NEW j \in (1 .. Len(usb_mq')) \ {i}
          PROVE  usb_mq'[j].type = "sof"
      <3>1. i = Len(usb_mq')
        BY <2>1, <2>2, PostCases DEF Only
      <3>2. j # Len(usb_mq')
        BY <2>2, <3>1
      <3>3. j \in 1 .. Len(usb_mq) /\ usb_mq'[j] = usb_mq[j]
        BY <2>2, <3>2, PostCases
      <3>4. QED
        BY <2>1, <3>3 DEF Only
    <2>3. QED
      BY <1>2, <2>2 DEF InAlone
  <1>3. QED
    BY <1>1, <1>2
-----------------------------------------------------------------------------
\* While the host is in a session nothing waits but transfers and a request, and no
\* request while it is in a command.
LEMMA CommandQueue ==
    ASSUME MassStorageInv, cmd # NoCommand
    PROVE  ep0 = "idle" /\ Session /\ Only({"in", "out", "sof"})
  <1> USE DEF MassStorageInv
  <1>1. ep0 = "idle" /\ Session
    BY DEF IdleInv
  <1>2. QED
    BY <1>1 DEF QueueInv, SessionOnly, RequestLast, Only

\* A host in a command has given one.
LEMMA BusyCommand ==
    ASSUME MassStorageInv
    PROVE  (Busy => cmd \in Command /\ cmd # NoCommand) /\ (cmd = NoCommand => ~Busy)
  BY CommandFacts DEF MassStorageInv, CommandInv

\* A start of frame.
LEMMA SofStep ==
    ASSUME MassStorageInv, Sof
    PROVE  MassStorageInv' /\ UNCHANGED <<disk, cmd, got>>
  <1> USE DEF MassStorageInv, Types
  <1> DEFINE e == Event("sof", 0)
  <1>1. e \in EventMsg /\ e.type = "sof" /\ rt_usbd_post_event(e)
    BY EventFacts DEF EventType, Sof
  <1>2. /\ packet' = packet /\ ep0' = ep0 /\ state' = state /\ disk' = disk /\ buf' = buf
        /\ out' = out /\ in' = in
        /\ status' = status /\ csw' = csw /\ block' = block /\ count' = count /\ size' = size
        /\ removed' = removed /\ at' = at /\ cmd' = cmd /\ tag' = tag /\ sent' = sent /\ got' = got
    BY DEF Sof, class, host
  <1> HIDE DEF e
  <1>3. Types'
    BY <1>1, <1>2, PostCases DEF CoreTypes, ClassTypes, HostTypes
  <1>4. QueueInv'
    <2>1. TransfersFirst'
      BY <1>1, <1>2, PostTransfersFirst DEF QueueInv, Transfer
    <2>2. RequestLast'
      BY <1>1, <1>2, PostRequestLast DEF QueueInv
    <2>3. OutLast'
      BY <1>1, <1>2, PostOutLast
    <2>4. SessionOnly'
      BY <1>1, <1>2, PostSessionOnly DEF QueueInv, Session
    <2>5. InAlone'
      BY <1>1, <1>2, PostInAlone
    <2>6. QED
      BY <2>1, <2>2, <2>3, <2>4, <2>5 DEF QueueInv
  <1>5. IdleInv' /\ SetUp' /\ PacketInv'
    BY <1>2 DEF IdleInv, SetUp, PacketInv, WaitsForCommand, Session, Busy
  <1>6. CommandInv'
    BY <1>2 DEF CommandInv, Busy, Agreed, InCbw, InRead, InWrite, InInquiry, InStatus, Cbw,
                Fresh, Read, Written, Stored
  <1>7. QED
    BY <1>2, <1>3, <1>4, <1>5, <1>6

\* The cable is plugged in.
LEMMA PlugInStep ==
    ASSUME MassStorageInv, PlugIn
    PROVE  MassStorageInv' /\ UNCHANGED <<disk, cmd, got>>
  <1> USE DEF MassStorageInv, Types
  <1>1. /\ at = "off" /\ at' = "attached"
        /\ usb_mq' = usb_mq /\ lost' = lost /\ packet' = packet /\ ep0' = ep0 /\ state' = state
        /\ disk' = disk /\ buf' = buf /\ out' = out /\ in' = in
        /\ status' = status /\ csw' = csw /\ block' = block /\ count' = count /\ size' = size
        /\ removed' = removed /\ cmd' = cmd /\ tag' = tag /\ sent' = sent /\ got' = got
    BY DEF PlugIn, core, class
  <1>2. Types'
    BY <1>1 DEF QueueTypes, CoreTypes, ClassTypes, HostTypes
  <1>3. TransfersFirst' /\ RequestLast' /\ InAlone'
    BY <1>1 DEF QueueInv, TransfersFirst, RequestLast, InAlone, Only, Last
  <1>4. OutLast' /\ SessionOnly'
    BY <1>1 DEF QueueInv, OutLast, SessionOnly, Session, Busy
  <1>5. IdleInv' /\ SetUp' /\ CommandInv'
    BY <1>1 DEF IdleInv, SetUp, CommandInv, WaitsForCommand, Session, Busy
  <1>6. PacketInv'
    BY <1>1 DEF PacketInv
  <1>7. QED
    BY <1>1, <1>2, <1>3, <1>4, <1>5, <1>6 DEF QueueInv

\* Unplugging and a reset of the bus, between commands: the class waits for one.
LEMMA DropStep ==
    ASSUME MassStorageInv, cmd = NoCommand, Unplug \/ BusReset
    PROVE  MassStorageInv' /\ UNCHANGED <<disk, cmd, got>>
  <1> USE DEF MassStorageInv, Types
  <1> USE BusyCommand
  <1>1. PICK t \in {"plugout", "reset"} : rt_usbd_post_event(Event(t, 0))
    BY DEF Unplug, BusReset
  <1> DEFINE e == Event(t, 0)
  <1>2. e \in EventMsg /\ e.type = t /\ rt_usbd_post_event(e)
    BY <1>1, EventFacts DEF EventType
  <1>3. /\ at' \in {"off", "default"} /\ cmd' = NoCommand /\ sent' = 0 /\ got' = <<>>
        /\ ep0' = "idle" /\ out' = 0 /\ in' = "nothing" /\ Quiet
        /\ packet' = packet /\ state' = state /\ disk' = disk /\ buf' = buf /\ tag' = tag
        /\ status' = status /\ csw' = csw /\ block' = block /\ count' = count /\ size' = size
        /\ removed' = removed
    BY DEF Unplug, BusReset, class
  <1> HIDE DEF e
  <1>4. (ep0 = "idle" \/ usb_mq = <<>>) /\ ~Busy
    BY <1>3 DEF Quiet
  <1>5. status = "CBW"
    BY <1>4 DEF IdleInv
  <1>6. \A i \in 1 .. Len(usb_mq) : usb_mq[i].type # "setup" /\ usb_mq[i].type # "out"
    <2>1. CASE usb_mq = <<>>
      BY <2>1
    <2>2. CASE ep0 = "idle"
      BY <1>4, <2>2 DEF QueueInv, RequestLast, OutLast
    <2>3. QED
      BY <1>4, <2>1, <2>2
  <1>7. Types'
    <2>1. QueueTypes'
      BY <1>2, PostCases
    <2>2. got' \in Seq(Value)
      BY <1>3
    <2>3. CoreTypes' /\ ClassTypes' /\ HostTypes'
      BY <1>3, <2>2 DEF CoreTypes, ClassTypes, HostTypes
    <2>4. QED
      BY <2>1, <2>3
  <1>8. QueueInv'
    <2>1. TransfersFirst'
      BY <1>2, <1>3, PostTransfersFirst DEF QueueInv, Transfer
    <2>2. RequestLast'
      BY <1>2, <1>3, <1>6, PostRequestLast DEF QueueInv
    <2>3. OutLast'
      BY <1>2, <1>3, <1>6, PostOutLast
    <2>4. SessionOnly'
      BY <1>3 DEF SessionOnly, Session
    <2>5. InAlone'
      BY <1>3, <1>5 DEF InAlone
    <2>6. QED
      BY <2>1, <2>2, <2>3, <2>4, <2>5 DEF QueueInv
  <1>9. IdleInv' /\ SetUp' /\ PacketInv' /\ CommandInv'
    BY <1>3, <1>5 DEF IdleInv, SetUp, PacketInv, CommandInv, Session, Busy
  <1>10. UNCHANGED <<disk, cmd, got>>
    BY <1>3, <1>4 DEF IdleInv
  <1>11. QED
    BY <1>7, <1>8, <1>9, <1>10

\* A request of the host.
LEMMA AskStep ==
    ASSUME MassStorageInv, NEW r \in Ask, AskFor(r)
    PROVE  MassStorageInv' /\ UNCHANGED <<disk, cmd, got>>
  <1> USE DEF MassStorageInv, Types
  <1> DEFINE e == Event("setup", 0)
  <1>1. e \in EventMsg /\ e.type = "setup" /\ rt_usbd_post_event(e)
    BY EventFacts DEF EventType, AskFor
  <1>2. /\ at \notin {"off", "attached"} /\ ep0 = "idle" /\ cmd = NoCommand /\ Asks(r)
        /\ packet' = r /\ ep0' = "asked"
        /\ state' = state /\ disk' = disk /\ buf' = buf /\ out' = out /\ in' = in
        /\ status' = status /\ csw' = csw /\ block' = block /\ count' = count /\ size' = size
        /\ removed' = removed /\ at' = at /\ cmd' = cmd /\ tag' = tag /\ sent' = sent /\ got' = got
    BY DEF AskFor, class, host
  <1> HIDE DEF e
  <1>3. ~Busy /\ status = "CBW"
    BY <1>2, BusyCommand DEF IdleInv
  <1>4. \A i \in 1 .. Len(usb_mq) : usb_mq[i].type # "setup" /\ usb_mq[i].type # "out"
    BY <1>2, <1>3 DEF QueueInv, RequestLast, OutLast
  <1>5. Types'
    BY <1>1, <1>2, PostCases DEF CoreTypes, ClassTypes, HostTypes
  <1>6. QueueInv'
    <2>1. TransfersFirst'
      BY <1>1, <1>2, PostTransfersFirst DEF QueueInv, Transfer
    <2>2. RequestLast'
      BY <1>1, <1>2, <1>4, PostRequestLast DEF QueueInv
    <2>3. OutLast'
      BY <1>1, <1>2, <1>4, PostOutLast
    <2>4. SessionOnly'
      BY <1>1, <1>2, PostSessionOnly DEF QueueInv, Session
    <2>5. InAlone'
      BY <1>2, <1>3 DEF InAlone
    <2>6. QED
      BY <2>1, <2>2, <2>3, <2>4, <2>5 DEF QueueInv
  <1>7. IdleInv' /\ SetUp' /\ CommandInv'
    BY <1>2, <1>3 DEF IdleInv, SetUp, CommandInv, WaitsForCommand, Session, Busy
  <1>8. PacketInv'
    <2>1. r \in Request
      BY CommandAssumption
    <2>2. r # NoPacket
      <3>1. r.request # "none"
        BY <2>1 DEF Request, Setup, Replied, Refused, Ignored
      <3>2. QED
        BY <3>1 DEF NoPacket, Setup
    <2>3. r.request = "SET_ADDRESS" => at = "default"
      BY <1>2 DEF Asks, Replied, Refused, Ignored
    <2>4. QED
      BY <1>2, <1>3, <2>1, <2>2, <2>3 DEF PacketInv, Busy
  <1>9. QED
    BY <1>2, <1>5, <1>6, <1>7, <1>8

\* The host has its answer: it may have configured the device.
LEMMA AnswerStep ==
    ASSUME MassStorageInv, TakeAnswer
    PROVE  MassStorageInv' /\ UNCHANGED <<disk, cmd, got>>
  <1> USE DEF MassStorageInv, Types
  <1>1. /\ ep0 \in {"data", "status", "stall"} /\ ep0' = "idle" /\ packet' = NoPacket
        /\ at' = CASE ep0 = "status" /\ packet.request = "SET_ADDRESS" -> "addressed"
                   [] ep0 = "status" /\ packet.request = "SET_CONFIGURATION" ->
                          IF packet.value = 0 THEN "addressed" ELSE "ready"
                   [] OTHER -> at
        /\ usb_mq' = usb_mq /\ lost' = lost /\ state' = state
        /\ disk' = disk /\ buf' = buf /\ out' = out /\ in' = in
        /\ status' = status /\ csw' = csw /\ block' = block /\ count' = count /\ size' = size
        /\ removed' = removed /\ cmd' = cmd /\ tag' = tag /\ sent' = sent /\ got' = got
    BY DEF TakeAnswer, class
  <1>2. ~Busy /\ cmd = NoCommand /\ status = "CBW" /\ sent = 0 /\ got = <<>>
    BY <1>1 DEF PacketInv, IdleInv
  <1>3. /\ at' \in {"addressed", "ready", at}
        /\ at' = "ready" => state = "configured" /\ WaitsForCommand
    <2>1. CASE ep0 = "status" /\ packet.request = "SET_ADDRESS"
      BY <1>1, <2>1
    <2>2. CASE ep0 = "status" /\ packet.request = "SET_CONFIGURATION"
      <3>1. at' = IF packet.value = 0 THEN "addressed" ELSE "ready"
        BY <1>1, <2>2
      <3>2. QED
        BY <2>2, <3>1 DEF SetUp
    <2>3. CASE ~(ep0 = "status" /\ packet.request \in {"SET_ADDRESS", "SET_CONFIGURATION"})
      <3>1. at' = at
        BY <1>1, <2>3
      <3>2. packet = Setup("SET_CONFIGURATION", 0) => packet.request = "SET_CONFIGURATION"
        BY DEF Setup
      <3>3. QED
        BY <2>3, <3>1, <3>2 DEF IdleInv
    <2>4. QED
      BY <2>1, <2>2, <2>3
  <1>4. ~Busy'
    BY <1>2, <1>3 DEF Busy
  <1>5. Types'
    <2>1. HostTypes'
      BY <1>1, <1>3 DEF HostTypes
    <2>2. QED
      BY <1>1, <2>1 DEF QueueTypes, CoreTypes, ClassTypes
  <1>6. QueueInv'
    <2>1. \A i \in 1 .. Len(usb_mq') : usb_mq'[i].type = "sof"
      BY <1>1 DEF QueueInv, RequestLast, Only
    <2>2. TransfersFirst' /\ RequestLast' /\ OutLast'
      BY <2>1 DEF TransfersFirst, RequestLast, OutLast, Transfer, Only
    <2>3. SessionOnly' /\ InAlone'
      BY <2>1 DEF SessionOnly, InAlone, Only
    <2>4. QED
      BY <2>2, <2>3 DEF QueueInv
  <1>7. IdleInv'
    BY <1>1, <1>2, <1>3, <1>4 DEF IdleInv, WaitsForCommand
  <1>8. SetUp' /\ PacketInv' /\ CommandInv'
    BY <1>1, <1>4 DEF SetUp, PacketInv, CommandInv
  <1>9. QED
    BY <1>1, <1>5, <1>6, <1>7, <1>8
-----------------------------------------------------------------------------
\* The host decides on a command: it starts for the disk that it sees.
LEMMA CommandStep ==
    ASSUME MassStorageInv, NEW c \in Command, SendCommand(c)
    PROVE  MassStorageInv' /\ Promise!Start(c)
  <1> USE DEF MassStorageInv, Types
  <1>1. /\ at = "ready" /\ ep0 = "idle" /\ cmd = NoCommand /\ cmd' = c /\ tag' = 1 - tag
        /\ usb_mq' = usb_mq /\ lost' = lost /\ packet' = packet /\ ep0' = ep0 /\ state' = state
        /\ disk' = disk /\ buf' = buf /\ out' = out /\ in' = in
        /\ status' = status /\ csw' = csw /\ block' = block /\ count' = count /\ size' = size
        /\ removed' = removed /\ at' = at /\ sent' = sent /\ got' = got
    BY DEF SendCommand, core, class
  <1>2. ~Busy /\ status = "CBW" /\ sent = 0 /\ got = <<>>
    BY <1>1 DEF IdleInv, Busy
  <1>3. Types'
    <2>1. tag' \in 0 .. 1
      BY <1>1 DEF HostTypes
    <2>2. QED
      BY <1>1, <2>1 DEF QueueTypes, CoreTypes, ClassTypes, HostTypes
  <1>4. QueueInv'
    <2>1. TransfersFirst' /\ RequestLast' /\ InAlone'
      BY <1>1 DEF QueueInv, TransfersFirst, RequestLast, InAlone, Only, Last
    <2>2. OutLast' /\ SessionOnly'
      BY <1>1, <1>2 DEF QueueInv, OutLast, SessionOnly, Only, Session, Busy
    <2>3. QED
      BY <2>1, <2>2 DEF QueueInv
  <1>5. IdleInv' /\ SetUp' /\ PacketInv' /\ CommandInv'
    BY <1>1, <1>2 DEF IdleInv, SetUp, PacketInv, CommandInv, WaitsForCommand, Session, Busy
  <1>6. Promise!Start(c)
    BY <1>1, <1>2 DEF Promise!Start
  <1>7. QED
    BY <1>3, <1>4, <1>5, <1>6

\* What a transfer of the host to the device does to the queue.
LEMMA OutPosted ==
    ASSUME MassStorageInv, cmd # NoCommand, cmd' = cmd, NEW b, NEW n \in Nat,
           OutTransfer(b, n), b.holds # "nothing", Busy', in = "nothing",
           status = "RECEIVE" => n = SectorSize, status \in {"CBW", "RECEIVE"},
           buf.holds # "nothing"
    PROVE  /\ QueueTypes' /\ QueueInv'
           /\ buf' = b /\ out' = 0
  <1> USE DEF MassStorageInv, Types
  <1> DEFINE e == Event("out", n)
  <1>1. e \in EventMsg /\ e.type = "out" /\ e.size = n /\ rt_usbd_post_event(e)
    BY EventFacts DEF EventType, OutTransfer
  <1>2. /\ out # 0 /\ out' = 0 /\ buf' = b /\ ep0' = ep0 /\ in' = in /\ status' = status
    BY BufferFacts DEF OutTransfer, class
  <1> HIDE DEF e
  <1>3. ep0 = "idle" /\ Session /\ Only({"in", "out", "sof"})
    BY CommandQueue
  <1>4. \A i \in 1 .. Len(usb_mq) : usb_mq[i].type # "setup" /\ usb_mq[i].type # "out"
    BY <1>2, <1>3 DEF QueueInv, OutLast, Only
  <1>5. TransfersFirst'
    BY <1>1, <1>2, <1>3, PostTransfersFirst DEF QueueInv
  <1>6. RequestLast'
    BY <1>1, <1>2, <1>3, <1>4, PostRequestLast DEF QueueInv
  <1>7. OutLast'
    BY <1>1, <1>2, <1>4, PostOutLast
  <1>8. SessionOnly'
    BY <1>1, <1>3, PostSessionOnly DEF QueueInv
  <1>9. InAlone'
    BY <1>2 DEF InAlone
  <1>10. QED
    BY <1>1, <1>2, <1>5, <1>6, <1>7, <1>8, <1>9, PostCases DEF QueueInv

\* The command block.
LEMMA SendCbwStep ==
    ASSUME MassStorageInv, SendCbw
    PROVE  MassStorageInv' /\ UNCHANGED <<disk, cmd, got>>
  <1> USE DEF MassStorageInv, Types
  <1>1. /\ at = "ready" /\ cmd # NoCommand /\ OutTransfer(Cbw, SIZEOF_CBW)
        /\ at' = IF cmd.op \in {"read", "write", "inquiry"} THEN "data" ELSE "status"
        /\ cmd' = cmd /\ tag' = tag /\ sent' = sent /\ got' = got
    BY DEF SendCbw
  <1>2. /\ packet' = packet /\ ep0' = ep0 /\ state' = state /\ disk' = disk /\ in' = in
        /\ status' = status /\ csw' = csw /\ block' = block /\ count' = count /\ size' = size
        /\ removed' = removed
    BY <1>1 DEF OutTransfer, class
  <1>3. cmd \in Command /\ ep0 = "idle"
    BY <1>1 DEF HostTypes, IdleInv
  <1>4. /\ status = "CBW" /\ sent = 0 /\ got = <<>> /\ in = "nothing" /\ state = "configured"
        /\ buf.holds # "nothing"
    BY <1>1, <1>3 DEF IdleInv, Busy, WaitsForCommand
  <1>5. Busy' /\ at' \in {"data", "status"}
    BY <1>1 DEF Busy
  <1>6. QueueTypes' /\ QueueInv' /\ buf' = Cbw /\ out' = 0
    BY <1>1, <1>4, <1>5, OutPosted, BufferFacts, EventFacts
  <1>7. Types'
    BY <1>1, <1>2, <1>5, <1>6, BufferFacts DEF CoreTypes, ClassTypes, HostTypes
  <1>8. IdleInv' /\ SetUp' /\ PacketInv'
    BY <1>1, <1>2, <1>3, <1>5 DEF IdleInv, SetUp, PacketInv, Session, Busy
  <1>9. InCbw'
    BY <1>1, <1>2, <1>4, <1>6 DEF InCbw, Cbw
  <1>10. CommandInv'
    BY <1>1, <1>2, <1>3, <1>4, <1>6, <1>9, BufferFacts DEF CommandInv, Agreed
  <1>11. QED
    BY <1>1, <1>2, <1>6, <1>7, <1>8, <1>10

\* A sector of a write.
LEMMA SendDataStep ==
    ASSUME MassStorageInv, SendData
    PROVE  MassStorageInv' /\ UNCHANGED <<disk, cmd, got>>
  <1> USE DEF MassStorageInv, Types
  <1> DEFINE s == Sector(cmd.data[sent + 1])
  <1>1. /\ at = "data" /\ cmd.op = "write" /\ OutTransfer(s, SectorSize) /\ out # 0
        /\ sent' = sent + 1 /\ at' = (IF sent' = Len(cmd.data) THEN "status" ELSE "data")
        /\ cmd' = cmd /\ tag' = tag /\ got' = got
    BY DEF SendData, OutTransfer
  <1>2. /\ packet' = packet /\ ep0' = ep0 /\ state' = state /\ disk' = disk /\ in' = in
        /\ status' = status /\ csw' = csw /\ block' = block /\ count' = count /\ size' = size
        /\ removed' = removed
    BY <1>1 DEF OutTransfer, class
  <1>3. cmd \in Command /\ cmd # NoCommand /\ state = "configured" /\ buf.holds # "nothing" /\ Agreed
    BY <1>1, BusyCommand DEF CommandInv, Busy
  <1>4. InWrite
    BY <1>1, <1>3 DEF Agreed, InCbw, InRead, InInquiry, InStatus
  <1>5. status = "RECEIVE" /\ in = "nothing" /\ Written = sent /\ sent \in Nat
    BY <1>1, <1>4 DEF InWrite, Written, HostTypes
  <1>6. Busy' /\ at' \in {"data", "status"}
    BY <1>1 DEF Busy
  <1>7. s.holds = "sector"
    BY BufferFacts
  <1> HIDE DEF s
  <1>8. QueueTypes' /\ QueueInv' /\ buf' = s /\ out' = 0
    BY <1>1, <1>3, <1>5, <1>6, <1>7, OutPosted, EventFacts
  <1>9. Types'
    <2>1. sent' \in Nat
      BY <1>1, <1>5
    <2>2. QED
      BY <1>1, <1>2, <1>6, <1>7, <1>8, <2>1 DEF CoreTypes, ClassTypes, HostTypes
  <1>10. IdleInv' /\ SetUp' /\ PacketInv'
    <2>1. ep0 = "idle"
      BY <1>3, CommandQueue
    <2>2. QED
      BY <1>1, <1>2, <1>6, <2>1 DEF IdleInv, SetUp, PacketInv, Session, Busy
  <1>11. InWrite'
    <2>1. Written' = Written
      BY <1>1, <1>5, <1>8 DEF Written
    <2>2. Stored(Written)'
      BY <1>1, <1>2, <1>4, <2>1 DEF Stored, InWrite
    <2>3. csw' = [Fresh EXCEPT !.data_reside = size]'
      BY <1>1, <1>2, <1>4 DEF InWrite, Fresh
    <2>4. buf' = Sector(cmd.data[sent'])
      BY <1>1, <1>8 DEF s
    <2>5. QED
      BY <1>1, <1>2, <1>4, <1>5, <1>8, <2>1, <2>2, <2>3, <2>4 DEF InWrite
  <1>12. CommandInv'
    BY <1>1, <1>2, <1>3, <1>7, <1>8, <1>11 DEF CommandInv, Agreed
  <1>13. QED
    BY <1>1, <1>2, <1>8, <1>9, <1>10, <1>12

\* What a transfer of the device to the host does to the queue.
LEMMA InPosted ==
    ASSUME MassStorageInv, cmd # NoCommand, InTransfer, in # "nothing", Busy, Session'
    PROVE  /\ QueueTypes' /\ QueueInv'
           /\ in' = "nothing"
           /\ UNCHANGED <<packet, ep0, state, disk, class, buf, out>>
  <1> USE DEF MassStorageInv, Types
  <1> DEFINE e == Event("in", 0)
  <1>1. e \in EventMsg /\ e.type = "in" /\ rt_usbd_post_event(e)
    BY EventFacts DEF EventType, InTransfer
  <1>2. /\ out' = out /\ buf' = buf /\ ep0' = ep0 /\ in' = "nothing" /\ status' = status
    BY DEF InTransfer, class
  <1> HIDE DEF e
  <1>3. ep0 = "idle" /\ Session /\ Only({"in", "out", "sof"})
    BY CommandQueue
  <1>4. buf.holds # "nothing"
    BY DEF CommandInv
  <1>5. \A i \in 1 .. Len(usb_mq) : usb_mq[i].type # "setup" /\ usb_mq[i].type # "out"
    BY <1>3 DEF QueueInv, OutLast, Only
  <1>6. TransfersFirst'
    BY <1>1, <1>2, <1>3, <1>4, PostTransfersFirst DEF QueueInv
  <1>7. RequestLast'
    BY <1>1, <1>2, <1>3, <1>5, PostRequestLast DEF QueueInv
  <1>8. OutLast'
    BY <1>1, <1>5, PostOutLast
  <1>9. SessionOnly'
    BY <1>1, <1>3, PostSessionOnly DEF QueueInv
  <1>10. InAlone'
    BY <1>1, <1>2, PostInAlone
  <1>11. QED
    BY <1>1, <1>2, <1>6, <1>7, <1>8, <1>9, <1>10, PostCases DEF QueueInv, InTransfer

\* The host takes a sector: the next one of the disk.
LEMMA TakeSectorStep ==
    ASSUME MassStorageInv, TakeSector
    PROVE  MassStorageInv' /\ Promise!Fetch
  <1> USE DEF MassStorageInv, Types
  <1>1. /\ at = "data" /\ cmd.op = "read" /\ in = "sector" /\ InTransfer
        /\ got' = Append(got, buf.value)
        /\ at' = (IF Len(got') = cmd.count THEN "status" ELSE "data")
        /\ cmd' = cmd /\ tag' = tag /\ sent' = sent
    BY DEF TakeSector
  <1>2. /\ cmd \in Command /\ cmd # NoCommand /\ state = "configured" /\ buf.holds # "nothing"
        /\ Busy /\ Agreed
    BY <1>1, BusyCommand DEF CommandInv, Busy
  <1>3. InRead
    BY <1>1, <1>2 DEF Agreed, InCbw, InWrite, InInquiry, InStatus
  <1>4. Busy' /\ Session' /\ at' \in {"data", "status"}
    BY <1>1 DEF Busy, Session
  <1>5. /\ QueueTypes' /\ QueueInv' /\ in' = "nothing"
        /\ packet' = packet /\ ep0' = ep0 /\ state' = state /\ disk' = disk /\ buf' = buf
        /\ out' = out /\ status' = status /\ csw' = csw /\ block' = block /\ count' = count
        /\ size' = size /\ removed' = removed
    BY <1>1, <1>2, <1>4, InPosted DEF class
  <1>6. /\ got \in Seq(Value) /\ Len(got) \in Nat /\ cmd.count \in Nat /\ cmd.block \in Nat
        /\ cmd.block + cmd.count <= Sectors /\ Sectors \in Nat
        /\ Len(got) + 1 <= cmd.count
    BY <1>1, <1>2, <1>3, CommandFacts, DiskAssumption DEF InRead, Read, HostTypes
  <1>7. buf.value = disk[cmd.block + Len(got)] /\ buf.value \in Value
    <2>1. cmd.block + Len(got) \in Block
      BY <1>6 DEF Block
    <2>2. buf = Sector(disk[cmd.block + Len(got)])
      BY <1>1, <1>3 DEF InRead
    <2>3. QED
      BY <2>1, <2>2, BufferFacts DEF ClassTypes
  <1>8. got' \in Seq(Value) /\ Len(got') = Len(got) + 1
    BY <1>1, <1>6, <1>7
  <1>9. Types'
    BY <1>1, <1>4, <1>5, <1>8 DEF CoreTypes, ClassTypes, HostTypes
  <1>10. IdleInv' /\ SetUp' /\ PacketInv'
    <2>1. ep0 = "idle"
      BY <1>2, CommandQueue
    <2>2. QED
      BY <1>4, <1>5, <2>1 DEF IdleInv, SetUp, PacketInv, Session, Busy
  <1>11. InRead'
    <2>1. Read' = Read /\ Read' = Len(got) + 1
      BY <1>1, <1>5, <1>8 DEF Read
    <2>2. Fresh' = Fresh
      BY <1>1 DEF Fresh
    <2>3. /\ Read <= cmd.count /\ count = cmd.count - Read /\ out = 0 /\ csw = Fresh
          /\ status = IF count > 0 THEN "SEND" ELSE "CSW"
          /\ count > 0 => block = cmd.block + Read
      BY <1>3 DEF InRead
    <2>4. QED
      BY <1>1, <1>5, <2>1, <2>2, <2>3 DEF InRead
  <1>12. CommandInv'
    BY <1>1, <1>2, <1>5, <1>11 DEF CommandInv, Agreed
  <1>13. Promise!Fetch
    BY <1>1, <1>2, <1>5, <1>6, <1>7 DEF Promise!Fetch
  <1>14. QED
    BY <1>5, <1>9, <1>10, <1>12, <1>13

\* It takes the answer to an inquiry.
LEMMA TakeReplyStep ==
    ASSUME MassStorageInv, TakeReply
    PROVE  MassStorageInv' /\ UNCHANGED <<disk, cmd, got>>
  <1> USE DEF MassStorageInv, Types
  <1>1. /\ at = "data" /\ cmd.op = "inquiry" /\ in = "reply" /\ InTransfer
        /\ at' = "status" /\ cmd' = cmd /\ tag' = tag /\ sent' = sent /\ got' = got
    BY DEF TakeReply
  <1>2. /\ cmd \in Command /\ cmd # NoCommand /\ state = "configured" /\ buf.holds # "nothing"
        /\ Busy /\ Agreed
    BY <1>1, BusyCommand DEF CommandInv, Busy
  <1>3. InInquiry
    BY <1>1, <1>2 DEF Agreed, InCbw, InRead, InWrite, InStatus
  <1>4. Busy' /\ Session'
    BY <1>1 DEF Busy, Session
  <1>5. /\ QueueTypes' /\ QueueInv' /\ in' = "nothing"
        /\ packet' = packet /\ ep0' = ep0 /\ state' = state /\ disk' = disk /\ buf' = buf
        /\ out' = out /\ status' = status /\ csw' = csw /\ block' = block /\ count' = count
        /\ size' = size /\ removed' = removed
    BY <1>1, <1>2, <1>4, InPosted DEF class
  <1>6. Types'
    BY <1>1, <1>5 DEF CoreTypes, ClassTypes, HostTypes
  <1>7. IdleInv' /\ SetUp' /\ PacketInv'
    <2>1. ep0 = "idle"
      BY <1>2, CommandQueue
    <2>2. QED
      BY <1>4, <1>5, <2>1 DEF IdleInv, SetUp, PacketInv, Session, Busy
  <1>8. InInquiry'
    BY <1>1, <1>3, <1>5 DEF InInquiry, Fresh
  <1>9. CommandInv'
    BY <1>1, <1>2, <1>5, <1>8 DEF CommandInv, Agreed
  <1>10. QED
    BY <1>1, <1>5, <1>6, <1>7, <1>9

\* It takes the status block: the command is at its end.
LEMMA TakeStatusStep ==
    ASSUME MassStorageInv, TakeStatus
    PROVE  MassStorageInv' /\ Promise!Finish
  <1> USE DEF MassStorageInv, Types
  <1>1. /\ at = "status" /\ in = "csw" /\ InTransfer
        /\ at' = "ready" /\ cmd' = NoCommand /\ sent' = 0 /\ got' = <<>> /\ tag' = tag
    BY DEF TakeStatus
  <1>2. /\ cmd \in Command /\ cmd # NoCommand /\ state = "configured" /\ buf.holds # "nothing"
        /\ Busy /\ Agreed
    BY <1>1, BusyCommand DEF CommandInv, Busy
  <1>3. InStatus
    BY <1>1, <1>2 DEF Agreed, InCbw, InRead, InWrite, InInquiry
  <1>4. ~Busy' /\ Session'
    BY <1>1 DEF Busy, Session
  <1>5. /\ QueueTypes' /\ QueueInv' /\ in' = "nothing"
        /\ packet' = packet /\ ep0' = ep0 /\ state' = state /\ disk' = disk /\ buf' = buf
        /\ out' = out /\ status' = status /\ csw' = csw /\ block' = block /\ count' = count
        /\ size' = size /\ removed' = removed
    BY <1>1, <1>2, <1>4, InPosted DEF class
  <1>6. Types'
    <2>1. got' \in Seq(Value)
      BY <1>1
    <2>2. QED
      BY <1>1, <1>5, <2>1 DEF CoreTypes, ClassTypes, HostTypes
  <1>7. ep0 = "idle"
    BY <1>2, CommandQueue
  <1>8. status = "CBW" /\ out = SIZEOF_CBW
    BY <1>3 DEF InStatus
  <1>9. IdleInv'
    BY <1>1, <1>2, <1>4, <1>5, <1>7, <1>8 DEF IdleInv, WaitsForCommand
  <1>10. SetUp' /\ PacketInv' /\ CommandInv'
    BY <1>4, <1>5, <1>7 DEF SetUp, PacketInv, CommandInv
  <1>11. Promise!Finish
    <2>1. cmd.op = "write" => DOMAIN cmd.data = 1 .. Len(cmd.data)
      BY <1>2, CommandFacts
    <2>2. Promise!Finished
      BY <1>3, <2>1 DEF Promise!Finished, InStatus, Stored
    <2>3. QED
      BY <1>1, <1>2, <1>5, <2>2 DEF Promise!Finish
  <1>12. QED
    BY <1>5, <1>6, <1>9, <1>10, <1>11
-----------------------------------------------------------------------------
\* Throughout: the class.  Sending a sector.
LEMMA SectorSent ==
    ASSUME ClassInv, NEW b \in Nat, NEW n \in Nat \ {0}, b + n <= Sectors, SendSector(b, n),
           csw' \in [tag : 0 .. 1, data_reside : 0 .. Modulus - 1, status : 0 .. 1]
    PROVE  ClassInv' /\ buf'.holds # "nothing"
  <1> USE DEF ClassInv
  <1>1. /\ buf' = Sector(disk[b]) /\ in' = "sector" /\ count' = n - 1
        /\ block' = (IF n > 1 THEN b + 1 ELSE b)
        /\ status' = (IF n > 1 THEN "SEND" ELSE "CSW")
        /\ disk' = disk /\ size' = size /\ removed' = removed /\ out' = out
    BY DEF SendSector, DiskRead
  <1>2. b \in Block /\ Sectors \in Nat
    BY DiskAssumption DEF Block
  <1>3. disk[b] \in Value
    BY <1>2 DEF ClassTypes
  <1>4. buf'.holds = "sector" /\ buf'.value \in Value
    BY <1>1, <1>3, BufferFacts
  <1>5. block' \in Nat /\ count' \in Nat
    BY <1>1
  <1>6. ClassTypes'
    BY <1>1, <1>4, <1>5 DEF ClassTypes
  <1>7. SendsWithin'
    BY <1>1, <1>2 DEF SendsWithin
  <1>8. QED
    BY <1>4, <1>6, <1>7 DEF BufferTypes

\* A transfer to the host is over.
LEMMA InClass ==
    ASSUME ClassInv, buf.holds # "nothing", _ep_in_handler
    PROVE  ClassInv' /\ buf'.holds # "nothing"
  <1> USE DEF ClassInv
  <1>1. CASE status = "CSW"
    BY <1>1 DEF _ep_in_handler, _send_status, ClassTypes, BufferTypes, SendsWithin
  <1>2. CASE status = "SEND"
    <2>1. SendSector(block, count) /\ UNCHANGED csw
      BY <1>2 DEF _ep_in_handler
    <2>2. block \in Nat /\ count \in Nat \ {0} /\ block + count <= Sectors
      BY <1>2 DEF SendsWithin, ClassTypes
    <2>3. csw' \in [tag : 0 .. 1, data_reside : 0 .. Modulus - 1, status : 0 .. 1]
      BY <2>1 DEF ClassTypes
    <2>4. QED
      BY <2>1, <2>2, <2>3, SectorSent
  <1>3. CASE status \notin {"CSW", "SEND"}
    BY <1>3 DEF _ep_in_handler, class, ClassTypes, BufferTypes, SendsWithin
  <1>4. QED
    BY <1>1, <1>2, <1>3

\* A command block has come, of whatever command.
LEMMA BlockClass ==
    ASSUME ClassInv, status = "CBW", buf.holds = "cbw", CommandBlock
    PROVE  ClassInv' /\ buf'.holds # "nothing"
  <1> USE DEF ClassInv
  <1> DEFINE c     == buf.cmd
             fresh == [tag |-> buf.tag, data_reside |-> 0, status |-> 0]
             Csw   == [tag : 0 .. 1, data_reside : 0 .. Modulus - 1, status : 0 .. 1]
  <1>1. c \in Command /\ buf.tag \in 0 .. 1
    BY DEF BufferTypes
  <1>2. fresh \in Csw /\ removed \in 0 .. 1
    BY <1>1, BlockFacts DEF ClassTypes
  <1>3. [fresh EXCEPT !.status = removed] \in Csw
    BY <1>2
  <1>4. /\ c.op = "read"  => /\ c.block \in Nat /\ c.count \in Nat \ {0}
                             /\ c.block + c.count <= Sectors
        /\ c.op = "write" => /\ c.block \in Nat /\ Len(c.data) \in Nat
                             /\ c.block + Len(c.data) <= Sectors
    BY <1>1, CommandFacts
  <1> HIDE DEF c, fresh
  <1>5. CASE _read_10(c, fresh)
    <2>1. SendSector(c.block, c.count) /\ csw' \in Csw
      BY <1>2, <1>5 DEF _read_10
    <2>2. c.block \in Nat /\ c.count \in Nat \ {0} /\ c.block + c.count <= Sectors
      BY <1>4, <1>5 DEF _read_10
    <2>3. QED
      BY <2>1, <2>2, SectorSent
  <1>6. CASE _write_10(c, fresh)
    <2>1. c.block \in Nat /\ Len(c.data) \in 0 .. Sectors
      BY <1>4, <1>6, DiskAssumption DEF _write_10
    <2>2. Len(c.data) * SectorSize \in 0 .. Modulus - 1
      BY <2>1, ByteFacts
    <2>3. csw' \in Csw
      BY <1>2, <1>6, <2>2 DEF _write_10
    <2>4. /\ block' \in Nat /\ count' \in Nat /\ size' \in 0 .. Modulus - 1
          /\ out' = SectorSize /\ status' = "RECEIVE"
          /\ UNCHANGED <<disk, removed, buf, in>>
      BY <1>6, <2>1, <2>2 DEF _write_10
    <2>5. QED
      BY <2>3, <2>4 DEF ClassTypes, BufferTypes, SendsWithin
  <1>7. CASE _inquiry_cmd(c, fresh)
    BY <1>2, <1>7 DEF _inquiry_cmd, ClassTypes, BufferTypes, SendsWithin
  <1>8. CASE _test_unit_ready(c, fresh)
    BY <1>3, <1>8 DEF _test_unit_ready, _send_status, ClassTypes, BufferTypes, SendsWithin
  <1>9. CASE _start_stop(c, fresh)
    BY <1>2, <1>9 DEF _start_stop, _send_status, ClassTypes, BufferTypes, SendsWithin
  <1>10. CASE _verify_10(c, fresh)
    BY <1>2, <1>10 DEF _verify_10, ClassTypes, BufferTypes, SendsWithin
  <1>11. QED
    BY <1>5, <1>6, <1>7, <1>8, <1>9, <1>10 DEF CommandBlock, c, fresh

\* A transfer from the host is over: a command block, or a sector, or what the class
\* takes for one.
LEMMA OutClass ==
    ASSUME ClassInv, buf.holds # "nothing", NEW n \in Nat, _ep_out_handler(n)
    PROVE  ClassInv' /\ buf'.holds # "nothing"
  <1> USE DEF ClassInv
  <1>1. CASE status = "CBW" /\ buf.holds = "cbw" /\ CommandBlock
    BY <1>1, BlockClass, BufferFacts
  <1>2. CASE status = "RECEIVE" /\ Receive(n)
    <2>1. /\ size' = (size - n) % Modulus
          /\ csw' = [csw EXCEPT !.data_reside = (@ - n) % Modulus]
          /\ DiskWrite(block) /\ block' = (block + 1) % Modulus
          /\ UNCHANGED <<count, removed, buf>>
      BY <1>2 DEF Receive
    <2>2. \A k \in Int : k % Modulus \in 0 .. Modulus - 1
      BY BlockFacts
    <2>3. size' \in 0 .. Modulus - 1 /\ block' \in Nat
      <3>1. size - n \in Int /\ block + 1 \in Int /\ Modulus \in Nat
        BY BlockFacts DEF ClassTypes
      <3>2. size' \in 0 .. Modulus - 1 /\ block' \in 0 .. Modulus - 1
        BY <2>1, <2>2, <3>1
      <3>3. QED
        BY <3>2
    <2>4. csw' \in [tag : 0 .. 1, data_reside : 0 .. Modulus - 1, status : 0 .. 1]
      <3>1. /\ csw \in [tag : 0 .. 1, data_reside : 0 .. Modulus - 1, status : 0 .. 1]
            /\ csw.data_reside - n \in Int
        BY BlockFacts DEF ClassTypes
      <3>2. (csw.data_reside - n) % Modulus \in 0 .. Modulus - 1
        BY <2>2, <3>1
      <3>3. QED
        BY <2>1, <3>1, <3>2
    <2>5. disk' \in [Block -> Value]
      <3>1. disk \in [Block -> Value] /\ Foreign \in Value
        BY DEF ClassTypes, Value
      <3>2. (IF buf.holds = "sector" THEN buf.value ELSE Foreign) \in Value
        BY <3>1 DEF BufferTypes
      <3>3. QED
        BY <2>1, <3>1, <3>2 DEF DiskWrite
    <2>6. /\ status' \in {"CBW", "RECEIVE"} /\ in' \in {in, "csw"}
          /\ out' \in {SIZEOF_CBW, SectorSize}
      BY <1>2 DEF Receive, _send_status
    <2>7. QED
      BY <2>1, <2>3, <2>4, <2>5, <2>6 DEF ClassTypes, BufferTypes, SendsWithin
  <1>3. CASE UNCHANGED <<disk, class, buf, out, in>>
    BY <1>3 DEF class, ClassTypes, BufferTypes, SendsWithin
  <1>4. QED
    BY <1>1, <1>2, <1>3 DEF _ep_out_handler
-----------------------------------------------------------------------------
\* Throughout: the thread takes an event that is no request.
LEMMA TakeEvents ==
    ASSUME EventsInv, NEW t, Received(t), ep0' = ep0, at' = at,
           t \in {"reset", "plugout"} \/ (buf.holds # "nothing" => buf'.holds # "nothing")
    PROVE  /\ EventsInv'
           /\ t \in {"reset", "plugout"} =>
                 ~Session /\ ep0 \notin {"data", "status", "stall"}
  <1> USE DEF EventsInv
  <1>1. QueueTypes'
    BY TakeFacts DEF QueueTypes
  <1>2. 1 \in 1 .. Len(usb_mq) /\ usb_mq[1].type = t
    BY TakeFacts
  <1>3. TransfersFirst'
    <2> SUFFICES ASSUME NEW i \in 1 .. Len(usb_mq'), usb_mq'[i].type \in Transfer
                 PROVE  /\ \A j \in 1 .. i - 1 : usb_mq'[j].type \in {"in", "out", "sof"}
                        /\ buf'.holds # "nothing"
      BY DEF TransfersFirst
    <2>1. i + 1 \in 1 .. Len(usb_mq) /\ usb_mq[i + 1].type \in Transfer /\ 1 \in 1 .. (i + 1) - 1
      BY TakeFacts
    <2>2. /\ \A j \in 1 .. (i + 1) - 1 : usb_mq[j].type \in {"in", "out", "sof"}
          /\ buf.holds # "nothing"
      BY <2>1 DEF TransfersFirst
    <2>3. t \in {"in", "out", "sof"}
      BY <1>2, <2>1, <2>2
    <2>4. ASSUME NEW j \in 1 .. i - 1
          PROVE  usb_mq'[j].type \in {"in", "out", "sof"}
      <3>1. j + 1 \in 1 .. (i + 1) - 1 /\ usb_mq'[j] = usb_mq[j + 1]
        BY TakeFacts
      <3>2. QED
        BY <2>2, <3>1
    <2>5. QED
      BY <2>2, <2>3, <2>4
  <1>4. RequestLast'
    <2>1. ASSUME NEW i \in 1 .. Len(usb_mq'), usb_mq'[i].type = "setup"
          PROVE  ep0' = "asked" /\ Last(i)'
      <3>1. i + 1 \in 1 .. Len(usb_mq) /\ usb_mq[i + 1].type = "setup"
        BY <2>1, TakeFacts
      <3>2. ep0 = "asked" /\ Last(i + 1)
        BY <3>1 DEF RequestLast
      <3>3. ASSUME NEW j \in 1 .. Len(usb_mq'), j > i
            PROVE  usb_mq'[j].type = "sof"
        <4>1. j + 1 \in 1 .. Len(usb_mq) /\ j + 1 > i + 1 /\ usb_mq'[j] = usb_mq[j + 1]
          BY <3>3, TakeFacts
        <4>2. QED
          BY <3>2, <4>1 DEF Last
      <3>4. QED
        BY <3>2, <3>3 DEF Last
    <2>2. ep0' \in {"data", "status", "stall"} => Only({"sof"})'
      BY TakeFacts DEF RequestLast, Only
    <2>3. QED
      BY <2>1, <2>2 DEF RequestLast
  <1>5. SessionOnly'
    BY TakeFacts DEF SessionOnly, Session, Only
  <1>6. t \in {"reset", "plugout"} => ~Session /\ ep0 \notin {"data", "status", "stall"}
    BY <1>2 DEF SessionOnly, RequestLast, Only
  <1>7. QED
    BY <1>1, <1>3, <1>4, <1>5, <1>6

\* It takes a request: nothing but starts of frame is left.
LEMMA TakeRequest ==
    ASSUME EventsInv, Received("setup")
    PROVE  EventsInv' /\ ep0 = "asked" /\ Only({"sof"})'
  <1> USE DEF EventsInv
  <1>1. ep0 = "asked" /\ Last(1)
    BY TakeFacts DEF RequestLast
  <1>2. ASSUME NEW i \in 1 .. Len(usb_mq')
        PROVE  usb_mq'[i].type = "sof"
    <2>1. i + 1 \in 1 .. Len(usb_mq) /\ i + 1 > 1 /\ usb_mq'[i] = usb_mq[i + 1]
      BY TakeFacts
    <2>2. QED
      BY <1>1, <2>1 DEF Last
  <1>3. QueueTypes'
    BY TakeFacts DEF QueueTypes
  <1>4. TransfersFirst' /\ RequestLast' /\ SessionOnly' /\ Only({"sof"})'
    BY <1>2 DEF TransfersFirst, RequestLast, SessionOnly, Only, Transfer
  <1>5. QED
    BY <1>1, <1>3, <1>4

\* What concerns the host alone stays as it is when the thread handles an event.
LEMMA KeepHost ==
    ASSUME CoreTypes, HostTypes, HostInv, Configured, PacketInv,
           UNCHANGED <<ep0, state, packet, host>>,
           \/ buf.holds # "nothing" => buf'.holds # "nothing"
           \/ ~Session /\ ep0 \notin {"data", "status", "stall"}
    PROVE  CoreTypes' /\ HostTypes' /\ HostInv' /\ Configured' /\ PacketInv'
  <1>1. /\ ep0' = ep0 /\ state' = state /\ at' = at /\ cmd' = cmd /\ tag' = tag
        /\ sent' = sent /\ got' = got /\ packet' = packet
    BY DEF host
  <1>2. CoreTypes' /\ HostTypes' /\ PacketInv'
    BY <1>1 DEF CoreTypes, HostTypes, PacketInv, Busy
  <1>3. HostInv'
    BY <1>1 DEF HostInv, Session, Busy
  <1>4. Configured'
    BY <1>1 DEF Configured
  <1>5. QED
    BY <1>2, <1>3, <1>4

\* Events of the end points and starts of frame.
LEMMA TransferBus ==
    ASSUME BusInv, HandleSof \/ HandleIn \/ HandleOut, UNCHANGED host
    PROVE  BusInv'
  <1> USE DEF BusInv
  <1>1. PICK t \in {"sof", "in", "out"} : Received(t)
    BY DEF HandleSof, HandleIn, HandleOut
  <1>2. ep0' = ep0 /\ state' = state /\ at' = at /\ packet' = packet
    BY <1>1, TakeFacts DEF HandleSof, HandleIn, HandleOut, host, EventsInv
  <1>3. ClassInv' /\ (buf.holds # "nothing" => buf'.holds # "nothing")
    <2>1. CASE UNCHANGED <<disk, class, buf, out, in>>
      BY <2>1 DEF ClassInv, class, ClassTypes, BufferTypes, SendsWithin
    <2>2. ASSUME NEW e \in {"in", "out"}, Received(e)
          PROVE  buf.holds # "nothing" /\ Head(usb_mq).size \in Nat
      <3>1. 1 \in 1 .. Len(usb_mq) /\ usb_mq[1].type = e /\ Head(usb_mq) = usb_mq[1]
            /\ usb_mq[1] \in EventMsg
        BY <2>2, TakeFacts DEF EventsInv
      <3>2. QED
        BY <3>1 DEF EventsInv, TransfersFirst, Transfer, EventMsg
    <2>3. CASE HandleIn /\ _ep_in_handler
      BY <2>2, <2>3, InClass DEF HandleIn
    <2>4. CASE HandleOut /\ _ep_out_handler(Head(usb_mq).size)
      BY <2>2, <2>4, OutClass DEF HandleOut
    <2>5. QED
      BY <2>1, <2>3, <2>4 DEF HandleSof, HandleIn, HandleOut
  <1>4. EventsInv'
    BY <1>1, <1>2, <1>3, TakeEvents
  <1>5. CoreTypes' /\ HostTypes' /\ HostInv' /\ Configured' /\ PacketInv'
    BY <1>2, <1>3, KeepHost
  <1>6. QED
    BY <1>3, <1>4, <1>5

\* A reset and an unplugging.
LEMMA ResetBus ==
    ASSUME BusInv, HandleReset \/ HandlePlugOut, UNCHANGED host
    PROVE  BusInv'
  <1> USE DEF BusInv
  <1>1. PICK t \in {"reset", "plugout"} : Received(t)
    BY DEF HandleReset, HandlePlugOut
  <1>2. /\ ep0' = ep0 /\ state' = state /\ disk' = disk /\ status' = status /\ csw' = csw
        /\ block' = block /\ count' = count /\ size' = size /\ removed' = removed /\ in' = in
        /\ at' = at
    BY DEF HandleReset, HandlePlugOut, class, host
  <1>3. packet' = packet
    BY <1>1, TakeFacts DEF EventsInv
  <1>4. out' \in {out, SIZEOF_CBW} /\ buf' \in {buf, Junk, Null}
    BY DEF HandleReset, HandlePlugOut, _class_run, _class_stop
  <1>5. ClassInv'
    BY <1>2, <1>4, BufferFacts DEF ClassInv, ClassTypes, BufferTypes, SendsWithin
  <1>6. EventsInv' /\ ~Session /\ ep0 \notin {"data", "status", "stall"}
    BY <1>1, <1>2, TakeEvents
  <1>7. CoreTypes' /\ HostTypes' /\ HostInv' /\ Configured' /\ PacketInv'
    BY <1>2, <1>3, <1>6, KeepHost
  <1>8. QED
    BY <1>5, <1>6, <1>7

\* A request.
LEMMA RequestBus ==
    ASSUME BusInv, HandleSetup, UNCHANGED host
    PROVE  BusInv'
  <1> USE DEF BusInv
  <1>1. /\ Received("setup") /\ disk' = disk /\ status' = status /\ csw' = csw
        /\ block' = block /\ count' = count /\ size' = size /\ removed' = removed
        /\ at' = at /\ cmd' = cmd /\ tag' = tag /\ sent' = sent /\ got' = got
    BY DEF HandleSetup, class, host
  <1>2. packet' = packet
    BY <1>1, TakeFacts DEF EventsInv
  <1>3. EventsInv' /\ ep0 = "asked"
    BY <1>1, TakeRequest
  <1>4. /\ packet \in Request \cup {NoPacket} /\ packet # NoPacket /\ ~Busy /\ cmd = NoCommand
        /\ at \notin {"off", "attached"}
        /\ packet.request = "SET_ADDRESS" => at = "default"
    BY <1>3 DEF PacketInv
  <1>5. packet.request = "SET_CONFIGURATION" /\ packet.value = 0
            => packet = Setup("SET_CONFIGURATION", 0)
    BY <1>4 DEF Request, Setup, Replied, Refused, Ignored, NumConfigurations
  <1>6. HostTypes' /\ PacketInv'
    BY <1>1, <1>2, <1>4 DEF HostTypes, PacketInv, Busy
  <1>7. SUFFICES CoreTypes' /\ ClassInv' /\ HostInv' /\ Configured'
    BY <1>3, <1>6
  <1>8. at = "ready" => state = "configured"
    BY <1>3 DEF HostInv
  <1>9. ASSUME CoreTypes', ClassInv', buf.holds # "nothing" => buf'.holds # "nothing",
               at = "ready" => \/ state' = "configured"
                               \/ ep0' = "status" /\ packet = Setup("SET_CONFIGURATION", 0),
               packet.request = "SET_CONFIGURATION" =>
                   \/ ep0' = "stall" \/ packet.value = 0
                   \/ state' = "configured" /\ buf'.holds # "nothing"
        PROVE  CoreTypes' /\ ClassInv' /\ HostInv' /\ Configured'
    <2>1. HostInv'
      BY <1>1, <1>2, <1>4, <1>9 DEF HostInv, Session, Busy
    <2>2. Configured'
      BY <1>2, <1>9 DEF Configured
    <2>3. QED
      BY <1>9, <2>1, <2>2
  <1>10. CASE _setup_request /\ UNCHANGED <<buf, out, in>>
    <2>1. ClassInv' /\ buf' = buf
      BY <1>1, <1>10 DEF ClassInv, ClassTypes, BufferTypes, SendsWithin
    <2>2. CASE _get_interface
      BY <1>8, <1>9, <2>1, <2>2 DEF _get_interface, Answer, CoreTypes
    <2>3. CASE _set_address
      BY <1>4, <1>9, <2>1, <2>3 DEF _set_address, Answer, CoreTypes
    <2>4. CASE SetConfigRefused
      BY <1>8, <1>9, <2>1, <2>4 DEF SetConfigRefused, Answer, CoreTypes
    <2>5. CASE SetConfigNone
      BY <1>5, <1>9, <2>1, <2>5 DEF SetConfigNone, Answer, CoreTypes
    <2>6. CASE OtherRequest
      <3>1. /\ packet.request \in Replied \cup Refused \cup Ignored
            /\ state' = state /\ ep0' \in {"data", "stall", "asked"}
        BY <1>3, <2>6 DEF OtherRequest
      <3>2. packet.request # "SET_CONFIGURATION"
        BY <3>1 DEF Replied, Refused, Ignored
      <3>3. CoreTypes'
        BY <3>1 DEF CoreTypes
      <3>4. QED
        BY <1>8, <1>9, <2>1, <3>1, <3>2, <3>3
    <2>7. QED
      BY <1>10, <2>2, <2>3, <2>4, <2>5, <2>6 DEF _setup_request
  <1>11. CASE SetConfigRun /\ _class_run /\ in' = "nothing"
    <2>1. state' = "configured" /\ ep0' = "status"
      BY <1>11 DEF SetConfigRun, Answer
    <2>2. buf' = Junk /\ out' = SIZEOF_CBW /\ in' = "nothing" /\ buf'.holds = "junk"
      BY <1>11, BufferFacts DEF _class_run
    <2>3. CoreTypes' /\ ClassInv'
      BY <1>1, <2>1, <2>2 DEF CoreTypes, ClassInv, ClassTypes, BufferTypes, SendsWithin
    <2>4. QED
      BY <1>9, <2>1, <2>2, <2>3
  <1>12. QED
    BY <1>10, <1>11 DEF HandleSetup

\* Every step of the thread.
LEMMA ThreadBus ==
    ASSUME BusInv, UsbThread
    PROVE  BusInv'
  <1>1. CASE HandleSof \/ HandleIn \/ HandleOut
    BY <1>1, TransferBus DEF UsbThread
  <1>2. CASE HandleSetup
    BY <1>2, RequestBus DEF UsbThread
  <1>3. CASE HandleReset \/ HandlePlugOut
    BY <1>3, ResetBus DEF UsbThread
  <1>4. QED
    BY <1>1, <1>2, <1>3 DEF UsbThread
-----------------------------------------------------------------------------
\* Throughout: starts of frame, requests, and the cable and the reset, in the middle of
\* a command also.
LEMMA SofBus ==
    ASSUME BusInv, Sof
    PROVE  BusInv'
  <1> USE DEF BusInv, EventsInv
  <1> DEFINE e == Event("sof", 0)
  <1>1. e \in EventMsg /\ e.type = "sof" /\ rt_usbd_post_event(e)
    BY EventFacts DEF EventType, Sof
  <1>2. /\ packet' = packet /\ ep0' = ep0 /\ state' = state /\ at' = at
        /\ UNCHANGED host /\ UNCHANGED <<disk, class, buf, out, in>>
    BY DEF Sof, host
  <1> HIDE DEF e
  <1>3. QueueTypes' /\ TransfersFirst' /\ RequestLast' /\ SessionOnly'
    BY <1>1, <1>2, PostCases, PostTransfersFirst, PostRequestLast, PostSessionOnly
       DEF Transfer, Session
  <1>4. ClassInv'
    BY <1>2 DEF ClassInv, class, ClassTypes, BufferTypes, SendsWithin
  <1>5. CoreTypes' /\ HostTypes' /\ HostInv' /\ Configured' /\ PacketInv'
    BY <1>2, KeepHost
  <1>6. QED
    BY <1>3, <1>4, <1>5

LEMMA DropBus ==
    ASSUME BusInv, Unplug \/ BusReset
    PROVE  BusInv'
  <1> USE DEF BusInv, EventsInv
  <1>1. PICK t \in {"plugout", "reset"} : rt_usbd_post_event(Event(t, 0))
    BY DEF Unplug, BusReset
  <1> DEFINE e == Event(t, 0)
  <1>2. e \in EventMsg /\ e.type = t /\ rt_usbd_post_event(e)
    BY <1>1, EventFacts DEF EventType
  <1>3. /\ at' \in {"off", "default"} /\ cmd' = NoCommand /\ sent' = 0 /\ got' = <<>>
        /\ ep0' = "idle" /\ out' = 0 /\ in' = "nothing" /\ Quiet
        /\ packet' = packet /\ state' = state /\ disk' = disk /\ buf' = buf /\ tag' = tag
        /\ status' = status /\ csw' = csw /\ block' = block /\ count' = count /\ size' = size
        /\ removed' = removed
    BY DEF Unplug, BusReset, class
  <1> HIDE DEF e
  <1>4. \A i \in 1 .. Len(usb_mq) : usb_mq[i].type # "setup"
    BY <1>3 DEF Quiet, RequestLast
  <1>5. QueueTypes' /\ TransfersFirst' /\ RequestLast'
    BY <1>2, <1>3, <1>4, PostCases, PostTransfersFirst, PostRequestLast DEF Transfer
  <1>6. SessionOnly' /\ PacketInv' /\ HostInv' /\ Configured'
    BY <1>3 DEF SessionOnly, PacketInv, HostInv, Configured, Session, Busy
  <1>7. CoreTypes' /\ HostTypes'
    BY <1>3 DEF CoreTypes, HostTypes
  <1>8. ClassInv'
    BY <1>3 DEF ClassInv, ClassTypes, BufferTypes, SendsWithin
  <1>9. QED
    BY <1>5, <1>6, <1>7, <1>8

LEMMA AskBus ==
    ASSUME BusInv, NEW r \in Ask, AskFor(r)
    PROVE  BusInv'
  <1> USE DEF BusInv, EventsInv
  <1> DEFINE e == Event("setup", 0)
  <1>1. e \in EventMsg /\ e.type = "setup" /\ rt_usbd_post_event(e)
    BY EventFacts DEF EventType, AskFor
  <1>2. /\ at \notin {"off", "attached"} /\ ep0 = "idle" /\ cmd = NoCommand /\ Asks(r)
        /\ packet' = r /\ ep0' = "asked" /\ at' = at
        /\ state' = state /\ disk' = disk /\ buf' = buf /\ UNCHANGED <<class, out, in, host>>
    BY DEF AskFor, host
  <1> HIDE DEF e
  <1>3. ~Busy
    BY <1>2, CommandFacts DEF HostInv
  <1>4. \A i \in 1 .. Len(usb_mq) : usb_mq[i].type # "setup"
    BY <1>2 DEF RequestLast
  <1>5. QueueTypes' /\ TransfersFirst' /\ RequestLast' /\ SessionOnly'
    BY <1>1, <1>2, <1>4, PostCases, PostTransfersFirst, PostRequestLast, PostSessionOnly
       DEF Transfer, Session
  <1>6. ClassInv'
    BY <1>2 DEF ClassInv, class, ClassTypes, BufferTypes, SendsWithin
  <1>7. CoreTypes' /\ HostTypes' /\ HostInv' /\ Configured'
    BY <1>2 DEF CoreTypes, HostTypes, HostInv, Configured, Session, Busy, host
  <1>8. PacketInv'
    <2>1. r \in Request
      BY CommandAssumption
    <2>2. r # NoPacket
      <3>1. r.request # "none"
        BY <2>1 DEF Request, Setup, Replied, Refused, Ignored
      <3>2. QED
        BY <3>1 DEF NoPacket, Setup
    <2>3. r.request = "SET_ADDRESS" => at = "default"
      BY <1>2 DEF Asks, Replied, Refused, Ignored
    <2>4. QED
      BY <1>2, <1>3, <2>1, <2>2, <2>3 DEF PacketInv, Busy, host
  <1>9. QED
    BY <1>5, <1>6, <1>7, <1>8

\* The host has its answer, plugs in, or decides on a command: no event is posted.
LEMMA QuietBus ==
    ASSUME BusInv, UNCHANGED <<usb_mq, lost, state, disk, class, buf, out, in>>
    PROVE  /\ PlugIn => BusInv'
           /\ TakeAnswer => BusInv'
           /\ \A c \in Command : SendCommand(c) => BusInv'
  <1> USE DEF BusInv, EventsInv
  <1>1. /\ usb_mq' = usb_mq /\ lost' = lost /\ state' = state /\ buf' = buf
        /\ QueueTypes' /\ TransfersFirst' /\ ClassInv'
    BY DEF QueueTypes, TransfersFirst, ClassInv, class, ClassTypes, BufferTypes, SendsWithin
  <1>2. ASSUME PlugIn
        PROVE  BusInv'
    <2>1. /\ at = "off" /\ at' = "attached" /\ packet' = packet /\ ep0' = ep0
          /\ cmd' = cmd /\ tag' = tag /\ sent' = sent /\ got' = got
      BY <1>2 DEF PlugIn, core
    <2>2. RequestLast' /\ SessionOnly'
      BY <1>1, <2>1 DEF RequestLast, SessionOnly, Only, Last, Session
    <2>3. CoreTypes' /\ HostTypes' /\ HostInv' /\ Configured' /\ PacketInv'
      BY <1>1, <2>1 DEF CoreTypes, HostTypes, HostInv, Configured, PacketInv, Session, Busy
    <2>4. QED
      BY <1>1, <2>2, <2>3
  <1>3. ASSUME TakeAnswer
        PROVE  BusInv'
    <2>1. /\ ep0 \in {"data", "status", "stall"} /\ ep0' = "idle" /\ packet' = NoPacket
          /\ at' = CASE ep0 = "status" /\ packet.request = "SET_ADDRESS" -> "addressed"
                     [] ep0 = "status" /\ packet.request = "SET_CONFIGURATION" ->
                            IF packet.value = 0 THEN "addressed" ELSE "ready"
                     [] OTHER -> at
          /\ cmd' = cmd /\ tag' = tag /\ sent' = sent /\ got' = got
      BY <1>3 DEF TakeAnswer
    <2>2. ~Busy /\ cmd = NoCommand /\ sent = 0 /\ got = <<>> /\ Only({"sof"})
      BY <2>1 DEF PacketInv, HostInv, RequestLast
    <2>3. /\ at' \in {"addressed", "ready", at}
          /\ at' = "ready" => state = "configured" /\ buf.holds # "nothing"
      <3>1. CASE ep0 = "status" /\ packet.request = "SET_ADDRESS"
        BY <2>1, <3>1
      <3>2. CASE ep0 = "status" /\ packet.request = "SET_CONFIGURATION"
        <4>1. at' = IF packet.value = 0 THEN "addressed" ELSE "ready"
          BY <2>1, <3>2
        <4>2. QED
          BY <3>2, <4>1 DEF Configured
      <3>3. CASE ~(ep0 = "status" /\ packet.request \in {"SET_ADDRESS", "SET_CONFIGURATION"})
        <4>1. at' = at
          BY <2>1, <3>3
        <4>2. packet = Setup("SET_CONFIGURATION", 0) => packet.request = "SET_CONFIGURATION"
          BY DEF Setup
        <4>3. QED
          BY <3>3, <4>1, <4>2 DEF HostInv, Session
      <3>4. QED
        BY <3>1, <3>2, <3>3
    <2>4. ~Busy'
      BY <2>2, <2>3 DEF Busy
    <2>5. RequestLast' /\ SessionOnly'
      BY <1>1, <2>2 DEF RequestLast, SessionOnly, Only
    <2>6. CoreTypes' /\ HostTypes'
      BY <1>1, <2>1, <2>3 DEF CoreTypes, HostTypes
    <2>7. HostInv'
      BY <1>1, <2>1, <2>2, <2>3, <2>4 DEF HostInv, Session, Busy
    <2>8. Configured' /\ PacketInv'
      BY <2>1 DEF Configured, PacketInv
    <2>9. QED
      BY <1>1, <2>5, <2>6, <2>7, <2>8
  <1>4. ASSUME NEW c \in Command, SendCommand(c)
        PROVE  BusInv'
    <2>1. /\ at = "ready" /\ ep0 = "idle" /\ cmd' = c /\ tag' = 1 - tag
          /\ packet' = packet /\ ep0' = ep0 /\ at' = at /\ sent' = sent /\ got' = got
      BY <1>4 DEF SendCommand, core
    <2>2. RequestLast' /\ SessionOnly'
      BY <1>1, <2>1 DEF RequestLast, SessionOnly, Only, Last, Session
    <2>3. CoreTypes' /\ HostTypes'
      <3>1. tag' \in 0 .. 1
        BY <2>1 DEF HostTypes
      <3>2. QED
        BY <1>1, <2>1, <3>1 DEF CoreTypes, HostTypes
    <2>4. HostInv' /\ Configured' /\ PacketInv'
      BY <1>1, <2>1 DEF HostInv, Configured, PacketInv, Session, Busy
    <2>5. QED
      BY <1>1, <2>2, <2>3, <2>4
  <1>5. QED
    BY <1>2, <1>3, <1>4
-----------------------------------------------------------------------------
\* Throughout: the transfers of a command.
LEMMA BusCommand ==
    ASSUME BusInv, cmd # NoCommand
    PROVE  /\ cmd \in Command /\ ep0 = "idle" /\ Session /\ buf.holds # "nothing"
           /\ state = "configured"
           /\ Only({"in", "out", "sof"})
           /\ \A i \in 1 .. Len(usb_mq) : usb_mq[i].type # "setup"
  <1> USE DEF BusInv, EventsInv
  <1>1. cmd \in Command /\ ep0 = "idle" /\ Session /\ buf.holds # "nothing"
    BY DEF HostTypes, HostInv
  <1>2. state = "configured"
    BY <1>1 DEF HostInv, Session, Busy
  <1>3. \A i \in 1 .. Len(usb_mq) : usb_mq[i].type # "setup"
    BY <1>1 DEF RequestLast
  <1>4. QED
    BY <1>1, <1>2, <1>3 DEF SessionOnly, Only

LEMMA OutBus ==
    ASSUME BusInv, cmd # NoCommand, NEW b, NEW n \in Nat, OutTransfer(b, n),
           b.holds \in {"sector", "cbw"},
           b.holds = "sector" => b.value \in Value,
           b.holds = "cbw" => b.cmd \in Command /\ b.tag \in 0 .. 1
    PROVE  /\ QueueTypes' /\ TransfersFirst' /\ RequestLast' /\ SessionOnly' /\ ClassInv'
           /\ buf' = b /\ UNCHANGED <<packet, ep0, state>>
  <1> USE DEF BusInv, EventsInv
  <1> DEFINE e == Event("out", n)
  <1>1. e \in EventMsg /\ e.type = "out" /\ rt_usbd_post_event(e)
    BY EventFacts DEF EventType, OutTransfer
  <1>2. /\ buf.holds # "nothing" /\ ep0 = "idle" /\ Session /\ Only({"in", "out", "sof"})
        /\ \A i \in 1 .. Len(usb_mq) : usb_mq[i].type # "setup"
    BY BusCommand
  <1>3. /\ out' = 0 /\ buf' = b /\ UNCHANGED <<packet, ep0, state, disk, class, in>>
    BY <1>2, BufferFacts DEF OutTransfer
  <1> HIDE DEF e
  <1>4. QueueTypes' /\ TransfersFirst' /\ RequestLast' /\ SessionOnly'
    BY <1>1, <1>2, <1>3, PostCases, PostTransfersFirst, PostRequestLast, PostSessionOnly
  <1>5. ClassInv'
    BY <1>3 DEF ClassInv, class, ClassTypes, BufferTypes, SendsWithin
  <1>6. QED
    BY <1>3, <1>4, <1>5

LEMMA InBus ==
    ASSUME BusInv, cmd # NoCommand, InTransfer
    PROVE  /\ QueueTypes' /\ TransfersFirst' /\ RequestLast' /\ SessionOnly' /\ ClassInv'
           /\ UNCHANGED <<packet, ep0, state, buf>>
  <1> USE DEF BusInv, EventsInv
  <1> DEFINE e == Event("in", 0)
  <1>1. e \in EventMsg /\ e.type = "in" /\ rt_usbd_post_event(e)
    BY EventFacts DEF EventType, InTransfer
  <1>2. /\ buf.holds # "nothing" /\ ep0 = "idle" /\ Session /\ Only({"in", "out", "sof"})
        /\ \A i \in 1 .. Len(usb_mq) : usb_mq[i].type # "setup"
    BY BusCommand
  <1>3. in' = "nothing" /\ UNCHANGED <<packet, ep0, state, disk, class, buf, out>>
    BY DEF InTransfer
  <1> HIDE DEF e
  <1>4. QueueTypes' /\ TransfersFirst' /\ RequestLast' /\ SessionOnly'
    BY <1>1, <1>2, <1>3, PostCases, PostTransfersFirst, PostRequestLast, PostSessionOnly
  <1>5. ClassInv'
    BY <1>3 DEF ClassInv, class, ClassTypes, BufferTypes, SendsWithin
  <1>6. QED
    BY <1>3, <1>4, <1>5

LEMMA TransferHost ==
    ASSUME BusInv, HostStep
    PROVE  BusInv'
  <1> USE DEF BusInv, EventsInv
  <1>1. cmd # NoCommand
    BY CommandFacts DEF HostStep, SendCbw, SendData, TakeSector, TakeReply, TakeStatus,
                        HostInv, Busy
  <1>2. /\ cmd \in Command /\ ep0 = "idle" /\ Session /\ buf.holds # "nothing"
        /\ state = "configured" /\ tag \in 0 .. 1 /\ sent \in Nat
    BY <1>1, BusCommand DEF HostTypes
  <1>3. cmd.op = "write" => /\ Len(cmd.data) \in Nat \ {0}
                            /\ \A i \in 1 .. Len(cmd.data) : cmd.data[i] \in Data
    BY <1>2, CommandFacts
  <1>4. /\ QueueTypes' /\ TransfersFirst' /\ RequestLast' /\ SessionOnly' /\ ClassInv'
        /\ ep0' = ep0 /\ state' = state /\ packet' = packet /\ buf'.holds # "nothing"
    <2>1. CASE SendCbw
      BY <1>1, <1>2, <2>1, OutBus, BufferFacts, EventFacts DEF SendCbw
    <2>2. CASE SendData
      <3>1. sent + 1 \in 1 .. Len(cmd.data)
        BY <1>2, <1>3, <2>2 DEF SendData, HostInv
      <3>2. cmd.data[sent + 1] \in Value
        BY <1>3, <2>2, <3>1 DEF SendData, Value
      <3>3. QED
        BY <1>1, <2>2, <3>2, OutBus, BufferFacts, EventFacts DEF SendData
    <2>3. CASE TakeSector \/ TakeReply \/ TakeStatus
      BY <1>1, <1>2, <2>3, InBus DEF TakeSector, TakeReply, TakeStatus
    <2>4. QED
      BY <2>1, <2>2, <2>3 DEF HostStep
  <1>5. ASSUME at' \in {"data", "status"}, cmd' = cmd, tag' = tag,
               sent' \in Nat, got' \in Seq(Value),
               at' = "data" /\ cmd.op = "write" => sent' < Len(cmd.data)
        PROVE  BusInv'
    <2>1. CoreTypes' /\ HostTypes'
      BY <1>2, <1>4, <1>5 DEF CoreTypes, HostTypes
    <2>2. HostInv' /\ Configured'
      BY <1>2, <1>4, <1>5 DEF HostInv, Configured, Session, Busy
    <2>3. PacketInv'
      BY <1>2, <1>4 DEF PacketInv
    <2>4. QED
      BY <1>4, <2>1, <2>2, <2>3
  <1>6. CASE SendCbw
    <2>1. sent = 0 /\ sent' = sent /\ got' = got
      BY <1>6 DEF SendCbw, HostInv, Busy
    <2>2. QED
      BY <1>2, <1>3, <1>5, <1>6, <2>1 DEF SendCbw, HostTypes
  <1>7. CASE SendData
    <2>1. sent' = sent + 1 /\ sent < Len(cmd.data) /\ got' = got
      BY <1>7 DEF SendData, HostInv
    <2>2. at' = (IF sent' = Len(cmd.data) THEN "status" ELSE "data") /\ cmd' = cmd /\ tag' = tag
          /\ cmd.op = "write"
      BY <1>7 DEF SendData
    <2>3. sent' \in Nat /\ (sent' # Len(cmd.data) => sent' < Len(cmd.data))
      BY <1>2, <1>3, <2>1, <2>2
    <2>4. QED
      BY <1>5, <2>1, <2>2, <2>3 DEF HostTypes
  <1>8. CASE TakeSector
    <2>1. got' \in Seq(Value)
      <3>1. buf.value \in Value /\ got \in Seq(Value)
        BY <1>8 DEF TakeSector, ClassInv, BufferTypes, HostTypes
      <3>2. QED
        BY <1>8, <3>1 DEF TakeSector
    <2>2. QED
      BY <1>2, <1>5, <1>8, <2>1 DEF TakeSector
  <1>9. CASE TakeReply
    BY <1>2, <1>5, <1>9 DEF TakeReply, HostTypes
  <1>10. CASE TakeStatus
    <2>1. /\ at' = "ready" /\ cmd' = NoCommand /\ sent' = 0 /\ got' = <<>> /\ tag' = tag
      BY <1>10 DEF TakeStatus
    <2>2. CoreTypes' /\ HostTypes'
      BY <1>4, <2>1 DEF CoreTypes, HostTypes
    <2>3. HostInv' /\ Configured' /\ PacketInv'
      BY <1>2, <1>4, <2>1 DEF HostInv, Configured, PacketInv, Session, Busy
    <2>4. QED
      BY <1>4, <2>2, <2>3
  <1>11. QED
    BY <1>6, <1>7, <1>8, <1>9, <1>10 DEF HostStep
-----------------------------------------------------------------------------
\* Whatever has been cut off, BusInv holds throughout.
LEMMA BusNext ==
    ASSUME BusInv, [Next]_msvars
    PROVE  BusInv'
  <1>1. CASE UsbThread
    BY <1>1, ThreadBus
  <1>2. CASE Sof
    BY <1>2, SofBus
  <1>3. CASE Unplug \/ BusReset
    BY <1>3, DropBus
  <1>4. ASSUME NEW r \in Ask, AskFor(r)
        PROVE  BusInv'
    BY <1>4, AskBus
  <1>5. CASE PlugIn
    BY <1>5, QuietBus DEF PlugIn, core
  <1>6. CASE TakeAnswer
    BY <1>6, QuietBus DEF TakeAnswer
  <1>7. ASSUME NEW c \in Command, SendCommand(c)
        PROVE  BusInv'
    BY <1>7, QuietBus DEF SendCommand, core
  <1>8. CASE HostStep
    BY <1>8, TransferHost
  <1>9. CASE UNCHANGED msvars
    <2>1. UNCHANGED <<usb_mq, lost, packet, ep0, state, disk, status, csw, block, count, size,
                      removed, buf, out, in, at, cmd, tag, sent, got>>
      BY <1>9 DEF msvars, core, class, host
    <2>2. EventsInv'
      BY <2>1 DEF BusInv, EventsInv, QueueTypes, TransfersFirst, RequestLast, SessionOnly, Only,
                  Last, Session
    <2>3. CoreTypes' /\ HostTypes' /\ ClassInv'
      BY <2>1 DEF BusInv, CoreTypes, HostTypes, ClassInv, ClassTypes, BufferTypes, SendsWithin
    <2>4. HostInv' /\ Configured' /\ PacketInv'
      BY <2>1 DEF BusInv, HostInv, Configured, PacketInv, Session, Busy
    <2>5. QED
      BY <2>2, <2>3, <2>4 DEF BusInv
  <1>10. QED
    BY <1>1, <1>2, <1>3, <1>4, <1>5, <1>6, <1>7, <1>8, <1>9 DEF Next

\* The step after which nothing is cut off any more: the class, which waits for a
\* command, is configured.  Host and class agree again.
LEMMA Recovered ==
    ASSUME BusInv, BusInv', cut, ~cut', Next
    PROVE  MassStorageInv' /\ UNCHANGED <<disk, cmd, got>>
  <1> USE DEF BusInv, EventsInv
  <1>1. /\ HandleSetup /\ UNCHANGED host /\ SetConfigRun /\ _class_run /\ in' = "nothing"
        /\ status = "CBW"
    BY DEF Next, UsbThread, HandleSof, HandleIn, HandleOut, HandleSetup, HandleReset,
           HandlePlugOut, Sof, PlugIn, Unplug, BusReset, AskFor, TakeAnswer, SendCommand,
           HostStep, SendCbw, SendData, TakeSector, TakeReply, TakeStatus, OutTransfer, InTransfer
  <1>2. Received("setup") /\ disk' = disk /\ status' = "CBW"
        /\ at' = at /\ cmd' = cmd /\ tag' = tag /\ sent' = sent /\ got' = got
    BY <1>1 DEF HandleSetup, class, host
  <1>3. ep0 = "asked" /\ Only({"sof"})'
    BY <1>2, TakeRequest
  <1>4. ~Busy /\ cmd = NoCommand /\ sent = 0 /\ got = <<>>
    BY <1>3 DEF PacketInv, HostInv
  <1>5. /\ state' = "configured" /\ ep0' = "status" /\ buf' = Junk /\ out' = SIZEOF_CBW
        /\ in' = "nothing" /\ buf'.holds = "junk"
    BY <1>1, BufferFacts DEF SetConfigRun, Answer, _class_run
  <1>6. ~Busy'
    BY <1>2, <1>4 DEF Busy
  <1>7. QueueInv'
    <2>1. \A i \in 1 .. Len(usb_mq') : usb_mq'[i].type = "sof"
      BY <1>3 DEF Only
    <2>2. OutLast' /\ InAlone'
      BY <2>1 DEF OutLast, InAlone, Only
    <2>3. QED
      BY <2>2 DEF QueueInv
  <1>8. IdleInv' /\ SetUp' /\ CommandInv'
    BY <1>2, <1>4, <1>5, <1>6 DEF IdleInv, SetUp, CommandInv, WaitsForCommand
  <1>9. Types' /\ PacketInv'
    BY DEF Types, ClassInv
  <1>10. QED
    BY <1>2, <1>7, <1>8, <1>9 DEF MassStorageInv

\* While nothing has been cut off, every step keeps what host and class agree on, and is
\* a step of the disk that the host sees.
LEMMA AgreedNext ==
    ASSUME MassStorageInv, [Next]_msvars, ~cut'
    PROVE  MassStorageInv' /\ [Promise!Next]_<<disk, cmd, got>>
  <1> USE DEF Promise!Next
  <1>1. CASE UsbThread
    BY <1>1, ThreadStep
  <1>2. CASE Sof
    BY <1>2, SofStep
  <1>3. CASE PlugIn
    BY <1>3, PlugInStep
  <1>4. CASE Unplug \/ BusReset
    <2>1. cmd = NoCommand
      BY <1>4 DEF Unplug, BusReset
    <2>2. QED
      BY <1>4, <2>1, DropStep
  <1>5. ASSUME NEW r \in Ask, AskFor(r)
        PROVE  MassStorageInv' /\ [Promise!Next]_<<disk, cmd, got>>
    BY <1>5, AskStep
  <1>6. CASE TakeAnswer
    BY <1>6, AnswerStep
  <1>7. ASSUME NEW c \in Command, SendCommand(c)
        PROVE  MassStorageInv' /\ [Promise!Next]_<<disk, cmd, got>>
    BY <1>7, CommandStep
  <1>8. CASE HostStep
    <2>1. CASE SendCbw
      BY <2>1, SendCbwStep
    <2>2. CASE SendData
      BY <2>2, SendDataStep
    <2>3. CASE TakeSector
      BY <2>3, TakeSectorStep
    <2>4. CASE TakeReply
      BY <2>4, TakeReplyStep
    <2>5. CASE TakeStatus
      BY <2>5, TakeStatusStep
    <2>6. QED
      BY <1>8, <2>1, <2>2, <2>3, <2>4, <2>5 DEF HostStep
  <1>9. CASE UNCHANGED msvars
    <2>1. UNCHANGED <<usb_mq, lost, packet, ep0, state, disk, status, csw, block, count, size,
                      removed, buf, out, in, at, cmd, tag, sent, got>>
      BY <1>9 DEF msvars, core, class, host
    <2>2. Types'
      BY <2>1 DEF MassStorageInv, Types, QueueTypes, CoreTypes, ClassTypes, HostTypes
    <2>3. QueueInv'
      BY <2>1 DEF MassStorageInv, QueueInv, TransfersFirst, RequestLast, OutLast, SessionOnly,
                  InAlone, Only, Last, Session, Busy
    <2>4. IdleInv' /\ SetUp' /\ PacketInv'
      BY <2>1 DEF MassStorageInv, IdleInv, SetUp, PacketInv, WaitsForCommand, Session, Busy
    <2>5. CommandInv'
      BY <2>1 DEF MassStorageInv, CommandInv, Busy, Agreed, InCbw, InRead, InWrite, InInquiry,
                  InStatus, Cbw, Fresh, Read, Written, Stored
    <2>6. QED
      BY <2>1, <2>2, <2>3, <2>4, <2>5 DEF MassStorageInv
  <1>10. QED
    BY <1>1, <1>2, <1>3, <1>4, <1>5, <1>6, <1>7, <1>8, <1>9 DEF Next

\* The inductive invariant.
LEMMA InvNext ==
    ASSUME Inv, [Next]_msvars
    PROVE  Inv' /\ (cut' \/ [Promise!Next]_<<disk, cmd, got>>)
  <1>1. BusInv'
    BY BusNext DEF Inv
  <1>2. CASE cut'
    BY <1>1, <1>2 DEF Inv
  <1>3. CASE ~cut /\ ~cut'
    BY <1>1, <1>3, AgreedNext DEF Inv
  <1>4. CASE cut /\ ~cut'
    <2>1. Next
      BY <1>4 DEF msvars
    <2>2. QED
      BY <1>1, <1>4, <2>1, Recovered DEF Inv
  <1>5. QED
    BY <1>2, <1>3, <1>4

LEMMA InvStart == Init => Inv
  <1> SUFFICES ASSUME Init
               PROVE  Inv
    OBVIOUS
  <1>1. MassStorageInv
    BY InvInit
  <1>2. status = "CBW" /\ buf.holds = "nothing" /\ at = "off" /\ ep0 = "idle"
    BY BufferFacts DEF Init, rt_usbd_core_init
  <1>3. BufferTypes /\ SendsWithin /\ Configured
    BY <1>2 DEF BufferTypes, SendsWithin, Configured
  <1>4. HostInv
    BY <1>1, <1>2 DEF HostInv, Session, Busy, MassStorageInv, IdleInv
  <1>5. QED
    BY <1>1, <1>3, <1>4 DEF Inv, BusInv, EventsInv, ClassInv, MassStorageInv, Types, QueueInv

\* It implies what the runs check.
LEMMA InvImplies ==
    ASSUME Inv
    PROVE  TypeOK /\ StatusIsTrue /\ ReadyForCommand /\ BufferInUse
  <1> USE DEF Inv, BusInv, EventsInv
  <1>1. TypeOK
    BY DEF TypeOK, QueueTypes, CoreTypes, ClassInv, ClassTypes, HostTypes
  <1>2. StatusIsTrue
    <2> SUFFICES ASSUME ~cut, Busy, in = "csw"
                 PROVE  /\ at = "status" /\ csw.tag = tag /\ csw.data_reside = 0
                        /\ csw.status = IF cmd.op = "test" THEN removed ELSE 0
      BY DEF StatusIsTrue, Busy
    <2>1. InStatus
      BY DEF MassStorageInv, CommandInv, Agreed, InCbw, InRead, InWrite, InInquiry
    <2>2. QED
      BY <2>1 DEF InStatus, Fresh
  <1>3. ReadyForCommand
    <2> SUFFICES ASSUME at = "ready", ep0 = "idle"
                 PROVE  /\ state = "configured" /\ buf # Null
                        /\ ~cut => status = "CBW" /\ out = SIZEOF_CBW
      BY DEF ReadyForCommand
    <2>1. state = "configured" /\ buf.holds # "nothing"
      BY DEF HostInv, Session
    <2>2. ~cut => status = "CBW" /\ out = SIZEOF_CBW
      BY DEF MassStorageInv, IdleInv, WaitsForCommand, Busy
    <2>3. QED
      BY <2>1, <2>2, BufferFacts
  <1>4. BufferInUse
    <2>1. buf.holds # "nothing" => buf # Null
      BY BufferFacts
    <2>2. QED
      BY <2>1 DEF BufferInUse, TransfersFirst, Transfer
  <1>5. QED
    BY <1>1, <1>2, <1>3, <1>4

LEMMA InvAlways == Spec => []Inv
  <1>1. Inv /\ [Next]_msvars => Inv'
    BY InvNext
  <1>2. QED
    BY InvStart, <1>1, PTL DEF Spec

\* The values of the class, the controller and the host, and that no count of sectors or
\* of bytes goes below zero, whatever is cut off (mstorage.c:258-270, 461-471).
THEOREM MassStorageTypeCorrect == Spec => []TypeOK
  <1>1. Inv => TypeOK
    BY InvImplies
  <1>2. QED
    BY InvAlways, <1>1, PTL

\* While no command has been cut off, the status block that the host takes is that of
\* its command, after all of the data, without a residue (mstorage.c:313-318, 400-405,
\* 461-471).
THEOREM MassStorageStatusIsTrue == Spec => []StatusIsTrue
  <1>1. Inv => StatusIsTrue
    BY InvImplies
  <1>2. QED
    BY InvAlways, <1>1, PTL

\* A host that has configured the device, and has no command under way, finds it
\* configured and with its buffer, however many events were lost and whatever was reset
\* or unplugged, in the middle of a command also (core.c:318-381, 1506-1512); and it finds
\* the class waiting for a command, unless one was cut off and the class was not waiting
\* for one when it was configured (mstorage.c:523-550).
THEOREM MassStorageReady == Spec => []ReadyForCommand
  <1>1. Inv => ReadyForCommand
    BY InvImplies
  <1>2. QED
    BY InvAlways, <1>1, PTL

\* No handler of an end point runs without the buffer, whatever is cut off
\* (core.c:1510-1512, mstorage.c:559-572).
THEOREM MassStorageBufferInUse == Spec => []BufferInUse
  <1>1. Inv => BufferInUse
    BY InvImplies
  <1>2. QED
    BY InvAlways, <1>1, PTL

\* While no command has been cut off, the class implements the disk: a read returns what
\* the last writes have stored, a write stores its sectors and no others, nothing else
\* changes a sector (mstorage.c:246-362, 387-479).
THEOREM MassStorageIsDisk == Spec => IsDisk
  <1>1. Init => Promise!Init
    BY DEF Init, Promise!Init, Value
  <1>2. Inv /\ [Next]_msvars => (cut' \/ [Promise!Next]_<<disk, cmd, got>>)
    BY InvNext
  <1>3. (cut' \/ [Promise!Next]_<<disk, cmd, got>>)
            => [cut' \/ Promise!Next]_<<disk, cmd, got>>
    OBVIOUS
  <1>4. QED
    BY InvAlways, <1>1, <1>2, <1>3, PTL DEF Spec, IsDisk
=============================================================================
