------------------------------- MODULE UsbHost -------------------------------
(***************************************************************************)
(* The USB host stack, drivers/usb/usbhost/core/: one thread takes the     *)
(* messages of the host controller, looks at every port of the root hub,   *)
(* and enumerates what has been plugged in, while the ports go on changing *)
(* under it.                                                               *)
(*                                                                         *)
(* Ports, devices and the controller are external: a port that changes     *)
(* says so until the flag is cleared, a device answers at the address it   *)
(* has, and any request may fail.  The two flags of a port (connection and *)
(* enable) are one.  A hub that is plugged in has a driver, any other      *)
(* device has none.  Its own ports are never enumerated: for them          *)
(* rt_usb_hub_get_port_status returns an error whenever it succeeds, as it *)
(* compares the length with the time-out (hub.c:129).                      *)
(***************************************************************************)
EXTENDS Integers, SequencesExt, FiniteSetsExt

CONSTANTS
    NumPorts,       \* of the root hub, USB_HUB_PORT_NUM at most
    MaxInst,        \* USB_MAX_DEVICE
    MqSize,         \* the messages usb_mq has room for
    Times,          \* the looks at a port that make a contact a firm one
    Device, LowSpeed, Hub,
    Empty

ASSUME UsbHostAssumption ==
    /\ NumPorts \in Nat \ {0} /\ MaxInst \in Nat /\ MaxInst >= NumPorts
    /\ MqSize \in Nat \ {0} /\ Times \in Nat \ {0}
    /\ LowSpeed \subseteq Device /\ Hub \subseteq Device /\ Empty \notin Device

Port == 1 .. NumPorts
Inst == 1 .. MaxInst    \* uinst[], by index; NoInst is RT_NULL
NoInst   == 0
NoPort   == 0
Off      == -1          \* no address: a port that was not reset since it changed
ChangeMsg == 0          \* USB_MSG_CONNECT_CHANGE; a callback is the instance it is for
FreedMsg  == -1         \* a callback whose pipe has been freed

VARIABLES
    plugged, changed, answers,  \* of each port: the device, the flag, its address
    uinst,          \* the table of instances; Unused is UINST_STATUS_IDLE
    child,          \* of each port
    pipe_in,        \* of each instance: none, idle, or armed
    usbh_mq,
    usbh,           \* where the thread is: the port, its status as read, how often it
                    \* has looked, the request of rt_usb_attatch_instance
    \* History: no code reads what follows.
    owner,          \* the port an instance was allocated for
    astray,        \* ports whose device the code has lost track of
    lost            \* a change was not posted, the queue being full

ports    == <<plugged, changed, answers>>
hosted   == <<uinst, child, pipe_in>>
usbhVars == <<ports, hosted, usbh_mq, usbh, owner, astray, lost>>

Unused == [address |-> Off, low |-> FALSE]
Waits  == [at |-> "recv", port |-> NoPort, low |-> FALSE, swapped |-> FALSE, tries |-> 0]

UsbHostInit ==
    /\ plugged = [p \in Port |-> Empty] /\ changed = [p \in Port |-> FALSE]
    /\ answers = [p \in Port |-> Off]
    /\ uinst = [i \in Inst |-> Unused] /\ child = [p \in Port |-> NoInst]
    /\ pipe_in = [i \in Inst |-> "none"]
    /\ usbh_mq = <<>> /\ usbh = Waits
    /\ owner = [i \in Inst |-> NoPort] /\ astray = {} /\ lost = FALSE
-----------------------------------------------------------------------------
\* rt_usb_post_event: what does not fit is dropped.
PostChange ==
    IF Len(usbh_mq) < MqSize THEN usbh_mq' = Append(usbh_mq, ChangeMsg) /\ UNCHANGED lost
                             ELSE lost' = TRUE /\ UNCHANGED usbh_mq

\* A port comes to have a device, none, or a disabled one.  It interrupts when its
\* flag is set, and may do so when it was set before.
PortChanges(p, d) ==
    /\ plugged' = [plugged EXCEPT ![p] = d] /\ answers' = [answers EXCEPT ![p] = Off]
    /\ changed' = [changed EXCEPT ![p] = TRUE]
    /\ PostChange \/ (changed[p] /\ UNCHANGED <<usbh_mq, lost>>)
    /\ usbh' = [usbh EXCEPT !.swapped = @ \/ (usbh.at = "clear" /\ usbh.port = p)]
    /\ UNCHANGED <<hosted, owner, astray>>

PlugIn(p, d) ==
    plugged[p] = Empty /\ (\A q \in Port : plugged[q] # d) /\ PortChanges(p, d)
PlugOut(p)   == plugged[p] # Empty /\ PortChanges(p, Empty)
PortError(p) == answers[p] # Off /\ PortChanges(p, plugged[p])

\* The end of a transfer on the interrupt end point of a hub.
HubInterrupt(i) ==
    /\ pipe_in[i] = "armed" /\ pipe_in' = [pipe_in EXCEPT ![i] = "idle"]
    /\ usbh_mq' = IF Len(usbh_mq) < MqSize THEN Append(usbh_mq, i) ELSE usbh_mq
    /\ UNCHANGED <<ports, uinst, child, usbh, owner, astray, lost>>

\* Memory that was freed, or never set, is used.  Nothing is known until the board is
\* reset, and its devices are plugged in anew.
HostRestart ==
    /\ plugged' = [p \in Port |-> Empty] /\ changed' = [p \in Port |-> FALSE]
    /\ answers' = [p \in Port |-> Off]
    /\ uinst' = [i \in Inst |-> Unused] /\ child' = [p \in Port |-> NoInst]
    /\ pipe_in' = [i \in Inst |-> "none"]
    /\ usbh_mq' = <<>> /\ usbh' = Waits
    /\ owner' = [i \in Inst |-> NoPort] /\ astray' = {} /\ lost' = FALSE
-----------------------------------------------------------------------------
StepTo(to) == usbh' = [usbh EXCEPT !.at = to]

\* Mutant: a port that is done with ends the loop over the ports.
NextPortNone(p) == usbh' = IF p # NoPort THEN Waits
                           ELSE [Waits EXCEPT !.at = "status", !.port = 1]

NextPort(p) == usbh' = IF p = NumPorts THEN Waits
                       ELSE [Waits EXCEPT !.at = "status", !.port = p + 1]

\* rt_usb_hub_thread_entry
ReceiveChange ==
    /\ Head(usbh_mq) = ChangeMsg
    /\ NextPort(NoPort) /\ lost' = FALSE
    /\ UNCHANGED hosted

\* rt_usb_hub_irq finds nothing at its ports, and asks for the next interrupt,
\* unless this one was an error.
rt_usb_hub_irq ==
    /\ Head(usbh_mq) \in Inst
    /\ \/ pipe_in' = [pipe_in EXCEPT ![Head(usbh_mq)] = "armed"]
       \/ UNCHANGED pipe_in
    /\ UNCHANGED <<uinst, child, usbh, lost>>

ReceiveFreed == Head(usbh_mq) = FreedMsg /\ HostRestart

Receive ==
    /\ usbh.at = "recv" /\ usbh_mq # <<>>
    /\ \/ /\ ReceiveChange \/ rt_usb_hub_irq
          /\ usbh_mq' = Tail(usbh_mq)
          /\ UNCHANGED <<ports, owner, astray>>
       \/ ReceiveFreed
-----------------------------------------------------------------------------
\* rt_usb_hub_port_change, for each port.
GetStatus(p) ==
    /\ usbh.at = "status"
    /\ \/ ~changed[p] /\ NextPort(p)
       \/ changed[p] /\ usbh' = [usbh EXCEPT !.at = "clear", !.low = plugged[p] \in LowSpeed]
    /\ UNCHANGED <<ports, hosted, usbh_mq, owner, astray, lost>>

\* A driver that is stopped frees its pipe, whatever is in the queue.
rt_usb_hub_stop(i) ==
    /\ pipe_in' = [pipe_in EXCEPT ![i] = "none"]
    /\ usbh_mq' = [k \in DOMAIN usbh_mq |-> IF usbh_mq[k] = i THEN FreedMsg ELSE usbh_mq[k]]

\* The driver of a hub, if it has one, is stopped.
rt_usb_detach_instance(i) ==
    /\ uinst' = [uinst EXCEPT ![i] = Unused] /\ rt_usb_hub_stop(i)
    /\ astray' = IF owner[i] = usbh.port THEN astray ELSE astray \cup {owner[i]}
    /\ owner' = [owner EXCEPT ![i] = NoPort]

\* The descriptor that says how many drivers an instance has has been freed two lines
\* before it is read, or was never there.
DetachUnsure == HostRestart

\* A child that is not idle is detached, be it another port's by now.  Without a child
\* the status of a null pointer is read, which may say anything: nothing is detached.
ClearChange(p) ==
    LET idle == IF child[p] = NoInst THEN TRUE ELSE uinst[child[p]] = Unused
    IN  /\ usbh.at = "clear"
        /\ \/ /\ IF idle THEN UNCHANGED <<uinst, pipe_in, usbh_mq, owner, astray>>
                        ELSE rt_usb_detach_instance(child[p])
              /\ StepTo("debounce") /\ changed' = [changed EXCEPT ![p] = FALSE]
              /\ UNCHANGED <<plugged, answers, child, lost>>
           \/ ~idle /\ DetachUnsure

\* rt_usb_hub_port_debounce
Debounce(p) ==
    /\ usbh.at = "debounce"
    /\ \/ plugged[p] = Empty /\ NextPort(p)
       \/ plugged[p] # Empty /\ usbh.tries + 1 < Times
          /\ usbh' = [usbh EXCEPT !.tries = @ + 1]
       \/ plugged[p] # Empty /\ usbh.tries + 1 = Times /\ StepTo("alloc")
    /\ UNCHANGED <<ports, hosted, usbh_mq, owner, astray, lost>>

\* What is there when the port is reset answers at address 0.
rt_usb_hub_reset_port(p) ==
    answers' = [answers EXCEPT ![p] = IF plugged[p] = Empty THEN Off ELSE 0]

\* The first instance that is idle, with the speed as read at first.  There are as
\* many instances as ports.
Allocate(p) ==
    LET i == Min({k \in Inst : uinst[k] = Unused})
    IN  /\ usbh.at = "alloc" /\ usbh' = [Waits EXCEPT !.at = "device head", !.port = p]
        /\ uinst' = [uinst EXCEPT ![i] = [address |-> 0, low |-> usbh.low]]
        /\ child' = [child EXCEPT ![p] = i] /\ owner' = [owner EXCEPT ![i] = p]
        /\ rt_usb_hub_reset_port(p)
        /\ astray' = IF usbh.swapped THEN astray \cup {p} ELSE astray \ {p}
        /\ UNCHANGED <<plugged, changed, pipe_in, usbh_mq, lost>>
-----------------------------------------------------------------------------
\* rt_usb_attatch_instance and rt_usb_hub_run, request by request: those for the
\* descriptors, and the one that sets the configuration after them, go together.
Requests == <<"device head", "address", "descriptors", "hub descriptors">>
After(request) == Requests[1 + SelectInSeq(Requests, LAMBDA r : r = request)]

\* The ports whose devices take a request for this one.
Answering(p) == {q \in Port : answers[q] = uinst[child[p]].address}

Enumerating == usbh.at \in ToSet(Requests)

RequestFails(p) ==
    /\ Enumerating /\ NextPort(p)
    /\ astray' = IF usbh.at = "hub descriptors" THEN astray ELSE astray \cup {p}
    /\ UNCHANGED <<ports, hosted, usbh_mq, owner, lost>>

SetAddress(p) ==
    IF usbh.at # "address" THEN UNCHANGED <<answers, uinst>>
    ELSE /\ answers' = [q \in Port |-> IF q \in Answering(p) THEN child[p] ELSE answers[q]]
         /\ uinst' = [uinst EXCEPT ![child[p]].address = child[p]]

\* The driver of a hub asks for its descriptors, and then for an interrupt.
rt_usb_hub_run(p) ==
    /\ usbh.at = "hub descriptors" /\ NextPort(p)
    /\ pipe_in' = [pipe_in EXCEPT ![child[p]] = "armed"]

RequestDone(p) ==
    /\ Enumerating /\ Answering(p) # {}
    /\ SetAddress(p)
    /\ \/ usbh.at \in {"device head", "address"} /\ StepTo(After(usbh.at)) /\ UNCHANGED pipe_in
       \/ /\ usbh.at = "descriptors" /\ UNCHANGED pipe_in
          /\ \E q \in Answering(p) :
                IF plugged[q] \in Hub THEN StepTo("hub descriptors") ELSE NextPort(p)
       \/ rt_usb_hub_run(p)
    /\ UNCHANGED <<plugged, changed, child, usbh_mq, owner, astray, lost>>

PortStep(p) == GetStatus(p) \/ ClearChange(p) \/ Debounce(p) \/ Allocate(p)
               \/ RequestFails(p) \/ RequestDone(p)

UsbHostNext ==
    \/ \E p \in Port : (\E d \in Device : PlugIn(p, d)) \/ PlugOut(p) \/ PortError(p)
    \/ \E i \in Inst : HubInterrupt(i)
    \/ Receive \/ (usbh.port # NoPort /\ PortStep(usbh.port))

UsbHostSpec == UsbHostInit /\ [][UsbHostNext]_usbhVars
-----------------------------------------------------------------------------
UsbHostTypeOK ==
    /\ plugged \in [Port -> Device \cup {Empty}] /\ changed \in [Port -> BOOLEAN]
    /\ answers \in [Port -> {Off, 0} \cup Inst]
    /\ uinst \in [Inst -> [address : {Off, 0} \cup Inst, low : BOOLEAN]]
    /\ child \in [Port -> Inst \cup {NoInst}]
    /\ pipe_in \in [Inst -> {"none", "idle", "armed"}]
    /\ usbh_mq \in SeqOf({ChangeMsg, FreedMsg} \cup Inst, MqSize)
    /\ usbh.at = "recv" <=> usbh.port = NoPort
    /\ \A i \in Inst : uinst[i] = Unused <=> owner[i] = NoPort
    /\ lost \in BOOLEAN /\ astray \subseteq Port

\* When the thread waits for messages and there are none, every change of a port
\* has been seen, unless its message was dropped; a port without a device holds no
\* instance, and one with a device holds an instance of its own, at the address
\* the device answers at, with its speed: whatever happened at the ports while they
\* were looked at.  The code does not promise it for a device that failed a
\* request, that came between the reading of the status and the clearing of the flag
\* (hub.c:311-320), or whose instance was detached for another port that had it
\* before (hub.c:332).
PortsInOrder ==
    usbh.at = "recv" /\ usbh_mq = <<>> =>
        \A p \in Port :
           /\ changed[p] => lost
           /\ ~changed[p] /\ p \notin astray =>
                 IF plugged[p] = Empty THEN \A i \in Inst : owner[i] # p
                 ELSE /\ owner[child[p]] = p /\ answers[p] = child[p]
                      /\ uinst[child[p]] = [address |-> child[p], low |-> plugged[p] \in LowSpeed]
=============================================================================
