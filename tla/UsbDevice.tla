------------------------------- MODULE UsbDevice ------------------------------
(***************************************************************************)
(* The core of the USB device stack, drivers/usb/usbdevice/core: the queue *)
(* of events that the controller driver posts, the thread that takes them, *)
(* and the control requests on end point 0.  A class (MassStorage) extends *)
(* this module and says what its callbacks do.                             *)
(*                                                                         *)
(* The controller driver is not in the repository: struct udcd_ops and the *)
(* events of usb_device.h are all the code knows of it.  The device has    *)
(* one configuration, as rt_usb_device_init makes it, and descriptors are  *)
(* left out.                                                               *)
(***************************************************************************)
EXTENDS Integers, Sequences

CONSTANT MqMax              \* the messages usb_mq has room for

ASSUME MqAssumption == MqMax \in Nat \ {0}

VARIABLES
    usb_mq,                 \* events that wait for the thread
    lost,                   \* history: one, not a start of frame, found it full
    packet,                 \* the set-up packet, in the memory of the driver
    ep0,                    \* the control pipe: idle, asked, or the answer
    state                   \* device->state

core == <<usb_mq, lost, packet, ep0, state>>

NumConfigurations == 1

Setup(request, value) == [request |-> request, value |-> value]
NoPacket == Setup("none", 0)

\* Requests whose answer depends on nothing and that change nothing.
Replied == {"GET_STATUS", "GET_DESCRIPTOR", "GET_CONFIGURATION", "GET_MAX_LUN"}
Refused == {"DEVICEQUALIFIER", "SET_DESCRIPTOR", "UNKNOWN"}
Ignored == {"SET_FEATURE", "VENDOR", "MASS_STORAGE_RESET"}

Request ==
    {Setup(r, 0) : r \in Replied \cup Refused \cup Ignored
                         \cup {"SET_ADDRESS", "GET_INTERFACE"}}
    \cup {Setup("SET_CONFIGURATION", v) : v \in 0 .. NumConfigurations + 1}

Event(type, size) == [type |-> type, size |-> size]

rt_usbd_core_init ==
    /\ usb_mq = <<>> /\ lost = FALSE
    /\ packet = NoPacket /\ ep0 = "idle"
    /\ state = "notattached"
-----------------------------------------------------------------------------
\* rt_mq_send fails when the queue is full, and drivers call it from an
\* interrupt handler that has nobody to tell.
rt_usbd_post_event(event) ==
    IF Len(usb_mq) < MqMax
    THEN usb_mq' = Append(usb_mq, event) /\ UNCHANGED lost
    ELSE lost' = (lost \/ event.type # "sof") /\ UNCHANGED usb_mq

\* rt_mq_recv: the thread has taken an event of this type.
Received(type) ==
    /\ usb_mq # <<>> /\ Head(usb_mq).type = type
    /\ usb_mq' = Tail(usb_mq)
    /\ UNCHANGED <<lost, packet>>

Answer(a) == ep0' = a
-----------------------------------------------------------------------------
\* Control requests.  The message holds a pointer to the packet: what counts is
\* the packet when the thread comes to it.
_get_interface ==
    /\ packet.request = "GET_INTERFACE"
    /\ Answer(IF state = "configured" THEN "data" ELSE "stall")
    /\ UNCHANGED state

_set_address ==
    /\ packet.request = "SET_ADDRESS"
    /\ state' = "address"
    /\ Answer("status")

\* The two ways _set_config returns without a look at the classes.
SetConfigRefused ==
    /\ packet.request = "SET_CONFIGURATION" /\ packet.value > NumConfigurations
    /\ Answer("stall")
    /\ UNCHANGED state

SetConfigNone ==
    /\ packet.request = "SET_CONFIGURATION" /\ packet.value = 0
    /\ state' = "address"
    /\ Answer("status")

\* The third runs the classes, which the class adds.
SetConfigRun ==
    /\ packet.request = "SET_CONFIGURATION"
    /\ packet.value \in 1 .. NumConfigurations
    /\ state' = "configured"
    /\ Answer("status")

\* _standard_request and _class_request, without the requests above.  Those of
\* Ignored get no answer at all: the branches neither send nor stall.
OtherRequest ==
    /\ packet.request \in Replied \cup Refused \cup Ignored
    /\ ep0' = CASE packet.request \in Replied -> "data"
                [] packet.request \in Refused -> "stall"
                [] packet.request \in Ignored -> ep0
    /\ UNCHANGED state

\* Set-up packets that do not reach a class.
_setup_request ==
    \/ _get_interface \/ _set_address
    \/ SetConfigRefused \/ SetConfigNone
    \/ OtherRequest
=============================================================================
