-------------------------------- MODULE SpiBus --------------------------------
(***************************************************************************)
(* The devices on an SPI bus (drivers/spi/spi_core.c): a recursive mutex,  *)
(* and the device whose configuration the controller was given last.       *)
(*                                                                         *)
(* A configuration is a value: its three fields are written one by one,    *)
(* without the mutex, by the call that makes the controller take them over *)
(* afterwards.  The controller (ops->configure and ops->xfer) is external; *)
(* either may fail: a configuration it refuses leaves the old one in       *)
(* effect, and a transfer that fails leaves the chip as it is.             *)
(* A thread that has taken the bus for a device uses that device only.     *)
(***************************************************************************)
EXTENDS Integers, FiniteSets, Sequences

CONSTANTS SpiThread, SpiDevice, Config

ASSUME SpiAssumption == SpiThread \cup SpiDevice \cup Config \subseteq Nat

NoDevice == -1
NoThread == -1
Zeroed   == -1          \* what rt_spi_bus_attach_device sets

VARIABLES
    bus_owner,      \* bus->owner
    mutex,          \* bus->lock: [holder |-> a thread, depth |-> how often it has it]
    config,         \* device->config
    controller,     \* the configuration in effect
    selected,       \* the devices whose chip select is asserted
    spi_at,         \* where each thread is
    spi_job,        \* of each thread: [dev, todo |-> the messages still to be sent]
    taken,          \* of each thread: the device it has taken the bus for
    refused,        \* history: devices whose configuration the controller refused last
    left            \* history: devices left selected by a transfer that failed

spiVars == <<bus_owner, mutex, config, controller, selected, spi_at, spi_job, taken, refused, left>>

NoJob == [dev |-> NoDevice, todo |-> <<>>]

SpiInit ==
    /\ bus_owner = NoDevice /\ mutex = [holder |-> NoThread, depth |-> 0]
    /\ config = [d \in SpiDevice |-> Zeroed] /\ controller = Zeroed
    /\ selected = {} /\ refused = {} /\ left = {}
    /\ spi_at = [t \in SpiThread |-> "idle"]
    /\ spi_job = [t \in SpiThread |-> NoJob]
    /\ taken = [t \in SpiThread |-> NoDevice]
-----------------------------------------------------------------------------
MayLock(t)  == mutex.holder \in {NoThread, t}
Unlock      == mutex' = IF mutex.depth = 1 THEN [holder |-> NoThread, depth |-> 0]
                                           ELSE [mutex EXCEPT !.depth = @ - 1]
Goes(t, to) == spi_at' = [spi_at EXCEPT ![t] = to]
Returns(t)  == Goes(t, "idle") /\ spi_job' = [spi_job EXCEPT ![t] = NoJob]

\* rt_spi_configure writes the configuration, then takes the mutex to pass it on if
\* the device owns the bus.  It does not look at what the controller answers.
rt_spi_configure(t, d, c) ==
    /\ spi_at[t] = "idle" /\ taken[t] \in {NoDevice, d}
    /\ config' = [config EXCEPT ![d] = c]
    /\ spi_job' = [spi_job EXCEPT ![t].dev = d]
    /\ Goes(t, "configure")
    /\ UNCHANGED <<bus_owner, mutex, controller, selected, taken, refused, left>>

\* Mutant: the bus is left as it is until its next owner comes.
ReconfigureLater(t) ==
    /\ spi_at[t] = "configure" /\ MayLock(t) /\ Returns(t)
    /\ UNCHANGED <<bus_owner, mutex, config, controller, selected, taken, refused, left>>

Reconfigure(t) ==
    LET d == spi_job[t].dev IN
    /\ spi_at[t] = "configure" /\ MayLock(t) /\ Returns(t)
    /\ \/ bus_owner # d /\ UNCHANGED <<controller, refused>>
       \/ bus_owner = d /\ controller' = config[d] /\ refused' = refused \ {d}
       \/ bus_owner = d /\ refused' = refused \cup {d} /\ UNCHANGED controller
    /\ UNCHANGED <<bus_owner, mutex, config, selected, taken, left>>
-----------------------------------------------------------------------------
\* The messages of the calls: whether each selects the chip, and lets it go.
Message(take, release) == [cs_take |-> take, cs_release |-> release]
Transfers ==
    { <<Message(TRUE, TRUE)>>,                              \* rt_spi_transfer
      <<Message(TRUE, FALSE), Message(FALSE, TRUE)>> }      \* rt_spi_send_then_send

\* A call takes the mutex; rt_spi_take_bus keeps it.
SpiCall(t, d, todo) ==
    /\ spi_at[t] = "idle" /\ taken[t] \in {NoDevice, d}
    /\ MayLock(t) /\ mutex' = [holder |-> t, depth |-> mutex.depth + 1]
    /\ spi_job' = [spi_job EXCEPT ![t] = [dev |-> d, todo |-> todo]]
    /\ Goes(t, "own")
    /\ UNCHANGED <<bus_owner, config, controller, selected, refused, left>>

rt_spi_transfer(t, d) ==
    /\ \E todo \in Transfers : SpiCall(t, d, todo)
    /\ UNCHANGED taken

rt_spi_take_bus(t, d) ==
    /\ taken[t] = NoDevice /\ taken' = [taken EXCEPT ![t] = d]
    /\ SpiCall(t, d, <<>>)

\* A device that does not own the bus has the controller configured.
Owned(t) == /\ IF spi_job[t].todo = <<>> THEN Returns(t)
                                         ELSE Goes(t, "send") /\ UNCHANGED spi_job
            /\ UNCHANGED <<mutex, taken>>

OwnBus(t) ==
    LET d == spi_job[t].dev IN
    /\ spi_at[t] = "own"
    /\ \/ bus_owner = d /\ Owned(t) /\ UNCHANGED <<bus_owner, controller, refused>>
       \/ /\ bus_owner # d /\ Owned(t)
          /\ bus_owner' = d /\ controller' = config[d] /\ refused' = refused \ {d}
    /\ UNCHANGED <<config, selected, left>>

\* If that fails the owner stays, and the call ends.
OwnBusFails(t) ==
    /\ spi_at[t] = "own" /\ bus_owner # spi_job[t].dev
    /\ Unlock /\ Returns(t)
    /\ taken' = [taken EXCEPT ![t] = IF spi_job[t].todo = <<>> THEN NoDevice ELSE @]
    /\ UNCHANGED <<bus_owner, config, controller, selected, refused, left>>

\* ops->xfer of the next message: the chip is selected, then the data go.
XferBegin(t) ==
    LET job == spi_job[t] IN
    /\ spi_at[t] = "send" /\ Goes(t, "xfer")
    /\ selected' = IF Head(job.todo).cs_take THEN selected \cup {job.dev} ELSE selected
    /\ UNCHANGED <<bus_owner, mutex, config, controller, spi_job, taken, refused, left>>

\* It ends, and so does the call after its last message.
XferEnd(t) ==
    LET job == spi_job[t] IN
    /\ spi_at[t] = "xfer"
    /\ \/ ~Head(job.todo).cs_release /\ UNCHANGED <<selected, left>>
       \/ /\ Head(job.todo).cs_release
          /\ selected' = selected \ {job.dev} /\ left' = left \ {job.dev}
    /\ IF Len(job.todo) = 1
         THEN Unlock /\ Returns(t)
         ELSE /\ spi_job' = [spi_job EXCEPT ![t].todo = Tail(@)]
              /\ Goes(t, "send") /\ UNCHANGED mutex
    /\ UNCHANGED <<bus_owner, config, controller, taken, refused>>

\* It fails: the call ends there, and nobody sends the message that would let the
\* chip go.
XferFails(t) ==
    /\ spi_at[t] = "xfer"
    /\ left' = left \cup {spi_job[t].dev}
    /\ Unlock /\ Returns(t)
    /\ UNCHANGED <<bus_owner, config, controller, selected, taken, refused>>

\* rt_spi_take and rt_spi_release, between rt_spi_take_bus and rt_spi_release_bus.
rt_spi_take(t) ==
    /\ spi_at[t] = "idle" /\ taken[t] # NoDevice
    /\ selected' = selected \cup {taken[t]}
    /\ UNCHANGED <<bus_owner, mutex, config, controller, spi_at, spi_job, taken,
                   refused, left>>

rt_spi_release(t) ==
    /\ spi_at[t] = "idle" /\ taken[t] # NoDevice
    /\ selected' = selected \ {taken[t]} /\ left' = left \ {taken[t]}
    /\ UNCHANGED <<bus_owner, mutex, config, controller, spi_at, spi_job, taken, refused>>

\* A caller lets its chip go before the bus, but for one a failure has left selected.
rt_spi_release_bus(t) ==
    /\ spi_at[t] = "idle" /\ taken[t] \notin {NoDevice} \cup (selected \ left)
    /\ Unlock /\ taken' = [taken EXCEPT ![t] = NoDevice]
    /\ UNCHANGED <<bus_owner, config, controller, selected, spi_at, spi_job, refused, left>>
-----------------------------------------------------------------------------
SpiNext ==
    \E t \in SpiThread :
       \/ \E d \in SpiDevice : \/ \E c \in Config : rt_spi_configure(t, d, c)
                               \/ rt_spi_transfer(t, d) \/ rt_spi_take_bus(t, d)
       \/ Reconfigure(t) \/ OwnBus(t) \/ OwnBusFails(t)
       \/ XferBegin(t) \/ XferEnd(t) \/ XferFails(t)
       \/ rt_spi_take(t) \/ rt_spi_release(t) \/ rt_spi_release_bus(t)

SpiSpec == SpiInit /\ [][SpiNext]_spiVars
-----------------------------------------------------------------------------
SpiTypeOK ==
    /\ bus_owner \in SpiDevice \cup {NoDevice}
    /\ mutex.depth \in 0 .. 2 /\ (mutex.depth = 0 <=> mutex.holder = NoThread)
    /\ controller \in Config \cup {Zeroed} /\ selected \subseteq SpiDevice

\* A configuration that has been written and is still to be passed on.
Changing(d) == \E t \in SpiThread : spi_at[t] = "configure" /\ spi_job[t].dev = d

\* While data go to a device the controller has its configuration and its chip alone
\* is selected, whoever configured it, owned the bus or took it for several transfers
\* before, and whichever call of the controller failed.  But a configuration may just
\* be changing, one that the controller refused is not tried again as long as the
\* device owns the bus, and a chip stays selected after a transfer that failed.
BusIsSetUp ==
    \A t \in SpiThread : spi_at[t] = "xfer" =>
        LET d == spi_job[t].dev IN
        /\ mutex.holder = t /\ bus_owner = d
        /\ controller = config[d] \/ Changing(d) \/ d \in refused
        /\ d \in selected /\ selected \ {d} \subseteq left
===============================================================================
