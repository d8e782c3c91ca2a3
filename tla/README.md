# WMDP in TLA+

WMDP is a platform for small ARM microcontrollers: a foreground/background
scheduler, a device framework, buffers and queues shared by threads and interrupt
handlers, bus and device drivers, a USB stack and two shells.  This directory
models its core in TLA+, checks the models with TLC on small instances, and proves
the central facts about them with TLAPS for every value of the constants.

Run everything from this directory:

    tlasany MCQueues.tla                              parse a module
    tlc -workers 2 -config queues.cfg MCQueues        check a run
    tlapm RingBufProof.tla                            check the proofs of a module

`PROJECT.json` lists the components, the runs with their properties, the mutants
that show each property can fail, the source lines each definition stands for, the
hazards of the code with the properties that watch them, and the theorems.

## 1. The system

| component | state | operations | what is hard |
|---|---|---|---|
| ring buffer, `common/ringbuf.c` | two indices with a mirror bit, the pool | put, get, forced put, by block and by character | blocks that wrap; the forced put |
| scheduler, `main/os.c`, `main/os_time.c` | `jiffies`, `Pit_Flags`, six loop counters | the SysTick handler, the endless background loop, `mdelay` | the tick interrupts the read and write of a bit field; wrap of the clock |
| data queue, `common/dataqueue.c` | 16-bit indices, low-water flag, two lists of suspended threads | push, pop, peek, reset | wake-ups, timers, an interrupt handler as a user, wrap of the indices |
| serial device, `drivers/serial/serial.c`, `usart.c` | a ring with two writers of one index | open, close, read, write, the receive interrupt | no lock at all between read and interrupt |
| pipe, `common/pipe.c` | a ring buffer, two lists of suspended threads | read, write, blocking or not, forced or not | which thread is woken, and by whom |
| portal, `common/portal.c` (not modelled) | two pipes and their callbacks | init, open, close, event forwarding | callbacks that outlive the portal |
| completion, `common/completion.c` | a flag, one waiter | init, wait, done | done between a time-out and the waiter's return |
| device framework and console, `common/device.c`, `console.c` (not modelled) | the device list, flags of each device | register, init, open, close | partial failure |
| X/Y modem, `common/xyzModem.c` | block number, retry counters | open, read, terminate | lost and repeated blocks |
| alarms, `drivers/rtc/alarm.c` | the alarm list, the armed one | create, start, stop, delete, modify, the service thread | which alarm the single hardware alarm is set to, around midnight |
| MMC/SD/SDIO, `drivers/sdio/` | hosts, cards, functions, the interrupt thread | detection, requests, attach and detach of interrupts | one semaphore for all answers, one interrupt for all functions, a thread deleted while it waits for or holds a lock |
| SPI, `drivers/spi/` | the owner of a bus, the configuration of each device | configure, transfer, take and release the bus and the chip | failure in the middle of a message; whose configuration is in effect |
| I2C, MTD (not modelled) | the lock of a bus | transfers | none: a failure ends in a return code |
| USB device, `drivers/usb/usbdevice/` | state of the device, event queue, the statics of a class | control requests, resets, plugging, storage commands, virtual serial port | lost events, resets in the middle of a command, one buffer for both directions |
| USB host, `drivers/usb/usbhost/` | instances, the child of each port, the message queue | port changes, enumeration, control transfers, hub interrupts | ports that change while they are looked at; pointers to instances that have been freed |
| finsh, `components/finsh/` | the tree, the code, the stack of which one slot is cleaned, variables | parse, compile, run a line | widths of operands; addresses and values in one tree |
| command shell, `components/shell/` | the line, a ring of earlier ones, tasks that are repeated | keys, history, pause, kill, traps, locks | a length that is measured once for several keys; lines that wrap in the ring; lists that change in a loop over them |

Threads, timers and semaphores belong to a kernel that is not in the repository
(`rtthread.h`).  The models take from it only what the code relies on: a suspended
thread does not run, a resumed one may run at any later moment, a section with
interrupts disabled is not interrupted.  The libraries of the chip vendor, the
build scripts and the PDF documents are out of scope.

## 2. Modules

| module | models | composed of |
|---|---|---|
| `ByteFifo` | what a ring buffer promises: a bounded first-in first-out store | |
| `RingBuf` | `common/ringbuf.c` | implements `ByteFifo` |
| `RingBufProof` | proofs about `RingBuf` | |
| `OsTime` | `main/os_time.c` | |
| `OsSched` | `main/os.c`, the loop of `main/main.c` | extends `OsTime` |
| `OsSchedProof` | proofs about `OsSched` (flags, counters, periods, delays) and `Alarm` | extends `MCClock` |
| `DataQueue` | `common/dataqueue.c` | |
| `SerialRx` | reception in `serial.c` and `usart.c` | |
| `Pipe` | `common/pipe.c` | extends `RingBuf` |
| `BlockDisk` | what a mass storage device promises its host: sectors | |
| `UsbDevice` | the core of the USB device stack, `usbdevice/core/core.c` | |
| `MassStorage` | the class `usbdevice/class/mstorage.c`, its host, cable and controller | extends `UsbDevice`, implements `BlockDisk` |
| `MassStorageProof` | proofs about `MassStorage` | |
| `Vcom` | sending in the class `usbdevice/class/cdc_vcom.c`, with `common/completion.c` | extends `UsbDevice` |
| `VcomProof` | proofs about `Vcom` | extends `MCRingUser`, `RingBufProof` |
| `Alarm` | `drivers/rtc/alarm.c` | |
| `XyzModem` | the receiver of `common/xyzModem.c`, a sender and a line | |
| `SerialProof` | proofs about `SerialRx` and `XyzModem` | |
| `Sdio` | the interrupt and the requests of `drivers/sdio/sdio.c` and `mmcsd_core.c` | |
| `SpiBus` | `drivers/spi/spi_core.c` | |
| `FinshVm` | the compiler and the stack machine of `components/finsh/` | |
| `ShellLine` | the line editor and the history of `components/shell/shell.c` | |
| `CmdQueue` | `components/shell/command.c`, and who calls it in `shell.c` | |
| `ShellProof` | proofs about `ShellLine` and `CmdQueue` | |
| `QueuesProof` | proofs about `DataQueue` and `Pipe` | extends `MCQueues`, `RingBufProof`, `ShellProof` |
| `UsbHost` | the hub thread and enumeration, `usbhost/core/hub.c` and `core.c` | |
| `BusProof` | proofs about `Sdio`, `SpiBus` and `UsbHost` | extends `MCDrivers` |
| `MC*` | values of the constants for TLC | |
| `MCRingUser`, `MCClock`, `MCSerial`, `MCDrivers`, `MCQueues` | the runs of two to four modules that do not interact | extend one of the above each |

Names follow the source: `ringbuf_put`, `OS_FG_Update`, `rt_data_queue_pop`,
`serial_read`, `rt_pipe_write`.  Where a function has more than one atomic step its
actions are named for the step (`PushResumed`, `GetcAdvance`).  `pipe.c` calls the
ring buffer by the kernel's names (`rt_ringbuffer_put`); the code is that of
`common/ringbuf.c`.

Each module that has a mutant defines it just above the definition it alters, with
a comment that starts with `Mutant`.  They play no part in the specifications.

### RingBuf

One step is one call: the users call the ring buffer with interrupts disabled.  The
indices and mirror bits are the fields of `struct ringbuf`; `buf` is the pool, whose
first content is arbitrary; `out` and `count` are what a call hands back.  The copy
of a block, one `memcpy` or two, is the update of the slots it covers.

`Spec` makes every call except those of `ringbuf_put_force` whose block neither fits
nor finds the buffer full; `SpecAll` makes those too.  The distinction is the code's
own: it moves the read index only if the buffer was full before the call.

### OsSched and OsTime

The interrupt (`OS_FG_Update`) may run between any two steps of the background loop.
Clearing and setting a bit of `Pit_Flags` takes two steps, the load of the byte and
its store, as the compiler has to emit for a bit field; `held` is the other bit of
the loaded byte.  A table of a period is one step: which tasks run is `Slots`, from
the counter in strides of the period.  Tasks may call `mdelay`, modelled with the
unsigned arithmetic of `time_left`, at a width of `TimeMod`.  Histories (`fg_age`,
`fresh`, `overrun`, `waited`, ...) record what the properties speak of and are read
by no action.

### DataQueue

A section with interrupts disabled is one step; between them a thread waits, has been
resumed, or resets.  Timers, the interrupt handler and every other thread may come in
between.  `put_index` and `get_index` are 16-bit and their difference is taken as an
`int`.  `masked` says who runs on with interrupts left disabled after the early
return of `rt_data_queue_pop`; `corrupt` says that `rt_data_queue_reset` has taken
the head of an empty list for a thread, after which nothing is known.  Items are
numbered in the order they are pushed.

### SerialRx

Here nothing is locked.  A step of the reader is one access to a shared field: each
load of an index, the load of the character, the store of the index.  The operands
of a comparison are loaded in either order, and an index may be reloaded or kept, as
the fields are not volatile.  The accesses are made in the order of the source: a
compiler may also move the load of the character past the store of the index, which
is not modelled.  The interrupt handler is entered, drains the data register one
character at a time, and clears the pending bit; the line may bring a character
before each of these.  Both modes of the device (interrupt and polling) are initial
states of one run.  Characters are numbered as the driver takes them.

### Pipe

`Pipe` extends `RingBuf`: each action is a section with interrupts disabled, the
ring buffer call conjoined with what becomes of the threads, which depends on what
the call returned (`count'`).  The flags are any subset of the three the code has.

### UsbDevice and MassStorage

The controller driver posts events to `usb_mq`; one thread takes them and is the only
one that runs the class, so an event is one step.  `UsbDevice` has the queue, which
loses what does not fit, the state of the device and the answer to each control
request; `MassStorage` adds what the callbacks of the class do, and everything that
is outside the repository: the host with its enumeration and the bulk-only protocol,
bus resets, the cable, and the controller, which is known to the code only by
`struct udcd_ops`.  Two pointers matter and are kept: a set-up event points to the
packet, which the next request overwrites, and an end point points to the buffer,
which both share (`buf` is what it holds), so the host gets what is there when it
asks.  `block`, `count` and `size` are the code's `_block`, `_count` and `_size`.

The host gives one command at a time and reads less than the whole disk (the code
asserts it).  It resets the bus, or the cable is pulled, at any time, in the middle of a
command too: after a lost transfer or a SCSI VERIFY it has no other way on.  Only a
control request is waited for, or given up when nobody answers (`Quiet`, `Ignored`).
Neither `_class_run` nor a RESET puts `status` back (mstorage.c:523-550, core.c:1506), so
a command that was cut off may go on in the class and meet the next one.  The history
variable `cut` says so: it is set when a command is cut off and reset when the class is
configured while it waits for a command.  What is claimed of status blocks, of the disk
and of the ends of commands is claimed while `cut` is false; that a device the host has
configured is configured and has its buffer is claimed always.  The disk does not fail:
the class looks at no result of it.

### Vcom

The thread of the USB core and any writers meet at a ring.  The thread's step at a
start of frame has three parts, because only the second is made with interrupts
disabled: it looks at the flags and the length (`HandleSof`), fetches (`SofFetch`) and
arms the end point (`SofSend`).  At the end of a transfer it decides and fetches in one
section (`_ep_in_handler`) and arms after it (`EpInWrite`).  A writer looks for room, looks
again with interrupts disabled and puts; at a full ring it looks whether the port is still
connected, and after 500 such looks it resets the port from its own thread, whatever has
become of the ring since (`PutcGivesUp`).  The ring is the sequence that `ByteFifo` promises.  The
completion is here as well: the thread waits for the data of a line coding for 100
ticks at most, and no event is handled meanwhile.  `due` is what was accepted and has
not reached the host; `raced` says that a reset has met a transfer, after which the
code may send what is left in the buffer of the end point, and nothing is claimed.

### Alarm

A call of a user is one step, as it is made under the mutex; `alarm_update` is two,
one for each reading of the clock.  A day has few seconds and a week few days, so that
midnight and the turn of the week come often.  The clock and its one alarm are
external; the event may be handled up to `MaxLate` ticks late.  The device is switched
off for good, though alarms are started, in three cases, which `StartedAlarmFires`
leaves out by asking that the device be armed:

* a one-shot alarm ends while another alarm is current: line 109 switches the one
  alarm of the device off, and the second pass leaves the current one out;
* a one-shot alarm that has fired stays current: an alarm that is started later is
  compared with it and may not be armed (lines 461-476);
* the current alarm is stopped in the very second of the only other one: that is not
  chosen (line 197), and no event comes to choose it later.

### XyzModem

A packet is the number of what it carries.  Every answer the receiver sends and every
packet of the sender may be lost or damaged; both ends keep the order.  A read asks for
any number of pieces, and a block is acknowledged when the reader comes to the next.
`respent` marks a behaviour of the code that the properties have to leave out: when the
last retry goes to a block that came before, `stat` is 0 and the reader takes its
bytes for new ones (lines 442 and 473).

### Sdio and SpiBus

The lock of an SDIO host is a semaphore, so the holder need not be who releases it, and
its queue is first-in first-out; `bus_lock` is that queue with the holder at its head.
`sem_ack` is one semaphore for the answers to all requests.  The thread of the
interrupt, the drivers of the functions and the controller interleave at each request.
No function of `sdio.c` that a driver calls takes the lock.  A driver has it when the
detection of cards calls probe, and has it not when `sdio_register_driver` and
`sdio_unregister_driver` call probe and remove (lines 1335 and 1371): each call of a
driver in `Bare` goes either way, and the thread of the interrupt always takes the
lock.  `crossed` is a history: two have used the host at once.  From then on a thread
may go on with the answer to the request of another, while the controller still has the
request that was on its stack; that is where the model stops (`RequestGone`), as it
does where the code meets an assertion, a null pointer or a lock that nobody will
release (`halted`): only a reset of the board helps.  The creation and the deletion of
the thread of the interrupt are one step each, so that two drivers without the lock do
not interleave within one of them.

`SpiBus` splits each call at the places where the controller is called, with the mutex
held: to configure, to begin a transfer, to end it.  `rt_spi_configure` writes before
it takes the mutex.  `refused` and `left` are histories of the two failures the code
does not repair.

### FinshVm

A line is a tree out of a set (`Line`) that has every kind of node and every pair of
operand kinds under an operator or an assignment; it is compiled and run in one step,
on the stack the last line has left.  `Compile` follows `finsh_compile` node by node.
The reference is `Eval`, what the tree is worth in C; `Agree` says for which trees the
two have the same rules of width: finsh takes the width of the left operand, and none
for what a system call returns, so that `f(1) + 2` generates no addition.  Lines on
which they differ are run too, and leave their traces on the stack.  Chars are added as
chars, in finsh and in `Eval`; C would promote them.

The shell shows the whole long at the bottom of the stack.  `LineIsRight` compares all of
it for every line that ends in a long, and for a char that is the value of a line's only
statement and not of an assignment.  Of the other chars, as in `c = ++i;` or `i = 1; c`,
it asks the low byte only, because the code gives no more: the upper bytes shown are those
of the address of `c`, or of the value of the first statement (`ShowsWhole` says which).
`++c` shows all of the long at `c`, which is right until `i = f(x, y) + c`, for which no
addition is generated, has stored at the address that `f` returned.

The same bytes reach a variable.  The comment at finsh_compiler.c:894 says "clean text
segment and vm stack", but `sizeof(finsh_vm_stack[0])` is one slot.  In `i = c;` the char
goes to the low byte of the second slot and the assignment stores all of it, so that after
a line that has left a long there, as `i = 1000;` does, `i` is not `c`: `LineIsRight` asks it
to be while that slot has nothing above its low byte (`Widened`), and TLC finds the
violation as soon as that condition is dropped.

### ShellLine and CmdQueue

In `ShellLine` a key is one step and a poll of the console, `shell_ReadLine`, as many
as have come.  The history is the bytes of the code's ring.  Characters are those the
code tells apart: a letter, the digits of a short base, the point, the slash that a step
of a point makes, and zero.  `ideal` is the line and the cursor of a user who knows no
buffers, `kept` the latest lines that fit; both are read by no action.  `excused` says
that the line has been through one of three things the code does not support:

* a key that needs the length, after another key of the same poll has changed it (line
  273): a deletion then removes the wrong character, an insertion loses the last;
* a search of the history that starts one byte behind the ring (line 258): whatever
  lies there is part of the line;
* a step with the cursor on a point, which turns it into a slash or a nine.

`broken` says that a byte before or behind the buffer was written, after which nothing
is known until the shell is registered again.

`CmdQueue` has the tasks of each console, of which a function asks to be repeated or
not, as it likes.  The loop over the tasks is one step for each, and the lines that
consoles and other parts of the program enter come between.

### UsbHost

The hub thread is the only one that touches instances and ports, so its steps end where
the hardware is asked: a status, a flag, a reset, a request.  Between them cables are
plugged and pulled, and a hub that is attached interrupts.  The root hub says of each
port what is there, whether it is slow, and whether that has changed; the message that
something has changed names no port, and is lost if the queue is full.  `owner` is the
port an instance was allocated for, `astray` the ports that the code has lost track of:

* a request of the enumeration failed; nobody tries again;
* another device came between the reading of the status and the clearing of the flag
  (hub.c 311-320): the new one is given the speed of the old one;
* a port keeps the pointer to an instance that was freed, and its next change detaches
  the device that has the instance by then (hub.c 332).

Nothing is known, and the board has to be reset (`HostRestart`), when the configuration
descriptor of a detached instance, which is freed two lines before it is read or was
never there, does not say what it said, or when the callback of a freed pipe is called.
The ports of an external hub are never
enumerated: `rt_usb_hub_get_port_status` compares the bytes transferred with the
time-out (line 129) and so reports an error when it succeeds.

## 3. Runs

A run has a budget of some minutes, and components that do not interact are explored
one at a time in one run: the variable `part`, which never changes, says which one, and
the others stay as they started.  Each invariant and each fairness condition is that of
the component alone; `TypesOK` is the conjunction of their type invariants.  In `usb`,
`part` says which of two hosts the disk has.

Passing runs, with the bounds that make the interesting cases happen:

| run | bounds | shows |
|---|---|---|
| `ringbuf` | a pool of 3 bytes, blocks up to 4, two byte values | `MirrorInv`; `IsFifo`: it implements `ByteFifo`. Blocks are shorter than, equal to and longer than the pool and start at every slot. |
| | a ring of 2 characters, packets of 2, one writer, a queue of 2 events | `CharsInOrder`: what was accepted is on its way or in the ring, once and in order; `CharArrives`: it arrives. A full ring fills a packet, so transfers of whole packets and the empty packets after them occur; two events let a frame push out the end of a transfer. |
| `os` | a 5-bit clock; 1, 6, 8 and 3 tasks of the four periods; delays of 2 ticks | no tick forgotten, the over flag exact, every task once in its period and not before, delays not short, every tick served. The tables have fewer entries than slots, as many, and more; the clock wraps after two 16 ms slot patterns. |
| | three alarms, a day of 4 seconds, a week of 2 days, service up to a second late, 5 calls | the device is set to the current alarm or off (`CurrentIsSet`); a daily alarm calls back day after day (`StartedAlarmFires`). Three alarms are needed for one to be current while a second ends and a third is to be chosen; five calls create and start two and still stop or modify one. |
| `queues` | three threads and an interrupt handler, size 2, low water mark 1, 4 items, both indices 0 or both 65535 at the start | until `put_index` wraps, items in order and in their slots and no pusher forgotten; never a popper asleep beside an item, also while `put_index` has wrapped and `get_index` has not, and when pushers overrun the queue meanwhile (`NoWakeUpLost`). Three threads are enough for two to wait while a third runs or times out; four items go around the slots twice. |
| | two readers, three writers, 2 bytes, blocks up to 3 | the two sides never wait for each other for good (`NoStandoff`); no writer sleeps at an empty pipe, and no reader beside bytes unless readers have waited together (`NoneSleepsInVain`). |
| | a line of 3 characters, a history of 7 bytes, numbers of base 2, 6 keys between two registrations | a line is what its keys have made of it (`LineAsEdited`); the history holds the latest lines, whole (`HistoryIsWhole`). 6 keys enter two lines and recall the older one, or recall one, change it and enter it; a line of full length replaces what the ring has no room for; a carry passes a point. |
| | one console, two commands, three tasks | only the types: the loop stays on its list while tasks end in it. The rest of `CmdQueue` is what `shell_kill` is about, with two consoles. |
| `serial` | a ring of 4 (3 characters), 7 arrivals, reads of 1 and 2 | a read during which the ring does not overflow is exact, even after earlier overflows; the ring always drains. Seven arrivals overflow it repeatedly and take it around once. |
| | a file of 5 pieces in 3 blocks, block numbers modulo 3, 4 retries, 4 faults, reads of 1 to 3 | what is read is a beginning of the file, and all of it when the end is reported (`FileInOrder`); with at most one fault the transfer ends (`TransferEnds`). Block numbers wrap, the last block is padded, and faults suffice to spend every retry. |
| | char of 4 values, long of 16, three lines between resets | a line leaves the variables as in C and one value on the stack, and the long that is shown is its value, but for the chars section 2 names, of which the low byte is (`LineIsRight`). Three lines leave any upper bytes on the stack and let a pointer be set, written through and read; addresses have upper bytes too. |
| `drivers` | two functions of an SDIO card, of which the first may call without the lock, any request failing; two threads and two devices on an SPI bus with two configurations | as many answers come as threads wait for one (`NobodyForgotten`); one goes to the wrong thread only when two meet and one of them is without the lock, and a register that is written back is the card's until two have met (`AckIsMine`); an interrupt with a handler does not stay pending (`InterruptServed`), but for the cases its comment names: the first function has detached, the system has stopped, a function before it has no handler, two have used the host at once; data go to a device with its configuration and with its chip alone selected (`BusIsSetUp`). Two functions suffice for one to attach, detach or signal while the other is served or asks for a register. |
| | two ports, two instances, a queue of one message, two looks for a firm contact; a slow device and a hub | when the hub thread waits with nothing in its queue, every port has been seen to and holds the instance of its device, with its address and speed (`PortsInOrder`), but for `astray`. Two ports suffice for a device to change while another one is enumerated and for an instance to change hands; a queue of one loses messages. |
| `usb` | three sectors of two values, a read and a write of two sectors that overlap, the requests that configure the device, a queue of 2 events, counts modulo 4; resets and unplugging at any time | until a command is cut off, and again once the class is back: the host sees a disk (`IsDisk`), status blocks are true, the class waits for a command, and every command ends if no event is lost. Whatever is cut off: a configured device is configured and has its buffer, and no end point event finds the buffer gone. Two events let start-of-frame events push out any other; two sectors make transfers continue; the disk has a sector that each transfer has to leave alone. |
| | the same disk, all sectors alike; a read of one sector and every command but a write, one control request of each kind | the same of the commands that are answered at once or not at all: their status blocks, readiness and their ends. |

Runs that find what a comment says to be untrue, each listed with its comment under
"findings":

| run | finds |
|---|---|
| `ringbuf_force` | `ringbuf_put_force` on a buffer that is not full, with a block that does not fit, loses the order of the bytes |
| `dataqueue_irq` | `rt_data_queue_pop` returns with interrupts disabled: a failed non-blocking push leaves `waiting_lwm` set and nobody on the list |
| `dataqueue_wrap` | after the wrap of `put_index` a full queue is not recognised |
| `serial_discard` | an overflow while the reader is between load and store of `get_index` loses the whole ring, not one character |
| `shell_kill` | `kill all`, and ctrl-x, end one task and leave the others |
| `usb_reset` | a RESET leaves the class in the middle of the command that it interrupts. In the states of `usb` where `cut` is true, TLC finds the next command block written to the disk as a sector. |

`queues` does not check for deadlock: threads that all wait for an item nobody will
push are a legal end, and so is the bound on keys.  The others do.

## 4. Fairness

`OsSched`: weak fairness of the interrupt (the timer does not stop) and of the
background loop (`main` never leaves it); strong fairness of leaving the `os_bg`
tasks and of ending an `mdelay`, because the polling loop of `mdelay` runs far more
often than the clock ticks and so cannot miss every value at which it may end.

`SerialRx`: weak fairness of the handler and of a read that has started; strong
fairness of calling read, since the thread may also open and close the device.  The
line is not assumed to bring anything.

`MassStorage`: weak fairness of the thread, which waits for nothing but events, and of
the host in the middle of a command.  Nothing forces start-of-frame events, and
nothing keeps them from filling the queue: `CommandEnds` excepts a lost event.  Nothing
makes a host reset the bus either.

`Vcom`: weak fairness of the thread, of frames and of the host taking what is armed;
writers need not write, and the host need not enumerate.

`Alarm`: the clock runs and the service is not starved; strong fairness of a second
pass in the same second as the first, for each current alarm: the passes are some
microseconds apart, so that not every day the clock ticks between them.

`XyzModem`: the caller reads on, the receiver runs, and the sender answers what it is
asked.  `TransferEnds` excepts transfers that either end has given up.

`Sdio`: each thread runs, the controller answers every request, be it with an error,
and an interrupt that stands is taken.  Requests may fail without a bound; but the
request that the thread of the interrupt makes again and again does not fail for ever
(strong fairness of an answer without an error).

`SpiBus`, `FinshVm`, `ShellLine`, `UsbHost` and the other specifications state no fairness and are checked
for safety only.

## 5. Proofs

Eight modules prove, for every value of the constants, all but a few of the safety
properties the runs check and both refinements that are stated.  Each has the same shape: an
inductive invariant, a conjunction of named parts; one lemma that it holds at first; one
lemma for each action, with a step for each part that the action can disturb; and the
theorems, which follow from the invariant.

Five runs explore modules side by side that do not interact.  Of four of them the
types of all parts are a theorem, too (`RingUserTypeCorrect`, `ClockTypeCorrect`,
`QueuesTypeCorrect`, `DriversTypeCorrect`): a step of one part is a stutter of the others,
so the invariants of the parts, conjoined, are inductive.  For these the proof modules
extend the `MC` module of the run.

**`RingBufProof`** (any pool size, set of bytes and block length).

* `RingBufInv`, `Spec => [](TypeOK /\ MirrorInv)`.  `MirrorInv` is what the length
  computation relies on: equal mirrors have `read_index <= write_index`, different
  ones the reverse.  With the types it is inductive as it stands.  The two forced
  writes need that the buffer was full or that the block fits.
* `RingBufFifo`, `Spec => IsFifo`: every step of the ring buffer is a step of
  `ByteFifo` under the refinement mapping `Content`, the `data_len` bytes from the
  read index on.  The lemmas say how the length and the content change when an
  index moves, and what `CopyIn` and `CopyOut` do to a slot; the wrap is split off
  once, in the lemmas on `Advance` and `Distance`.

**`OsSchedProof`** (any clock width that is a multiple of 16, any tables, any delays; any
alarms, setups and length of the day).

* `OsNoTickForgotten`, `OsOverFlagExact`: strengthened with what `held` knows of the
  flag between a load and its store (`FlagInv`).
* `OsFgPhase`, `OsInStep`: the foreground counters are the phases of `jiffies`; in the
  middle of a pass a background counter that has been stepped is one ahead of those that
  have not (`BgInv`).
* `OsEveryPeriod`, `OsNeverEarly`: the age of a task is the distance from its slot to the
  counter of its loop (`FgAges`, `BgAges`), so it starts again exactly when the period is
  over.
* `OsDelayIsFull`: while a task waits and the clock has not come around, the deadline is
  as far ahead as the task still has to wait (`DelayInv`).  `OsAssumption` has delays
  below half the clock, as the argument of `mdelay` is an `int` and the clock has as
  many bits.
* `AlarmCurrentIsSet`, `AlarmTypeCorrect`.  `SetToCurrent` is stronger than the property
  in that the device is right also between two passes: it is off or set to the current
  alarm, which is started.  It is inductive because whatever stops the current alarm
  switches the device off, and because an alarm that is started is not set up again,
  which would move its second under the device.  The lemmas say that the alarm the
  second pass chooses exists and is one of those it chooses from (`SoonestFacts`), what
  a first pass leaves of an alarm (`AwakeFacts`), and what is left of a list without an
  alarm (`TakeOut`).

**`QueuesProof`, the data queue** (any set of threads, any size that is a power of two,
any mark).
`DataQueueInv`: the lists hold the threads that are suspended, each once; there are as
many poppers on their way as items that nobody was woken for, or nobody waits
(`Poppers`); one pusher waits at most unless two have met (`Pushers`).

* `DataQueueTypeCorrect` and the half of `DataQueueNoWakeUpLost` that is about poppers
  hold across every wrap: the items that a popper must not sleep beside are `Held`, the
  difference of the indices modulo 2^16, and not `Used`, which is negative while
  `put_index` alone has wrapped.
* `DataQueueItemsInOrder` and the half about the pusher are stated for a `put_index` that
  has not wrapped (`BeforeWrap`).  The condition cannot be left out: the run
  `dataqueue_wrap` shows what happens behind it.

**`QueuesProof`, the pipe** (any ring buffer, readers and writers, any of the three flags).
`PipeInv` adds to the ring's invariant that a thread that is ready asks for a byte at
least, and that a side which sleeps at the wrong end of the pipe has one of its threads
ready (`WritersAtEmpty`, `ReadersAtFull`): a step of that thread changes the pipe, and
so wakes the other side.  From it `PipeNoStandoff`, `PipeNoneSleepsInVain` and
`PipeTypeCorrect`.

**`SerialProof`** (any ring that is a power of two up to 2^15, any reads and characters;
any file, block numbering, retries and faults).

* `SerialReadIsExact`, `SerialTypeCorrect`.  Nothing is locked, so the invariant speaks
  of places that both sides write: whatever the race for `get_index` has done, the slots
  behind `put_index` hold the latest characters (`RingInv`); while no overflow
  interferes, what the reader has loaded is still true of the ring (`ReaderInv`).
* `XyzFileInOrder`.  With b blocks taken, what was returned and what is left of the last
  one is the beginning of the file (`DataInv`).  That an acknowledgement is never taken
  for that of another block needs `LineInv`: the sender is at block b or b + 1, a packet
  or an answer is on the line but not both, and a block that is still to be acknowledged
  has its sender waiting.  Two blocks in a row have different numbers modulo 256, which
  is all that the comparison with `next_blk` needs.
* `XyzTypeCorrect`, also of transfers whose retries were all spent on one block, where
  `XyzFileInOrder` says nothing.  That no more than three answers are ever on the line is
  inductive only with where both ends are (`Room`): none while a packet of the sender is
  there, or while the receiver still owes an acknowledgement; two while it waits only if
  the sender has gone; three only at the end of a Y-modem batch.

**`VcomProof`** (any writers, buffers and length of the queue).

* `VcomCharsInOrder`, `VcomTypeCorrect`.  The class reads its flags and the length of the
  ring without the lock, so the proof has to say what each step finds of what the one
  before has left: a transfer is armed, or the news of its end waits in the queue, or
  the thread is between the steps of a start of frame or about to go on sending, and
  never two of these; the flag is clear in the steps of a start of frame and set in the
  other cases (`OneTransfer`).  The length read
  without the lock is good because only the thread takes characters out.  A reset by the
  thread restores all of it if nothing was under way; a reset in the middle of a transfer
  is what `raced` records and the property leaves out.

**`BusProof`** (SDIO: any set of functions, of which any may call without the lock, any
number of failing requests; SPI: any
threads, devices and configurations, any failure of the controller; USB host: any ports,
devices, queue and patience with a contact, as many instances as ports at least).

* `SdioNobodyForgotten`, `SdioAckIsMine`, `SdioTypeCorrect`.  A request more is an answer
  more to come, and the semaphore gives each answer to one thread (`AckInv`): this needs no
  lock.  A thread that goes on before its own request is complete therefore leaves
  another one waiting, which is inside as well; of those on the lock the first alone is
  inside (`LockInv`), so one of the two is not on it.  Until two have met there is one
  inside at most (`LoneInv`), and a register that was read is unchanged until it is
  written back (`RegInv`).  `IrqInv` keeps the semaphore and the thread of the interrupt
  together.
* `SpiBusIsSetUp`, `SpiTypeCorrect`: the recursive mutex is held as often as the calls of
  its holder ask (`MutexInv`), so one thread is beyond it, and where that thread is tells
  what it has made of the bus (`JobInv`, `OwnerInv`, `ChipInv`).
* `UsbHostPortsInOrder`, `UsbHostTypeCorrect`.  The property speaks of a thread that has
  nothing to do, the proof of the middle of its work: a change that was not yet seen has
  its message in the queue or lies ahead of the thread (`SeenInv`); a port without a
  change that the thread is not at is in order (`RestInv`); and the port it is at is as
  far as the step says, unless it has changed again since (`LookInv`, `EnumInv`).  A port
  has one instance at most (`ChildInv`), hence an idle one is found for the next port: of
  as many instances as ports, the pigeonhole principle.  The address 0 belongs to one
  device at a time: another that answers there has changed, or is astray.

**`MassStorageProof`** (any geometry, commands, control requests and queue length, with
resets and unplugging at any time).
`MassStorageIsDisk` (the class implements `BlockDisk`: every step is a step of the disk
or none), `MassStorageStatusIsTrue`, `MassStorageReady`, `MassStorageBufferInUse`,
`MassStorageTypeCorrect`.  `QueueInv` says what the queue can hold for each place of the
host and the class: an event is lost or waits, and nothing that is posted behind it can
overtake it.  `CommandInv` is the agreement of both on how far a command is; `IdleInv`,
`SetUp` and `PacketInv` carry readiness through requests, resets and replugging.  That
is the invariant while `cut` is false (`MassStorageInv`).  `BusInv` is what holds whatever
is cut off: the order of the queue, the types of what a class in the middle of an old
command takes for its data (`ClassInv`), and a configured device with its buffer
(`HostInv`, `Configured`).  It gives the types, `BufferInUse` and the first half of
`ReadyForCommand` without any exception, and it is enough to establish `MassStorageInv`
anew when the class is configured while it waits for a command (`Recovered`).

**`ShellProof`** (any length of the line, any longer history, any number of digits, any
number of keys; any consoles, commands and number of tasks).

* `HistoryStaysWhole`.  Read backwards from the rail, the ring is the latest lines that
  fit, each with its zero, and zeros (`HistoryInv`).  `cmd_SetHistory` writes the line and
  clears on to the first zero, which is what cuts the oldest lines; `RingTakes` says what
  the ring then holds, as bytes, and `KeptTakes` that these are whole lines again: the
  fewest old lines are dropped that make room, and the byte the clearing stops at is
  always the zero between two of them.
* `LineStaysAsEdited`.  Besides the line itself, the invariant (`LineInv`) has to say
  where the search in the history stands: at the zero behind as many lines as the user
  has gone back (`GapAt`).  A search from there skips the zeros that no line is between,
  reads one line, forwards or backwards, and stops at the zero at its other end, so it
  finds the next line and is in place again (`Reaches`, `Finds`).  It may start behind
  the ring only with the rail at zero (`PlacesInv`).  A stepped number: the code carries
  from digit to digit, the view of the user adds one to a number.  The digit at a place
  changes exactly when all digits behind it carry (`AllCarry`), that is when what they
  are worth is the greatest, or least, such number (`Lifts`); what the digits before the
  place are worth is whole rounds (`Apart`), so that they do not matter.
* `ShellLineTypes`: the marks stay in the buffers.  A line that runs into the end of its
  buffer is `broken` from then on, until the console is opened again.
* `CmdQueueTypes`: the loop over the tasks has at most as many left to call as there are,
  and none between two consoles (`CmdInv`); a line does not run while tasks are being
  called.  `kill` is a fold over at most two words, unfolded word by word (`KilledIs`).

What is recalled, and the sequences of lines with their zeros, are recursive functions
in the model (`Flat`, `Worth`), never `RECURSIVE` operators.  Facts about them for every
length are proved with the least counterexample (`SetInduction`), which needs no
induction theorem over operators.

Other assumptions are the named ones that the modules state of their constants
(`RingBufAssumption`, `PipeAssumption`, `TimeAssumption`, `OsAssumption`,
`AlarmAssumption`, `SetupAssumption`, `DataQueueAssumption`, `SerialAssumption`,
`XyzAssumption`, `MqAssumption`, `VcomAssumption`, `DiskAssumption`,
`CommandAssumption`, `SpiAssumption`, `SdioAssumption`, `UsbHostAssumption`,
`ShellLineAssumption`, `CmdQueueAssumption`): the widths of fields, that sizes are powers of two where the code masks or divides indices that
wrap, that queues have room, that a command stays on the disk, and that there are as
many instances as ports.  TLC evaluates each of them in a run.

Model-checked only:

* liveness (`EveryTickServed`, `RingDrains`, `CommandEnds`, `CharArrives`,
  `StartedAlarmFires`, `TransferEnds`, `InterruptServed`), which is out of the prover's
  reach;
* `LineIsRight` and the types of `FinshVm`, whose operators are recursive, as trees are,
  and with them `TypesOK` of the run `serial`; the types of its other parts are theorems
  (`SerialTypeCorrect`, `XyzTypeCorrect`).

`KillAllKillsAll` and the other properties of the runs that expect a violation are false
of the code, and stay with TLC.

## 6. Not modelled

* `rt_data_queue_peak` and `PIPE_CTRL_GET_SPACE` read and change nothing.
* Callbacks (`evt_notify`, `rx_indicate`) belong to the users of a component.
* Serial transmission: a loop on a flag of the hardware, without state.
* Creation and destruction of pipes, hardware set-up, assertions on null pointers.
* USB: descriptors and strings, SET_INTERFACE and end point halts, whose effect on an
  armed end point is the controller's, a second configuration, failing allocations.
* Priorities of threads: any ready thread may run, which allows more than a kernel
  with priorities does.
* USB host: requests that the hub thread does not make, the list of drivers, the ADK
  class, which needs a device that speaks its protocol.
* Virtual serial port: reception, one ring that the thread fills and a reader empties;
  the class calls back without a decision of its own.
* Alarms: yearly ones, and callbacks that call the service from within an update.
* X/Y modem: the bytes of a packet and the polynomial of its check sum; a damaged packet
  is found out.  Two failures outside the model: after an error the length is -1, and a
  further read would copy with it; a last header that does not come makes a transfer
  that is complete report an error.
* SDIO: detection and initialisation of cards, block transfers.  On an error in
  `sdio_init_card` the card is freed twice (lines 943 and 985).
* SPI: a chain of messages of the user's own, with any chip selects; a bus released by
  a thread that has used another device meanwhile, which meets an assertion.
* finsh: tokens, declarations, casts, strings and the heap, system variables, lines with
  an error or beyond the 128 bytes of the text segment.
* Command shell: what the terminal shows, the words of a line, mute and prompt, and
  functions that run a line themselves.  A task is called with the trap of the console
  that ran a line last (`command.c` line 220): either may ask to be repeated or not.
* Circular buffer (`common/circbuf.c`): no code of the repository uses it.
* The components that section 7 plans.  I2C, MTD, the retargeting of
  the C library, vendor code and the build scripts are not planned: their code keeps no
  state that two actors share, or is not the program's own.  The vendor's headers and
  libraries are more than half of the lines of C in the repository.

## 7. Plan

1. `Portal` on two instances of `Pipe`.
2. The device framework and console; detection of cards.
