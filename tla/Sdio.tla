--------------------------------- MODULE Sdio ---------------------------------
(***************************************************************************)
(* The functions of an SDIO card and the one interrupt they share          *)
(* (drivers/sdio/sdio.c), over the requests and the lock of a host         *)
(* (drivers/sdio/mmcsd_core.c).                                            *)
(*                                                                         *)
(* The card has been found and its functions are initialised.  Each has a  *)
(* driver with a thread of its own, which attaches and detaches the        *)
(* interrupt and makes other requests.  Nothing in sdio.c takes the lock   *)
(* of the host for it: it has the lock around a call or it has not, as     *)
(* probe has it when the detection of cards calls it and has it not when   *)
(* sdio_register_driver does.  The controller and the card are external:   *)
(* it takes more than one request, a request may fail, and an interrupt is *)
(* a level that stands until its handler has been called.                  *)
(***************************************************************************)
EXTENDS Integers, FiniteSets, SequencesExt

CONSTANTS
    Func,           \* the numbers of the functions, from 1 to 7
    Bare            \* those whose drivers may call without the lock of the host

ASSUME SdioAssumption == Func \subseteq 1 .. 7 /\ Bare \subseteq Func

VARIABLES
    bus_lock,       \* the semaphore: its holder, then those who wait, in order
    sem_ack,        \* the count of the other one
    ack_wait,       \* who waits for it, in order
    on_bus,         \* whose requests the controller has
    sdio_req,       \* of each thread: none, sent, asleep or back
    failed,         \* cmd->err of the thread's request
    sdio_at,        \* where each thread is
    sdio_reg,       \* of each thread: the register it has read in this call
    sdio_op,        \* what the driver of a function is doing
    irq_handler,    \* the functions that have one
    sdio_irq_num,
    sdio_irq_sem,   \* its count, or NoSem
    irq_enabled,    \* by enable_sdio_irq: the controller passes interrupts on
    int_en,         \* the register of the card: functions whose interrupt is on
    pending,        \* the functions that signal an interrupt
    halted,         \* an assertion failed, the lock is lost for ever, or a request
                    \* that the controller has is gone from its stack
    detached,       \* history: some function has detached its interrupt
    crossed         \* history: two have used the host at once

locks    == <<bus_lock, sem_ack, ack_wait>>
requests == <<on_bus, sdio_req, failed>>
irq      == <<irq_handler, sdio_irq_num, sdio_irq_sem, irq_enabled, detached>>
card     == <<int_en, pending>>
sdioVars == <<locks, requests, sdio_at, sdio_reg, sdio_op, irq, card, halted, crossed>>

IrqThread  == 0
SdioThread == Func \cup {IrqThread}
NoSem      == -1

SdioInit ==
    /\ bus_lock = <<>> /\ sem_ack = 0 /\ ack_wait = <<>>
    /\ on_bus = {} /\ sdio_req = [t \in SdioThread |-> "none"]
    /\ failed = [t \in SdioThread |-> FALSE]
    /\ sdio_at = [t \in SdioThread |-> IF t = IrqThread THEN "none" ELSE "idle"]
    /\ sdio_reg = [t \in SdioThread |-> {}] /\ sdio_op = [f \in Func |-> "none"]
    /\ irq_handler = {} /\ sdio_irq_num = 0 /\ sdio_irq_sem = NoSem
    /\ irq_enabled = TRUE /\ detached = FALSE
    /\ int_en = {} /\ pending = {} /\ halted = FALSE /\ crossed = FALSE
-----------------------------------------------------------------------------
\* mmcsd_host_lock: thread t is on the semaphore, and goes on when it is first.
mmcsd_host_lock(t) ==
    /\ bus_lock' = Append(bus_lock, t) /\ sdio_at' = [sdio_at EXCEPT ![t] = "lock"]

\* Mutant: whoever asks for the lock has it.
HasLockAtOnce(t) == sdio_at[t] = "lock"

HasLock(t) == sdio_at[t] = "lock" /\ Head(bus_lock) = t

HoldsLock(t) == bus_lock # <<>> /\ Head(bus_lock) = t

\* mmcsd_host_unlock, by who has taken the lock.
mmcsd_host_unlock(t) == bus_lock' = IF HoldsLock(t) THEN Tail(bus_lock) ELSE bus_lock

\* Thread t is done with the host, and where it goes next.
Leave(t, to) == mmcsd_host_unlock(t) /\ sdio_at' = [sdio_at EXCEPT ![t] = to]

\* Who uses the host, with the lock or without.
Inside(t) == sdio_at[t] \in {"read", "write", "request", "handle"}

Enter(t) == crossed' = (crossed \/ \E u \in SdioThread \ {t} : Inside(u))

\* mmcsd_send_request hands the request to the controller, then takes sem_ack.
Send(t, to) ==
    /\ on_bus' = on_bus \cup {t} /\ sdio_req' = [sdio_req EXCEPT ![t] = "sent"]
    /\ sdio_at' = [sdio_at EXCEPT ![t] = to]
    /\ failed' = [failed EXCEPT ![t] = FALSE]

NoRequest(t) == sdio_req' = [sdio_req EXCEPT ![t] = "none"] /\ UNCHANGED on_bus

\* The locals of a call that returns are gone.
CallReturns(f) ==
    /\ NoRequest(f) /\ failed' = [failed EXCEPT ![f] = FALSE]
    /\ sdio_reg' = [sdio_reg EXCEPT ![f] = {}] /\ sdio_op' = [sdio_op EXCEPT ![f] = "none"]

TakeAck(t) ==
    /\ sdio_req[t] = "sent"
    /\ IF sem_ack > 0
         THEN /\ sem_ack' = sem_ack - 1 /\ sdio_req' = [sdio_req EXCEPT ![t] = "back"]
              /\ UNCHANGED ack_wait
         ELSE /\ ack_wait' = Append(ack_wait, t)
              /\ sdio_req' = [sdio_req EXCEPT ![t] = "asleep"]
              /\ UNCHANGED sem_ack
    /\ UNCHANGED <<bus_lock, on_bus, failed, sdio_at, sdio_reg, sdio_op, irq, card, halted,
                   crossed>>

\* Whoever has been answered goes on, be the answer its own or not.  A request that
\* the controller still has lives on the stack of the thread: no more is modelled.
RequestGone(t) ==
    /\ sdio_req[t] = "back" /\ t \in on_bus
    /\ halted' = TRUE
    /\ UNCHANGED <<locks, requests, sdio_at, sdio_reg, sdio_op, irq, card, crossed>>

\* mmcsd_req_complete, called by the controller: the registers are read and
\* written now, unless the request fails.  Mutant: an answer that nobody waits for
\* yet is forgotten.
ForgetAck ==
    IF ack_wait # <<>>
    THEN /\ sdio_req' = [sdio_req EXCEPT ![Head(ack_wait)] = "back"]
         /\ ack_wait' = Tail(ack_wait) /\ UNCHANGED sem_ack
    ELSE UNCHANGED <<sdio_req, ack_wait, sem_ack>>

ReleaseAck ==
    IF ack_wait # <<>>
    THEN /\ sdio_req' = [sdio_req EXCEPT ![Head(ack_wait)] = "back"]
         /\ ack_wait' = Tail(ack_wait) /\ UNCHANGED sem_ack
    ELSE sem_ack' = sem_ack + 1 /\ UNCHANGED <<sdio_req, ack_wait>>

Result(t) == [sdio_reg EXCEPT ![t] = CASE t = IrqThread   -> pending
                                  [] sdio_at[t] = "read"  -> int_en
                                  [] OTHER           -> @]

mmcsd_req_complete(t, err) ==
    /\ t \in on_bus /\ on_bus' = on_bus \ {t}
    /\ failed' = [failed EXCEPT ![t] = err]
    /\ ReleaseAck
    /\ sdio_reg' = IF err THEN sdio_reg ELSE Result(t)
    /\ int_en' = IF ~err /\ sdio_at[t] = "write" THEN sdio_reg[t] ELSE int_en
    /\ UNCHANGED <<bus_lock, sdio_at, sdio_op, irq, pending, halted, crossed>>
-----------------------------------------------------------------------------
\* sdio_irq_thread_create: only the first function is counted.
sdio_irq_thread_create(f) ==
    IF sdio_irq_num = 0
    THEN /\ sdio_irq_num' = 1 /\ sdio_irq_sem' = 0
         /\ sdio_at' = [sdio_at EXCEPT ![IrqThread] = "wait", ![f] = "idle"]
    ELSE /\ sdio_at' = [sdio_at EXCEPT ![f] = "idle"]
         /\ UNCHANGED <<sdio_irq_num, sdio_irq_sem>>

\* sdio_irq_thread_delete by the driver of a function.  The thread may be waiting
\* for the lock, or be on its way to enable the interrupt; if it has the lock, that
\* is lost with it.  Every function counts.
sdio_irq_thread_delete(f) ==
    IF sdio_irq_num = 0 \/ HoldsLock(IrqThread)
    THEN /\ halted' = TRUE
         /\ UNCHANGED <<sdio_irq_num, sdio_irq_sem, irq_enabled, bus_lock, sdio_at,
                        requests>>
    ELSE /\ sdio_irq_num' = 0 /\ sdio_irq_sem' = NoSem /\ irq_enabled' = FALSE
         /\ bus_lock' = RemoveFirst(bus_lock, IrqThread)
         /\ on_bus' = on_bus \cup {f} /\ sdio_req' = [sdio_req EXCEPT ![f] = "sent"]
         /\ sdio_at' = [sdio_at EXCEPT ![IrqThread] = "none", ![f] = "read"]
         /\ failed' = [failed EXCEPT ![f] = FALSE] /\ UNCHANGED halted

\* A driver attaches or detaches its interrupt or makes a request, with the lock as
\* probe has it from sdio_init_card, or without as from sdio_register_driver.
DriverCalls(f, what) ==
    /\ sdio_at[f] = "idle"
    /\ sdio_op' = [sdio_op EXCEPT ![f] = what]
    /\ \/ mmcsd_host_lock(f)
       \/ f \in Bare /\ sdio_at' = [sdio_at EXCEPT ![f] = "bare"] /\ UNCHANGED bus_lock
    /\ UNCHANGED <<sem_ack, ack_wait, requests, sdio_reg, irq, card, halted, crossed>>

Starts(f, what) == (HasLock(f) \/ sdio_at[f] = "bare") /\ sdio_op[f] = what

\* sdio_attach_irq refuses a function that has a handler, and reads the register.
AttachBegin(f) ==
    /\ Starts(f, "attach")
    /\ IF f \in irq_handler
         THEN Leave(f, "idle") /\ CallReturns(f) /\ UNCHANGED crossed
         ELSE /\ Send(f, "read") /\ Enter(f)
              /\ UNCHANGED <<bus_lock, sdio_reg, sdio_op>>
    /\ UNCHANGED <<irq, halted>>

\* sdio_detach_irq takes the handler away, then turns to the register.
DetachBegin(f) ==
    /\ Starts(f, "detach") /\ Enter(f)
    /\ IF f \in irq_handler
         THEN /\ irq_handler' = irq_handler \ {f} /\ detached' = TRUE
              /\ sdio_irq_thread_delete(f)
         ELSE Send(f, "read") /\ UNCHANGED <<irq, bus_lock, halted>>
    /\ UNCHANGED <<sdio_reg, sdio_op>>

RequestBegin(f) ==
    /\ Starts(f, "request") /\ Enter(f)
    /\ Send(f, "request")
    /\ UNCHANGED <<bus_lock, irq, halted, sdio_reg, sdio_op>>

Back(t, from) == sdio_at[t] = from /\ sdio_req[t] = "back" /\ t \notin on_bus

\* A request that failed, or the last one: the driver lets the lock go, if it has it.
DriverDone(f) ==
    /\ \/ sdio_at[f] \in {"read", "write"} /\ failed[f]
       \/ sdio_at[f] = "request"
       \/ sdio_at[f] = "write" /\ sdio_op[f] = "detach"
    /\ Back(f, sdio_at[f]) /\ CallReturns(f)
    /\ Leave(f, "idle")
    /\ UNCHANGED irq

WriteBegin(f) ==
    /\ Back(f, "read") /\ ~failed[f]
    /\ sdio_reg' = [sdio_reg EXCEPT ![f] = IF sdio_op[f] = "attach" THEN @ \cup {f}
                                                                   ELSE @ \ {f}]
    /\ Send(f, "write")
    /\ UNCHANGED <<bus_lock, irq, sdio_op>>

AttachEnd(f) ==
    /\ Back(f, "write") /\ ~failed[f] /\ sdio_op[f] = "attach"
    /\ irq_handler' = irq_handler \cup {f}
    /\ sdio_irq_thread_create(f)
    /\ mmcsd_host_unlock(f) /\ CallReturns(f)
    /\ UNCHANGED <<irq_enabled, detached>>

DriverStep(f) ==
    /\ \/ AttachBegin(f) \/ DetachBegin(f) \/ RequestBegin(f)
       \/ (DriverDone(f) \/ WriteBegin(f) \/ AttachEnd(f)) /\ UNCHANGED <<halted, crossed>>
    /\ UNCHANGED <<sem_ack, ack_wait, card>>
-----------------------------------------------------------------------------
\* sdio_irq_wakeup, in the interrupt: the semaphore may not be there yet, or may
\* be there no more.
sdio_irq_wakeup ==
    /\ irq_enabled /\ int_en \cap pending # {}
    /\ irq_enabled' = FALSE
    /\ IF sdio_irq_sem = NoSem THEN halted' = TRUE /\ UNCHANGED sdio_irq_sem
       ELSE sdio_irq_sem' = sdio_irq_sem + 1 /\ UNCHANGED halted
    /\ UNCHANGED <<locks, requests, sdio_at, sdio_reg, sdio_op, irq_handler, sdio_irq_num,
                   card, detached, crossed>>

\* sdio_irq_thread.
IrqTake ==
    /\ sdio_at[IrqThread] = "wait" /\ sdio_irq_sem > 0
    /\ sdio_irq_sem' = sdio_irq_sem - 1
    /\ mmcsd_host_lock(IrqThread)
    /\ UNCHANGED <<requests, sdio_reg, irq_handler, irq_enabled, pending, crossed>>

IrqRead ==
    /\ HasLock(IrqThread)
    /\ Send(IrqThread, "read") /\ Enter(IrqThread)
    /\ UNCHANGED <<bus_lock, sdio_reg, irq_handler, irq_enabled, sdio_irq_sem, pending>>

IrqHasRead ==
    /\ Back(IrqThread, "read") /\ NoRequest(IrqThread) /\ UNCHANGED failed
    /\ IF failed[IrqThread] THEN Leave(IrqThread, "enable")
       ELSE sdio_at' = [sdio_at EXCEPT ![IrqThread] = "handle"] /\ UNCHANGED bus_lock
    /\ UNCHANGED <<sdio_reg, irq_handler, irq_enabled, sdio_irq_sem, pending, crossed>>

NextPending == CHOOSE f \in sdio_reg[IrqThread] : \A g \in sdio_reg[IrqThread] : f <= g

\* A function without a handler ends the loop, whatever functions come after it.
IrqHandle ==
    /\ sdio_at[IrqThread] = "handle"
    /\ IF sdio_reg[IrqThread] = {} \/ NextPending \notin irq_handler
         THEN /\ Leave(IrqThread, "enable") /\ UNCHANGED pending
              /\ sdio_reg' = [sdio_reg EXCEPT ![IrqThread] = {}]
         ELSE /\ pending' = pending \ {NextPending}
              /\ sdio_reg' = [sdio_reg EXCEPT ![IrqThread] = @ \ {NextPending}]
              /\ UNCHANGED <<sdio_at, bus_lock>>
    /\ UNCHANGED <<requests, irq_handler, irq_enabled, sdio_irq_sem, crossed>>

\* Mutant: after a read that failed the interrupt is not enabled again.
IrqEnableIfRead ==
    /\ sdio_at[IrqThread] = "enable"
    /\ irq_enabled' = (irq_enabled \/ ~failed[IrqThread])
    /\ sdio_at' = [sdio_at EXCEPT ![IrqThread] = "wait"]
    /\ UNCHANGED <<bus_lock, requests, sdio_reg, irq_handler, sdio_irq_sem, pending, crossed>>

IrqEnable ==
    /\ sdio_at[IrqThread] = "enable"
    /\ irq_enabled' = TRUE
    /\ sdio_at' = [sdio_at EXCEPT ![IrqThread] = "wait"]
    /\ UNCHANGED <<bus_lock, requests, sdio_reg, irq_handler, sdio_irq_sem, pending, crossed>>

IrqStep ==
    /\ IrqTake \/ IrqRead \/ IrqHasRead \/ IrqHandle \/ IrqEnable
    /\ UNCHANGED <<sem_ack, ack_wait, sdio_op, sdio_irq_num, int_en, halted, detached>>

\* A handler that detaches itself deletes the thread it runs in, with the lock.
HandlerDetaches ==
    /\ sdio_at[IrqThread] = "handle"
    /\ sdio_reg[IrqThread] # {} /\ NextPending \in irq_handler
    /\ irq_handler' = irq_handler \ {NextPending} /\ detached' = TRUE
    /\ sdio_irq_num' = 0 /\ sdio_irq_sem' = NoSem /\ irq_enabled' = FALSE
    /\ sdio_at' = [sdio_at EXCEPT ![IrqThread] = "none"] /\ halted' = TRUE
    /\ UNCHANGED <<locks, requests, sdio_reg, sdio_op, card, crossed>>

\* The card (external).
FunctionSignals(f) ==
    /\ f \notin pending /\ pending' = pending \cup {f}
    /\ UNCHANGED <<locks, requests, sdio_at, sdio_reg, sdio_op, irq, int_en, halted,
                   crossed>>

\* Nothing but a new start of the system helps.
SdioRestart ==
    /\ halted /\ halted' = FALSE
    /\ bus_lock' = <<>> /\ sem_ack' = 0 /\ ack_wait' = <<>>
    /\ on_bus' = {} /\ sdio_req' = [t \in SdioThread |-> "none"]
    /\ failed' = [t \in SdioThread |-> FALSE]
    /\ sdio_at' = [t \in SdioThread |-> IF t = IrqThread THEN "none" ELSE "idle"]
    /\ sdio_reg' = [t \in SdioThread |-> {}] /\ sdio_op' = [f \in Func |-> "none"]
    /\ irq_handler' = {} /\ sdio_irq_num' = 0 /\ sdio_irq_sem' = NoSem
    /\ irq_enabled' = TRUE /\ detached' = FALSE
    /\ int_en' = {} /\ pending' = {} /\ crossed' = FALSE
-----------------------------------------------------------------------------
Resumes(t)   == TakeAck(t) \/ RequestGone(t)
IrqRuns      == ~halted /\ (IrqStep \/ Resumes(IrqThread))
DriverRuns(f) == ~halted /\ (DriverStep(f) \/ Resumes(f))
HostServes   == ~halted /\ mmcsd_req_complete(IrqThread, FALSE)
HostAnswers  == ~halted /\ \E t \in SdioThread, err \in BOOLEAN : mmcsd_req_complete(t, err)

SdioNext ==
    \/ IrqRuns \/ HostAnswers
    \/ ~halted /\ sdio_irq_wakeup
    \/ ~halted /\ HandlerDetaches
    \/ \E f \in Func : DriverRuns(f)
    \/ ~halted /\ \E f \in Func : \/ FunctionSignals(f)
                                  \/ \E what \in {"attach", "detach", "request"} :
                                        DriverCalls(f, what)
    \/ SdioRestart

\* The threads run, the controller answers, and an interrupt that stands is taken.
\* Any request may fail, but what the interrupt thread asks again and again is
\* answered at last.
SdioFair == /\ WF_sdioVars(IrqRuns) /\ \A f \in Func : WF_sdioVars(DriverRuns(f))
            /\ WF_sdioVars(HostAnswers) /\ SF_sdioVars(HostServes)
            /\ WF_sdioVars(~halted /\ sdio_irq_wakeup)

SdioSpec == SdioInit /\ [][SdioNext]_sdioVars /\ SdioFair
-----------------------------------------------------------------------------
SdioTypeOK ==
    /\ IsInjective(bus_lock)
    /\ ToSet(bus_lock) \subseteq SdioThread /\ ToSet(ack_wait) \subseteq SdioThread
    /\ sem_ack \in Nat /\ sdio_irq_sem \in {NoSem, 0, 1} /\ sdio_irq_num \in {0, 1}
    /\ sdio_irq_num = 1 <=> sdio_irq_sem # NoSem
    /\ sdio_at[IrqThread] \in {"none", "wait", "lock", "read", "handle", "enable"}
    /\ sdio_at[IrqThread] # "none" => sdio_irq_num = 1
    /\ int_en \subseteq Func /\ irq_handler \subseteq Func

\* All share one semaphore, and an answer goes to whoever waits first.  A thread
\* returns from mmcsd_send_request before its own request is complete only if another
\* uses the host at that moment and one of the two has not taken the lock; and as
\* long as no two have used it at once, the register a driver has read is not changed
\* by another before it has written it back (mmcsd_core.c:46-79, sdio.c:1112-1123).
WithoutLock(t) == Inside(t) /\ t \notin ToSet(bus_lock)

AckIsMine ==
    /\ \A t \in SdioThread : sdio_req[t] = "back" /\ t \in on_bus =>
           \E u \in SdioThread \ {t} : Inside(u) /\ (WithoutLock(t) \/ WithoutLock(u))
    /\ ~crossed => \A f \in Func : sdio_at[f] = "write" /\ f \in on_bus /\ sdio_op[f] = "attach"
                                      => sdio_reg[f] = int_en \cup {f}

\* However many use the host without its lock, no thread is forgotten in
\* mmcsd_send_request, and no answer is left over that would wake the next one too
\* early: as many answers have come or are to come as threads wait for one, and
\* nobody sleeps beside one that has come (mmcsd_core.c:56-79).
Askers == {t \in SdioThread : sdio_req[t] \in {"sent", "asleep"}}

NobodyForgotten ==
    /\ Cardinality(on_bus) + sem_ack = Cardinality(Askers)
    /\ ack_wait # <<>> => sem_ack = 0

\* An interrupt of a function with a handler does not stay pending for ever, whatever
\* requests the others make and whichever of them fail.  But a function before it that
\* signals without a handler, enabled or not, keeps it from being served, the first one
\* to detach stops the interrupts of all, and an interrupt that comes before the
\* semaphore is made stops the system.  And nothing is promised once two have used the
\* host at once: of two that attach, one may write over what the other has enabled.
InterruptServed ==
    \A f \in Func :
        []<>(f \in irq_handler /\ f \in pending =>
                 \/ detached \/ halted \/ crossed
                 \/ \E g \in pending \ irq_handler : g < f)
===============================================================================
