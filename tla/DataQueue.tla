------------------------------ MODULE DataQueue ------------------------------
(***************************************************************************)
(* The blocking queue of common/dataqueue.c: threads and interrupt         *)
(* handlers push and pop items; a thread may wait for room or for an item, *)
(* for ever or until a timer expires.                                      *)
(*                                                                         *)
(* A section with interrupts disabled is one step.  The kernel (suspend,   *)
(* resume, thread timers) is external: it is modelled by what the sections *)
(* rely on.  Any ready thread may run next: priorities are not modelled.   *)
(***************************************************************************)
EXTENDS Integers, SequencesExt

CONSTANTS
    Thread,         \* the threads that use the queue
    Isr,            \* the context of an interrupt handler
    QueueSize, Lwm, \* size and low water mark given to rt_data_queue_init
    StartIndices,   \* put_index and get_index of the empty queue at the start:
                    \* 0 after init, any other value after as many push and pop
    MaxItems        \* bound on the items pushed

\* put_index and get_index are rt_uint16_t.
IndexMod == 2^16

\* put_index & mask selects a slot, so size has to be a power of two.
ASSUME DataQueueAssumption ==
    /\ Isr \notin Thread
    /\ QueueSize \in 1 .. IndexMod \div 2 /\ \E k \in 0..15 : QueueSize = 2^k
    /\ Lwm \in 0 .. QueueSize - 1
    /\ StartIndices \subseteq 0 .. IndexMod - 1

VARIABLES
    put_index, get_index,
    slot,           \* the items of queue->queue, numbered as they were pushed
    waiting_lwm,
    push_list, pop_list,    \* suspended_push_list and suspended_pop_list
    state,          \* of a thread: in which call it waits, or has been resumed
    error,          \* thread->error is -RT_ERROR
    timed,          \* the thread's call has a positive timeout
    masked,         \* interrupts stay disabled: who runs on, or "no"
    corrupt,        \* rt_data_queue_reset has written through the list head
    \* History: no code reads or writes what follows.
    accepted,       \* how many items have been pushed
    delivered,      \* the items popped, in order
    crowded         \* two threads have waited to push at the same time

queue        == <<put_index, get_index, slot, waiting_lwm>>
queueThreads == <<push_list, pop_list, state, error, timed>>
queueHistory == <<accepted, delivered, crowded>>
queueVars    == <<queue, queueThreads, masked, corrupt, queueHistory>>

Context == Thread \cup {Isr}
NoItem  == 0

QueueInit ==
    /\ put_index \in StartIndices /\ get_index = put_index
    /\ slot = [i \in 0 .. QueueSize - 1 |-> NoItem]
    /\ waiting_lwm = FALSE
    /\ push_list = <<>> /\ pop_list = <<>>
    /\ state = [t \in Thread |-> "run"]
    /\ error = [t \in Thread |-> FALSE]
    /\ timed = [t \in Thread |-> FALSE]
    /\ masked = "no" /\ corrupt = FALSE
    /\ accepted = 0 /\ delivered = <<>> /\ crowded = FALSE
-----------------------------------------------------------------------------
\* Both operands of put_index - get_index are promoted to int: no wrap.
Used == put_index - get_index

\* Mutants: one item too many, and the indices compared as if they never wrapped.
FullLate     == Used > QueueSize
EmptyByOrder == put_index <= get_index

QueueFull  == Used = QueueSize
QueueEmpty == get_index = put_index

\* Whether a pop that leaves this many items resumes a pusher.
Lowered(left) == waiting_lwm /\ left <= Lwm

\* index & mask
SlotOf(index) == index % QueueSize

NextIndex(index) == (index + 1) % IndexMod

\* A thread holds the scheduler while it resets the queue.
Resetting == {t \in Thread : state[t] \in {"resetpop", "takepop", "resetpush", "takepush"}}

\* Who may start or continue a section: an interrupt handler at any time, a
\* thread unless another one holds the scheduler; with interrupts left
\* disabled, only whoever is running.
CanRun(c) ==
    /\ ~corrupt
    /\ masked \in {"no", c}
    /\ Resetting \ {c} = {} \/ c = Isr

\* The kernel: suspend the calling thread at the end of a list ...
Suspend(t, where, timeout) ==
    /\ state' = [state EXCEPT ![t] = where]
    /\ error' = [error EXCEPT ![t] = FALSE]
    /\ timed' = [timed EXCEPT ![t] = (timeout = "timed")]

\* ... and make a waiting thread ready, which also stops its timer.
ReadyState(t) == IF state[t] = "pushwait" THEN "pushready" ELSE "popready"

\* A call that returns leaves nothing of itself.
Returned(c) == [t \in Thread |-> IF t = c THEN "run" ELSE state[t]]

\* RT_DEBUG_NOT_IN_INTERRUPT: an interrupt handler does not wait.
MayCall(c, timeout) == IF c = Isr THEN timeout = "none" ELSE state[c] = "run"
-----------------------------------------------------------------------------
(* rt_data_queue_push: the section from the test for room on, entered by a *)
(* new call and again by a resumed one.                                    *)

PushFull(c, timeout) ==
    /\ QueueFull
    /\ waiting_lwm' = TRUE
    /\ UNCHANGED <<put_index, get_index, slot, masked, corrupt, accepted, delivered, pop_list>>
    /\ \/ /\ timeout = "none"
          /\ state' = Returned(c)
          /\ UNCHANGED <<push_list, error, timed, crowded>>
       \/ /\ timeout # "none"
          /\ Suspend(c, "pushwait", timeout)
          /\ push_list' = Append(push_list, c)
          /\ crowded' = (crowded \/ push_list # <<>>)

PushRoom(c) ==
    /\ ~QueueFull
    /\ slot' = [slot EXCEPT ![SlotOf(put_index)] = accepted + 1]
    /\ put_index' = NextIndex(put_index)
    /\ accepted' = accepted + 1
    /\ UNCHANGED <<get_index, waiting_lwm, push_list, error, timed, masked, corrupt, delivered, crowded>>
    /\ \/ /\ pop_list # <<>>
          /\ state' = [Returned(c) EXCEPT ![Head(pop_list)] = ReadyState(Head(pop_list))]
          /\ pop_list' = Tail(pop_list)
       \/ /\ pop_list = <<>>
          /\ state' = Returned(c)
          /\ UNCHANGED pop_list

PushSection(c, timeout) == PushFull(c, timeout) \/ PushRoom(c)

rt_data_queue_push(c, timeout) ==
    /\ CanRun(c) /\ accepted < MaxItems
    /\ MayCall(c, timeout)
    /\ PushSection(c, timeout)

\* After rt_schedule: leave with the error, or test again with the timer anew.
PushResumed(t) ==
    /\ CanRun(t) /\ state[t] = "pushready"
    /\ \/ /\ error[t] /\ state' = Returned(t)
          /\ UNCHANGED <<queue, push_list, pop_list, error, timed, masked, corrupt, queueHistory>>
       \/ ~error[t] /\ PushSection(t, IF timed[t] THEN "timed" ELSE "forever")
-----------------------------------------------------------------------------
(* rt_data_queue_pop.                                                      *)

PopEmpty(c, timeout) ==
    /\ QueueEmpty
    /\ UNCHANGED <<queue, push_list, masked, corrupt, queueHistory>>
    /\ \/ /\ timeout = "none"
          /\ state' = Returned(c)
          /\ UNCHANGED <<pop_list, error, timed>>
       \/ /\ timeout # "none"
          /\ Suspend(c, "popwait", timeout)
          /\ pop_list' = Append(pop_list, c)

\* Whoever the processor returns to when c leaves interrupts disabled.
RunsOn(c) == IF c # Isr THEN {c}
             ELSE {Isr} \cup {t \in Thread : state[t] \notin {"pushwait", "popwait"}}

\* The branch taken at the low water mark resumes one pusher; when none is
\* suspended it returns without enabling interrupts.
PopItem(c) ==
    LET item   == slot[SlotOf(get_index)]
        left   == put_index - NextIndex(get_index)
        lowered == Lowered(left)
    IN
    /\ ~QueueEmpty
    /\ get_index' = NextIndex(get_index)
    /\ delivered' = Append(delivered, item)
    /\ waiting_lwm' = (waiting_lwm /\ ~lowered)
    /\ UNCHANGED <<put_index, slot, pop_list, error, timed, corrupt, accepted, crowded>>
    /\ \/ /\ lowered /\ push_list # <<>>
          /\ state' = [Returned(c) EXCEPT ![Head(push_list)] = ReadyState(Head(push_list))]
          /\ push_list' = Tail(push_list)
          /\ UNCHANGED masked
       \/ /\ lowered /\ push_list = <<>>
          /\ masked' \in (IF masked = "no" THEN RunsOn(c) ELSE {masked})
          /\ state' = Returned(c)
          /\ UNCHANGED push_list
       \/ /\ ~lowered
          /\ state' = Returned(c)
          /\ UNCHANGED <<push_list, masked>>

PopSection(c, timeout) == PopEmpty(c, timeout) \/ PopItem(c)

rt_data_queue_pop(c, timeout) ==
    /\ CanRun(c)
    /\ MayCall(c, timeout)
    /\ PopSection(c, timeout)

PopResumed(t) ==
    /\ CanRun(t) /\ state[t] = "popready"
    /\ \/ /\ error[t] /\ state' = Returned(t)
          /\ UNCHANGED <<queue, push_list, pop_list, error, timed, masked, corrupt, queueHistory>>
       \/ ~error[t] /\ PopSection(t, IF timed[t] THEN "timed" ELSE "forever")
-----------------------------------------------------------------------------
\* The kernel's thread timer: take the thread off its list, with an error.
Without(list, t) == RemoveFirst(list, t)

Timeout(t) ==
    /\ ~corrupt /\ masked = "no"
    /\ timed[t] /\ state[t] \in {"pushwait", "popwait"}
    /\ state' = [state EXCEPT ![t] = ReadyState(t)]
    /\ error' = [error EXCEPT ![t] = TRUE]
    /\ push_list' = Without(push_list, t) /\ pop_list' = Without(pop_list, t)
    /\ UNCHANGED <<queue, timed, masked, corrupt, queueHistory>>
-----------------------------------------------------------------------------
(* rt_data_queue_reset: the test for a waiting thread is made with         *)
(* interrupts enabled, the thread is taken in a section of its own.        *)

rt_data_queue_reset(t) ==
    /\ CanRun(t) /\ state[t] = "run"
    /\ state' = [state EXCEPT ![t] = "resetpop"]
    /\ UNCHANGED <<queue, push_list, pop_list, error, timed, masked, corrupt, queueHistory>>

ResetTest(t, from, list, take, done) ==
    /\ CanRun(t) /\ state[t] = from
    /\ state' = [state EXCEPT ![t] = IF list # <<>> THEN take ELSE done]
    /\ UNCHANGED <<queue, push_list, pop_list, error, timed, masked, corrupt, queueHistory>>

\* Mutant: the thread gets the error but is not resumed.
WakeErrorOnly(t, first, from) ==
    /\ state' = [state EXCEPT ![t] = from]
    /\ error' = [error EXCEPT ![first] = TRUE]

Wake(t, first, from) ==
    /\ state' = [state EXCEPT ![first] = ReadyState(first), ![t] = from]
    /\ error' = [error EXCEPT ![first] = TRUE]

ResetTake(t, from, list, take) ==
    /\ CanRun(t) /\ state[t] = take
    /\ UNCHANGED <<queue, timed, masked, queueHistory>>
    /\ \/ /\ list # <<>>
          /\ Wake(t, Head(list), from)
          /\ push_list' = Without(push_list, Head(list))
          /\ pop_list' = Without(pop_list, Head(list))
          /\ UNCHANGED corrupt
       \/ /\ list = <<>>
          /\ corrupt' = TRUE
          /\ UNCHANGED <<push_list, pop_list, state, error>>
-----------------------------------------------------------------------------
TimeoutArg == {"none", "timed", "forever"}

QueueNext ==
    \/ \E c \in Context, timeout \in TimeoutArg :
          rt_data_queue_push(c, timeout) \/ rt_data_queue_pop(c, timeout)
    \/ \E t \in Thread :
          \/ PushResumed(t) \/ PopResumed(t) \/ Timeout(t)
          \/ rt_data_queue_reset(t)
          \/ ResetTest(t, "resetpop", pop_list, "takepop", "resetpush")
          \/ ResetTake(t, "resetpop", pop_list, "takepop")
          \/ ResetTest(t, "resetpush", push_list, "takepush", "run")
          \/ ResetTake(t, "resetpush", push_list, "takepush")

QueueSpec == QueueInit /\ [][QueueNext]_queueVars
-----------------------------------------------------------------------------
States == {"run", "pushwait", "pushready", "popwait", "popready",
           "resetpop", "takepop", "resetpush", "takepush"}

WaitingIn(list, where) ==
    /\ \A i, j \in DOMAIN list : i # j => list[i] # list[j]
    /\ {list[i] : i \in DOMAIN list} = {t \in Thread : state[t] = where}

\* A thread is on a list exactly while it is suspended in the call of the list.
QueueTypeOK ==
    /\ put_index \in 0 .. IndexMod - 1 /\ get_index \in 0 .. IndexMod - 1
    /\ slot \in [0 .. QueueSize - 1 -> 0 .. accepted]
    /\ waiting_lwm \in BOOLEAN /\ corrupt \in BOOLEAN
    /\ masked \in Context \cup {"no"}
    /\ state \in [Thread -> States]
    /\ error \in [Thread -> BOOLEAN] /\ timed \in [Thread -> BOOLEAN]
    /\ WaitingIn(push_list, "pushwait") /\ WaitingIn(pop_list, "popwait")

\* put_index, which is accepted pushes ahead of where it started, has not wrapped.
BeforeWrap == accepted <= put_index

InOrder ==
    /\ delivered = [i \in 1 .. Len(delivered) |-> i]
    /\ accepted - Len(delivered) = Used
    /\ Used <= QueueSize
    /\ \A k \in 1 .. Used : slot[SlotOf(get_index + k - 1)] = Len(delivered) + k

\* Until put_index wraps, items leave in the order they came, each once; those that
\* have not left are in their slots, never more than QueueSize of them
\* (dataqueue.c:79-124, 216-219).
ItemsInOrder == BeforeWrap => InOrder

\* Threads that have been resumed to pop and have not run yet.
ComingToPop == {t \in Thread : state[t] = "popready" /\ ~error[t]}

\* How many items pop will still find, the indices being the 16 bits they are: also
\* when put_index has wrapped and get_index has not, and Used is negative.
Held == (put_index - get_index) % IndexMod

\* No popper sleeps beside an item: while one is suspended, every item is matched by
\* another popper that has been resumed, also behind a wrap (dataqueue.c:126-137, 175).
NoSleepingPopper == pop_list # <<>> => Held <= Cardinality(ComingToPop)

\* The producer is not forgotten: as long as put_index has not wrapped and no two
\* threads have waited to push together, one waits only above the low water mark
\* (dataqueue.c:221-239).
PusherWoken == BeforeWrap /\ ~crowded /\ push_list # <<>> => waiting_lwm /\ Used > Lwm

\* Neither side sleeps for nothing: no wake-up of the queue is lost, be it of a thread
\* that finds another one has been faster, and for a popper also between the wraps of
\* the two indices and when pushers overrun it there (dataqueue.c:117, 126, 238).
NoWakeUpLost == NoSleepingPopper /\ PusherWoken

\* "there is at least one thread in suspended list" (dataqueue.c:227): the low
\* water branch of pop always finds a thread to resume, and so every call leaves
\* interrupts as it found them.
InterruptsRestored == masked = "no"

\* "queue is full" (dataqueue.c:83): a push that finds QueueSize items in the queue
\* does not overwrite one of them.
NeverOverrun == accepted - Len(delivered) <= QueueSize
=============================================================================
