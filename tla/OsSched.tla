------------------------------- MODULE OsSched -------------------------------
(***************************************************************************)
(* The scheduler of main/os.c: the SysTick interrupt runs the foreground   *)
(* task tables (OS_FG_Update) and the endless loop of main runs the        *)
(* background tables (OS_BG_Update), driven by a flag the interrupt sets.  *)
(*                                                                         *)
(* The interrupt may arrive between any two steps of the background loop,  *)
(* in particular between the load and the store of the byte Pit_Flags when *)
(* the loop writes one of its bit fields.                                  *)
(***************************************************************************)
EXTENDS OsTime

CONSTANTS
    TaskCount,  \* how many tasks are registered for each period
    Delays      \* the arguments background tasks pass to mdelay, in ticks

Period == {1, 4, 8, 16}

ASSUME OsAssumption ==
    /\ TaskCount \in [Period -> Nat]
    /\ Delays \subseteq 1 .. (TimeMod \div 2) - 1   \* mdelay takes an int

Task(p) == 0 .. TaskCount[p] - 1

VARIABLES
    LoopFlag, LoopOverFlag,     \* the bits of Pit_Flags
    held,           \* the other bit, loaded by an unfinished write of one of them
    fg_loop,        \* the counters loop_4ms, loop_8ms, loop_16ms of OS_FG_Update
    bg_loop,        \* and those of OS_BG_Update
    pc,             \* where the background loop is
    deadline,       \* of the mdelay a background task is in
    \* History: no code reads or writes what follows.
    fg_age, bg_age, \* ticks since a task ran, or since the start
    fg_seen, bg_seen,   \* the tasks that have run
    fresh,          \* a tick has occurred that no 1ms table has started after
    overrun,        \* a tick has occurred while the tables of another one ran
    waited, asked   \* how long the mdelay has taken, and how long it was to take

flags   == <<LoopFlag, LoopOverFlag, held>>
fg      == <<fg_loop, fg_age, fg_seen>>
bg      == <<bg_loop, bg_age, bg_seen>>
delayed == <<deadline, waited, asked>>
vars    == <<jiffies, flags, fg, bg, pc, delayed, fresh, overrun>>

\* OS_Init runs with interrupts disabled and leaves the counters at zero.
Init ==
    /\ time_Init
    /\ LoopFlag = FALSE /\ LoopOverFlag = FALSE /\ held = FALSE
    /\ fg_loop = [p \in Period |-> 0] /\ bg_loop = [p \in Period |-> 0]
    /\ pc = "bg"
    /\ deadline = 0
    /\ fg_age = [p \in Period |-> [t \in Task(p) |-> 0]] /\ bg_age = fg_age
    /\ fg_seen = [p \in Period |-> {}] /\ bg_seen = [p \in Period |-> {}]
    /\ fresh = FALSE /\ overrun = FALSE
    /\ waited = 0 /\ asked = 0
-----------------------------------------------------------------------------
\* Mutants: the counter is reset one tick late, and one tick early.
StepLoopLate(loop, p)  == IF loop = p THEN 0 ELSE loop + 1
StepLoopEarly(loop, p) == IF loop + 1 >= p - 1 THEN 0 ELSE loop + 1

\* The counter of a table goes from 0 to p - 1 and starts again.
StepLoop(loop, p) == IF loop + 1 = p THEN 0 ELSE loop + 1

\* Mutant: the loop over a table has no stride.
SlotsOne(loop, p) == {t \in Task(p) : t = loop}

\* The tasks the loop over a table calls: from the counter, every p entries.
Slots(loop, p) == {t \in Task(p) : t >= loop /\ (t - loop) % p = 0}

Aged(age, p, ran) == [t \in Task(p) |-> IF t \in ran THEN 0 ELSE age[t] + 1]

\* The history of mdelay: ticks since it was called, as far as they matter.
Elapse == waited' = IF pc = "delay" /\ waited < asked THEN waited + 1 ELSE waited
-----------------------------------------------------------------------------
(* The interrupt.                                                          *)

OS_FG_Update ==
    /\ time_isr
    /\ LoopFlag' = TRUE
    /\ fg_loop' = [p \in Period |-> StepLoop(fg_loop[p], p)]
    /\ fg_age' = [p \in Period |-> Aged(fg_age[p], p, Slots(fg_loop'[p], p))]
    /\ fg_seen' = [p \in Period |-> fg_seen[p] \cup Slots(fg_loop'[p], p)]
    /\ fresh' = TRUE
    /\ overrun' = (overrun \/ pc \in {"table1", "table4", "table8", "table16", "overtest"})
    /\ Elapse
    /\ UNCHANGED <<LoopOverFlag, held, bg, pc, deadline, asked>>

SysTick_Handler == OS_FG_Update
-----------------------------------------------------------------------------
(* The background loop.                                                    *)

Goto(from, to) == pc = from /\ pc' = to

\* The os_bg tasks, which may wait with mdelay.
RunBg ==
    /\ Goto("bg", "test")
    /\ UNCHANGED <<jiffies, flags, fg, bg, delayed, fresh, overrun>>

mdelay(ms) ==
    /\ Goto("bg", "delay")
    /\ deadline' = time_get(ms)
    /\ asked' = ms /\ waited' = 0
    /\ UNCHANGED <<jiffies, flags, fg, bg, fresh, overrun>>

EndDelay ==
    /\ ~(time_left(deadline) > 0)
    /\ Goto("delay", "bg")
    /\ deadline' = 0 /\ asked' = 0 /\ waited' = 0
    /\ UNCHANGED <<jiffies, flags, fg, bg, fresh, overrun>>

\* Mutant: after an overrun the tables wait until somebody clears its flag.
TestLoopFlagNoOver ==
    /\ pc = "test"
    /\ pc' = IF LoopFlag /\ ~LoopOverFlag THEN "clearload" ELSE "bg"
    /\ UNCHANGED <<jiffies, flags, fg, bg, delayed, fresh, overrun>>

TestLoopFlag ==
    /\ pc = "test"
    /\ pc' = IF LoopFlag THEN "clearload" ELSE "bg"
    /\ UNCHANGED <<jiffies, flags, fg, bg, delayed, fresh, overrun>>

\* Time1msLoopFlag = 0: load the byte, then store it with the bit cleared.
ClearLoad ==
    /\ Goto("clearload", "clearstore")
    /\ held' = LoopOverFlag
    /\ UNCHANGED <<jiffies, LoopFlag, LoopOverFlag, fg, bg, delayed, fresh, overrun>>

ClearStore ==
    /\ Goto("clearstore", "table1")
    /\ LoopFlag' = FALSE /\ LoopOverFlag' = held /\ held' = FALSE
    /\ fresh' = FALSE
    /\ UNCHANGED <<jiffies, fg, bg, delayed, overrun>>

RunTable(p, from, to) ==
    LET loop == StepLoop(bg_loop[p], p) IN
    /\ Goto(from, to)
    /\ bg_loop' = [bg_loop EXCEPT ![p] = loop]
    /\ bg_age' = [bg_age EXCEPT ![p] = Aged(@, p, Slots(loop, p))]
    /\ bg_seen' = [bg_seen EXCEPT ![p] = @ \cup Slots(loop, p)]
    /\ UNCHANGED <<jiffies, flags, fg, delayed, fresh, overrun>>

\* Mutant: the test of the flag is forgotten.
TestOverrunAlways ==
    /\ Goto("overtest", "overload")
    /\ UNCHANGED <<jiffies, flags, fg, bg, delayed, fresh, overrun>>

TestOverrun ==
    /\ pc = "overtest"
    /\ pc' = IF LoopFlag THEN "overload" ELSE "bg"
    /\ UNCHANGED <<jiffies, flags, fg, bg, delayed, fresh, overrun>>

\* Time1msLoopOverFlag = 1, again a load and a store of the whole byte.
OverLoad ==
    /\ Goto("overload", "overstore")
    /\ held' = LoopFlag
    /\ UNCHANGED <<jiffies, LoopFlag, LoopOverFlag, fg, bg, delayed, fresh, overrun>>

\* Mutant: the whole byte is assigned.
OverStoreByte ==
    /\ Goto("overstore", "bg")
    /\ LoopFlag' = FALSE /\ LoopOverFlag' = TRUE /\ held' = FALSE
    /\ UNCHANGED <<jiffies, fg, bg, delayed, fresh, overrun>>

OverStore ==
    /\ Goto("overstore", "bg")
    /\ LoopFlag' = held /\ LoopOverFlag' = TRUE /\ held' = FALSE
    /\ UNCHANGED <<jiffies, fg, bg, delayed, fresh, overrun>>

OS_BG_Update ==
    \/ RunBg
    \/ \E ms \in Delays : mdelay(ms)
    \/ EndDelay
    \/ TestLoopFlag \/ ClearLoad \/ ClearStore
    \/ RunTable(1, "table1", "table4")
    \/ RunTable(4, "table4", "table8")
    \/ RunTable(8, "table8", "table16")
    \/ RunTable(16, "table16", "overtest")
    \/ TestOverrun \/ OverLoad \/ OverStore

Next == SysTick_Handler \/ OS_BG_Update

\* The timer never stops, and main never stops calling OS_BG_Update.  The os_bg
\* tasks return at last, however often they call mdelay, and the polling loop of
\* mdelay is so much faster than the clock that it does not miss, each time the
\* clock goes around, all the values at which it may end.
Fairness ==
    /\ WF_vars(SysTick_Handler)
    /\ WF_vars(OS_BG_Update)
    /\ SF_vars(RunBg)
    /\ SF_vars(EndDelay)

Spec == Init /\ [][Next]_vars /\ Fairness
-----------------------------------------------------------------------------
Place == {"bg", "delay", "test", "clearload", "clearstore", "table1", "table4",
          "table8", "table16", "overtest", "overload", "overstore"}

TypeOK ==
    /\ jiffies \in Time
    /\ LoopFlag \in BOOLEAN /\ LoopOverFlag \in BOOLEAN /\ held \in BOOLEAN
    /\ pc \in Place
    /\ \A p \in Period : fg_loop[p] \in 0 .. p - 1 /\ bg_loop[p] \in 0 .. p - 1
    /\ DOMAIN fg_loop = Period /\ DOMAIN bg_loop = Period
    /\ deadline \in Time
    /\ fresh \in BOOLEAN /\ overrun \in BOOLEAN

\* A tick is never forgotten: until a 1ms table has started after it, the flag
\* is set or the loop has already decided to run the tables, even when the
\* interrupt falls between the load and the store that clear the flag.
NoTickForgotten == fresh => LoopFlag \/ pc \in {"clearload", "clearstore"}

\* The over flag tells the truth at the end of a pass: it is set if and only if
\* a tick has arrived while the tables of another one ran.
OverFlagExact == pc \in {"bg", "delay", "test", "clearload"} => (LoopOverFlag <=> overrun)

\* The counters of the foreground tables are the phases of jiffies, so that a
\* task of period p runs at a fixed residue of jiffies, across its wrap too.
FgPhase == \A p \in Period : fg_loop[p] = jiffies % p

\* No task waits longer than its period, counted in the ticks its side handles.
EveryPeriod ==
    \A p \in Period : \A t \in Task(p) : fg_age[p][t] < p /\ bg_age[p][t] < p

\* No task runs again before its period is over.
NotEarly(age, seen) ==
    \A p \in Period : \A t \in Task(p) :
        t \in seen[p] /\ age[p][t] # p - 1 => age'[p][t] # 0 \/ age'[p] = age[p]
NeverEarly == [][NotEarly(fg_age, fg_seen) /\ NotEarly(bg_age, bg_seen)]_vars

\* The background tables of one tick are run together: outside a pass their
\* counters agree, so that an 8ms slot always falls on the same 4ms slot.
InStep ==
    pc \notin {"table8", "table16"} =>
        /\ bg_loop[4] = bg_loop[8] % 4
        /\ bg_loop[8] = bg_loop[16] % 8

\* A delay whose deadline does not lie past the wrap of the clock lasts at
\* least as long as it was asked to.
DelayIsFull == [][EndDelay /\ deadline >= asked => waited >= asked]_vars

\* Every tick is followed by a run of the 1ms tasks.
EveryTickServed == fresh ~> ~fresh
=============================================================================
