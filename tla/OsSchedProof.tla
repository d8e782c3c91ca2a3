---------------------------- MODULE OsSchedProof ----------------------------
(***************************************************************************)
(* Proofs about OsSched, for every width of the clock, every number of     *)
(* tasks and every set of delays: no tick is forgotten, the over flag is   *)
(* exact, the foreground counters are the phases of jiffies, the           *)
(* background counters stay in step, every task runs once in its period    *)
(* and not before, and no delay is too short.  And proofs about Alarm, for *)
(* every set of alarms and every length of the day: the device of the      *)
(* clock is set to the alarm that the service remembers.                   *)
(***************************************************************************)
EXTENDS MCClock, SequenceTheorems, WellFoundedInduction, TLAPS

\* The variables with a type the arguments need.
Types ==
    /\ jiffies \in Time
    /\ LoopFlag \in BOOLEAN /\ LoopOverFlag \in BOOLEAN /\ held \in BOOLEAN
    /\ fresh \in BOOLEAN /\ overrun \in BOOLEAN
    /\ pc \in Place

Tables == {"table1", "table4", "table8", "table16", "overtest"}

\* What the flag, the over flag and the register say in the middle of a pass.
Pass ==
    /\ pc = "clearstore" => (held <=> overrun)
    /\ pc \in {"bg", "delay", "test", "clearload", "clearstore"} => (LoopOverFlag <=> overrun)
    /\ pc \in Tables => (LoopFlag => overrun) /\ (LoopOverFlag => overrun)
                        /\ (overrun => LoopOverFlag \/ LoopFlag)
    /\ pc \in {"overload", "overstore"} => overrun /\ LoopFlag
    /\ pc = "overstore" => held

\* The inductive invariant about the flags.
FlagInv == Types /\ NoTickForgotten /\ Pass

\* Unsigned addition of one.
LEMMA TickTime ==
    ASSUME NEW j \in Time
    PROVE  /\ Unsigned(j + 1) = IF j + 1 = TimeMod THEN 0 ELSE j + 1
           /\ Unsigned(j + 1) \in Time
  <1>1. TimeMod \in Int /\ TimeMod > 0 /\ j \in Int /\ 0 <= j /\ j < TimeMod
    BY TimeAssumption DEF Time
  <1>2. CASE j + 1 = TimeMod
    <2>1. Unsigned(j + 1) = 0
      BY <1>1, <1>2 DEF Unsigned
    <2>2. QED
      BY <1>1, <1>2, <2>1 DEF Time
  <1>3. CASE j + 1 # TimeMod
    <2>1. Unsigned(j + 1) = j + 1
      BY <1>1, <1>3 DEF Unsigned
    <2>2. QED
      BY <1>1, <1>3, <2>1 DEF Time
  <1>4. QED
    BY <1>2, <1>3

\* The invariant about the flags holds initially.
LEMMA FlagInit == Init => FlagInv
  <1>1. 0 \in Time
    BY TimeAssumption DEF Time
  <1>2. QED
    BY <1>1 DEF Init, time_Init, FlagInv, Types, Place, Pass, Tables, NoTickForgotten

\* Every step keeps it, wherever the interrupt falls.
LEMMA FlagNext == FlagInv /\ [Next]_vars => FlagInv'
  <1> SUFFICES ASSUME FlagInv, [Next]_vars
               PROVE  FlagInv'
    OBVIOUS
  <1> USE DEF FlagInv, Types, Place, Pass, Tables, NoTickForgotten
  <1>1. CASE SysTick_Handler
    <2>1. jiffies' \in Time
      BY <1>1, TickTime DEF SysTick_Handler, OS_FG_Update, time_isr
    <2>2. QED
      BY <1>1, <2>1 DEF SysTick_Handler, OS_FG_Update
  <1>2. CASE RunBg
    BY <1>2 DEF RunBg, Goto, flags
  <1>3. ASSUME NEW ms \in Delays, mdelay(ms)
        PROVE  FlagInv'
    BY <1>3 DEF mdelay, Goto, flags
  <1>4. CASE EndDelay
    BY <1>4 DEF EndDelay, Goto, flags
  <1>5. CASE TestLoopFlag
    BY <1>5 DEF TestLoopFlag, flags
  <1>6. CASE ClearLoad
    BY <1>6 DEF ClearLoad, Goto
  <1>7. CASE ClearStore
    BY <1>7 DEF ClearStore, Goto
  <1>8. CASE RunTable(1, "table1", "table4")
    BY <1>8 DEF RunTable, Goto, flags
  <1>9. CASE RunTable(4, "table4", "table8")
    BY <1>9 DEF RunTable, Goto, flags
  <1>10. CASE RunTable(8, "table8", "table16")
    BY <1>10 DEF RunTable, Goto, flags
  <1>11. CASE RunTable(16, "table16", "overtest")
    BY <1>11 DEF RunTable, Goto, flags
  <1>12. CASE TestOverrun
    BY <1>12 DEF TestOverrun, flags
  <1>13. CASE OverLoad
    BY <1>13 DEF OverLoad, Goto
  <1>14. CASE OverStore
    BY <1>14 DEF OverStore, Goto
  <1>15. CASE UNCHANGED vars
    BY <1>15 DEF vars, flags
  <1>16. QED
    BY <1>1, <1>2, <1>3, <1>4, <1>5, <1>6, <1>7, <1>8, <1>9, <1>10, <1>11, <1>12,
       <1>13, <1>14, <1>15
       DEF Next, OS_BG_Update

\* No tick is forgotten, although the flag is cleared by an unprotected
\* read-modify-write.
THEOREM OsNoTickForgotten == Spec => []NoTickForgotten
  <1>1. FlagInv => NoTickForgotten
    BY DEF FlagInv
  <1>2. QED
    BY <1>1, FlagInit, FlagNext, PTL DEF Spec

\* The over flag is set at the end of a pass exactly when a tick came during one.
THEOREM OsOverFlagExact == Spec => []OverFlagExact
  <1>1. FlagInv => OverFlagExact
    BY DEF FlagInv, Pass, OverFlagExact
  <1>2. QED
    BY <1>1, FlagInit, FlagNext, PTL DEF Spec
-----------------------------------------------------------------------------
(* The counters of the task tables.                                        *)

\* One step of the counter of period p is one tick, modulo p.
LEMMA StepIsTick ==
    ASSUME NEW p \in Period, NEW n \in Nat
    PROVE  /\ StepLoop(n % p, p) = (n + 1) % p
           /\ n % p \in 0 .. p - 1
  <1>1. CASE p = 1
    BY <1>1 DEF StepLoop
  <1>2. CASE p = 4
    BY <1>2 DEF StepLoop
  <1>3. CASE p = 8
    BY <1>3 DEF StepLoop
  <1>4. CASE p = 16
    BY <1>4 DEF StepLoop
  <1>5. QED
    BY <1>1, <1>2, <1>3, <1>4 DEF Period

\* Every period divides the modulus of the clock: its wrap is not felt.
LEMMA WrapIsEven ==
    ASSUME NEW p \in Period
    PROVE  TimeMod % p = 0
  <1>1. TimeMod \in Nat /\ TimeMod % 16 = 0
    BY TimeAssumption
  <1>2. CASE p = 1
    BY <1>1, <1>2
  <1>3. CASE p = 4
    BY <1>1, <1>3
  <1>4. CASE p = 8
    BY <1>1, <1>4
  <1>5. CASE p = 16
    BY <1>1, <1>5
  <1>6. QED
    BY <1>2, <1>3, <1>4, <1>5 DEF Period

\* The foreground counters are in phase.
FgInv == jiffies \in Time /\ FgPhase

\* They start in phase.
LEMMA FgInit == Init => FgInv
  <1>1. 0 \in Time
    BY TimeAssumption DEF Time
  <1>2. \A p \in Period : 0 % p = 0
    BY DEF Period
  <1>3. QED
    BY <1>1, <1>2 DEF Init, time_Init, FgInv, FgPhase

\* Every tick moves both, nothing else moves either.
LEMMA FgNext == FgInv /\ [Next]_vars => FgInv'
  <1> SUFFICES ASSUME FgInv, [Next]_vars
               PROVE  FgInv'
    OBVIOUS
  <1>1. CASE SysTick_Handler
    <2>1. /\ jiffies' = Unsigned(jiffies + 1)
          /\ fg_loop' = [p \in Period |-> StepLoop(fg_loop[p], p)]
          /\ jiffies \in Time
      BY <1>1 DEF SysTick_Handler, OS_FG_Update, time_isr, FgInv
    <2>2. jiffies' \in Time
      BY <2>1, TickTime
    <2>3. ASSUME NEW p \in Period
          PROVE  fg_loop'[p] = jiffies' % p
      <3>1. jiffies \in Nat /\ jiffies' = IF jiffies + 1 = TimeMod THEN 0 ELSE jiffies + 1
        BY <2>1, TickTime, TimeAssumption DEF Time
      <3>2. fg_loop'[p] = (jiffies + 1) % p
        BY <2>1, <3>1, StepIsTick DEF FgInv, FgPhase
      <3>3. 0 % p = 0
        BY DEF Period
      <3>4. QED
        BY <3>1, <3>2, <3>3, WrapIsEven
    <2>4. QED
      BY <2>2, <2>3 DEF FgInv, FgPhase
  <1>2. CASE OS_BG_Update
    <2>1. UNCHANGED <<jiffies, fg_loop>>
      BY <1>2 DEF OS_BG_Update, RunBg, mdelay, EndDelay, TestLoopFlag, ClearLoad, ClearStore,
                  RunTable, TestOverrun, OverLoad, OverStore, fg
    <2>2. QED
      BY <2>1 DEF FgInv, FgPhase
  <1>3. CASE UNCHANGED vars
    BY <1>3 DEF vars, fg, FgInv, FgPhase
  <1>4. QED
    BY <1>1, <1>2, <1>3 DEF Next

\* The foreground counters are the phases of jiffies, across its wrap too.
THEOREM OsFgPhase == Spec => []FgPhase
  <1>1. FgInv => FgPhase
    BY DEF FgInv
  <1>2. QED
    BY <1>1, FgInit, FgNext, PTL DEF Spec

\* In the middle of a pass, a counter that has been stepped is one ahead of
\* those that have not.
BgInv ==
    /\ \A p \in Period : bg_loop[p] \in 0 .. p - 1
    /\ DOMAIN bg_loop = Period
    /\ InStep
    /\ pc = "table8" => bg_loop[4] = (bg_loop[8] + 1) % 4 /\ bg_loop[8] = bg_loop[16] % 8
    /\ pc = "table16" => bg_loop[4] = bg_loop[8] % 4 /\ bg_loop[8] = (bg_loop[16] + 1) % 8

\* The background counters start in step.
LEMMA BgInit == Init => BgInv
  BY DEF Init, BgInv, InStep, Period

\* Running the table of one period steps its counter only.
LEMMA TableStep ==
    ASSUME BgInv, NEW p \in Period, NEW from, NEW to, RunTable(p, from, to)
    PROVE  /\ bg_loop'[p] = StepLoop(bg_loop[p], p)
           /\ \A q \in Period \ {p} : bg_loop'[q] = bg_loop[q]
           /\ DOMAIN bg_loop' = Period
           /\ pc = from /\ pc' = to
  BY DEF BgInv, RunTable, Goto

\* Every step of the loop keeps them so.
LEMMA BgNext == BgInv /\ [Next]_vars => BgInv'
  <1> SUFFICES ASSUME BgInv, [Next]_vars
               PROVE  BgInv'
    OBVIOUS
  <1>1. /\ bg_loop[1] \in 0..0 /\ bg_loop[4] \in 0..3 /\ bg_loop[8] \in 0..7 /\ bg_loop[16] \in 0..15
        /\ 1 \in Period /\ 4 \in Period /\ 8 \in Period /\ 16 \in Period
    BY DEF BgInv, Period
  <1>2. CASE RunTable(1, "table1", "table4")
    <2>1. bg_loop'[1] = 0 /\ bg_loop'[4] = bg_loop[4] /\ bg_loop'[8] = bg_loop[8] /\ bg_loop'[16] = bg_loop[16]
      BY <1>1, <1>2, TableStep DEF StepLoop
    <2>2. QED
      BY <1>1, <1>2, <2>1, TableStep DEF BgInv, InStep, Period
  <1>3. CASE RunTable(4, "table4", "table8")
    <2>1. bg_loop'[4] = StepLoop(bg_loop[4], 4) /\ bg_loop'[1] = bg_loop[1] /\ bg_loop'[8] = bg_loop[8] /\ bg_loop'[16] = bg_loop[16]
      BY <1>1, <1>3, TableStep
    <2>2. bg_loop'[4] = (bg_loop[8] + 1) % 4 /\ bg_loop'[4] \in 0..3
      <3>1. bg_loop[8] \in Nat /\ bg_loop[4] = bg_loop[8] % 4
        BY <1>1, <1>3 DEF RunTable, Goto, BgInv, InStep
      <3>2. StepLoop(bg_loop[8] % 4, 4) = (bg_loop[8] + 1) % 4
        BY <1>1, <3>1, StepIsTick
      <3>3. QED
        BY <1>1, <2>1, <3>1, <3>2
    <2>3. QED
      BY <1>1, <1>3, <2>1, <2>2, TableStep DEF BgInv, InStep, Period
  <1>4. CASE RunTable(8, "table8", "table16")
    <2>1. bg_loop'[8] = StepLoop(bg_loop[8], 8) /\ bg_loop'[1] = bg_loop[1] /\ bg_loop'[4] = bg_loop[4] /\ bg_loop'[16] = bg_loop[16]
      BY <1>1, <1>4, TableStep
    <2>2. bg_loop[4] = (bg_loop[8] + 1) % 4 /\ bg_loop[8] = bg_loop[16] % 8
      BY <1>4 DEF RunTable, Goto, BgInv
    <2>3. bg_loop'[8] = (bg_loop[16] + 1) % 8 /\ bg_loop'[8] \in 0..7 /\ bg_loop'[4] = bg_loop'[8] % 4
      <3>1. bg_loop[16] \in Nat
        BY <1>1
      <3>2. bg_loop'[8] = (bg_loop[16] + 1) % 8
        BY <1>1, <2>1, <2>2, <3>1, StepIsTick
      <3>3. bg_loop'[8] = (bg_loop[8] + 1) % 8
        BY <1>1, <2>1 DEF StepLoop
      <3>4. QED
        BY <1>1, <2>1, <2>2, <3>2, <3>3
    <2>4. QED
      BY <1>1, <1>4, <2>1, <2>3, TableStep DEF BgInv, InStep, Period
  <1>5. CASE RunTable(16, "table16", "overtest")
    <2>1. bg_loop'[16] = StepLoop(bg_loop[16], 16) /\ bg_loop'[1] = bg_loop[1] /\ bg_loop'[4] = bg_loop[4] /\ bg_loop'[8] = bg_loop[8]
      BY <1>1, <1>5, TableStep
    <2>2. bg_loop[4] = bg_loop[8] % 4 /\ bg_loop[8] = (bg_loop[16] + 1) % 8
      BY <1>5 DEF RunTable, Goto, BgInv
    <2>3. bg_loop'[8] = bg_loop'[16] % 8 /\ bg_loop'[16] \in 0..15
      BY <1>1, <2>1, <2>2 DEF StepLoop
    <2>4. QED
      BY <1>1, <1>5, <2>1, <2>2, <2>3, TableStep DEF BgInv, InStep, Period
  <1>6. CASE SysTick_Handler \/ UNCHANGED vars
    BY <1>6 DEF SysTick_Handler, OS_FG_Update, vars, bg, BgInv, InStep
  <1>7. CASE \/ RunBg \/ EndDelay \/ TestLoopFlag \/ ClearLoad \/ ClearStore
             \/ TestOverrun \/ OverLoad \/ OverStore
             \/ \E ms \in Delays : mdelay(ms)
    <2>1. UNCHANGED bg_loop /\ pc \notin {"table8", "table16"} /\ pc' \notin {"table8", "table16"}
      BY <1>7 DEF RunBg, mdelay, EndDelay, TestLoopFlag, ClearLoad, ClearStore,
                  TestOverrun, OverLoad, OverStore, Goto, bg
    <2>2. QED
      BY <2>1 DEF BgInv, InStep
  <1>8. QED
    BY <1>2, <1>3, <1>4, <1>5, <1>6, <1>7 DEF Next, OS_BG_Update

\* The background tables of one tick are run together.
THEOREM OsInStep == Spec => []InStep
  <1>1. BgInv => InStep
    BY DEF BgInv
  <1>2. QED
    BY <1>1, BgInit, BgNext, PTL DEF Spec
-----------------------------------------------------------------------------
(* The ages of the tasks.                                                    *)

\* How long ago a task ran, from the counter of its table: it runs when the counter
\* is its index modulo the period.
Phase(age, hasRun, loop, t, p) ==
    LET r == t % p IN
    IF hasRun THEN age = IF loop >= r THEN loop - r ELSE loop - r + p
              ELSE age = loop /\ (r = 0 \/ loop < r)

Ages(age, seen, loop) ==
    /\ DOMAIN age = Period /\ DOMAIN seen = Period /\ DOMAIN loop = Period
    /\ \A p \in Period :
          /\ loop[p] \in 0 .. p - 1 /\ DOMAIN age[p] = Task(p) /\ seen[p] \subseteq Task(p)
          /\ \A t \in Task(p) : Phase(age[p][t], t \in seen[p], loop[p], t, p)

FgAges == Ages(fg_age, fg_seen, fg_loop)
BgAges == Ages(bg_age, bg_seen, bg_loop)

\* Tasks and periods are numbers.
LEMMA TaskFacts ==
    ASSUME NEW p \in Period, NEW t \in Task(p)
    PROVE  p \in Nat /\ p > 0 /\ t \in Nat /\ t % p \in 0 .. p - 1
  <1>1. p \in Nat /\ p > 0
    BY DEF Period
  <1>2. t \in Nat
    BY OsAssumption DEF Task
  <1>3. \A n \in Nat \ {0} : t % n \in 0 .. n - 1
    BY <1>2
  <1>4. QED
    BY <1>1, <1>2, <1>3

\* The stride of the loop over a table.
LEMMA SlotIsPhase ==
    ASSUME NEW p \in Period, NEW loop \in 0 .. p - 1, NEW t \in Task(p)
    PROVE  t \in Slots(loop, p) <=> t % p = loop
  <1>1. t \in Nat
    BY TaskFacts
  <1>2. t \in Slots(loop, p) <=> t >= loop /\ (t - loop) % p = 0
    BY DEF Slots
  <1>3. CASE p = 1
    BY <1>1, <1>2, <1>3
  <1>4. CASE p = 4
    BY <1>1, <1>2, <1>4
  <1>5. CASE p = 8
    BY <1>1, <1>2, <1>5
  <1>6. CASE p = 16
    BY <1>1, <1>2, <1>6
  <1>7. QED
    BY <1>3, <1>4, <1>5, <1>6 DEF Period

\* One task in one step of the counter of its table.
LEMMA PhaseStep ==
    ASSUME NEW p \in Nat, p > 0, NEW loop \in 0 .. p - 1, NEW t \in Nat, t % p \in 0 .. p - 1,
           NEW age, NEW hasRun \in BOOLEAN, Phase(age, hasRun, loop, t, p)
    PROVE  LET next == StepLoop(loop, p)
               runs == t % p = next
           IN  /\ next \in 0 .. p - 1
               /\ Phase(IF runs THEN 0 ELSE age + 1, hasRun \/ runs, next, t, p)
               /\ age \in Nat /\ age < p
               /\ runs /\ hasRun => age = p - 1
  <1> DEFINE next == StepLoop(loop, p)
             r == t % p
  <1>1. next = (IF loop + 1 = p THEN 0 ELSE loop + 1) /\ next \in 0 .. p - 1
    BY DEF StepLoop
  <1>2. /\ hasRun => age = IF loop >= r THEN loop - r ELSE loop - r + p
        /\ ~hasRun => age = loop /\ (r = 0 \/ loop < r)
    BY DEF Phase
  <1>3. r \in 0 .. p - 1
    OBVIOUS
  <1> HIDE DEF next, r
  <1>4. age \in Nat /\ age < p
    BY <1>2, <1>3
  <1>5. r = next /\ hasRun => age = p - 1
    BY <1>1, <1>2, <1>3
  <1>6. CASE r = next
    <2>1. 0 = IF next >= r THEN next - r ELSE next - r + p
      BY <1>3, <1>6
    <2>2. QED
      BY <1>1, <1>4, <1>5, <1>6, <2>1 DEF Phase, next, r
  <1>7. CASE r # next
    <2>1. hasRun => age + 1 = IF next >= r THEN next - r ELSE next - r + p
      BY <1>1, <1>2, <1>3, <1>7
    <2>2. ~hasRun => age + 1 = next /\ (r = 0 \/ next < r)
      BY <1>1, <1>2, <1>3, <1>7
    <2>3. QED
      BY <1>1, <1>4, <1>5, <1>7, <2>1, <2>2 DEF Phase, next, r
  <1>8. QED
    BY <1>6, <1>7

\* The table of a period in one step of its counter.
LEMMA TableAges ==
    ASSUME NEW age, NEW seen, NEW loop, Ages(age, seen, loop), NEW p \in Period,
           NEW next, next = StepLoop(loop[p], p), NEW ran, ran = Slots(next, p)
    PROVE  /\ next \in 0 .. p - 1
           /\ DOMAIN Aged(age[p], p, ran) = Task(p)
           /\ seen[p] \cup ran \subseteq Task(p)
           /\ \A t \in Task(p) :
                 /\ Phase(Aged(age[p], p, ran)[t], t \in seen[p] \cup ran, next, t, p)
                 /\ t \in seen[p] /\ Aged(age[p], p, ran)[t] = 0 => age[p][t] = p - 1
  <1>1. loop[p] \in 0 .. p - 1 /\ seen[p] \subseteq Task(p) /\ p \in Nat /\ p > 0
    BY DEF Ages, Period
  <1>2. next \in 0 .. p - 1
    BY <1>1 DEF StepLoop
  <1>3. ran \subseteq Task(p)
    BY DEF Slots
  <1>4. DOMAIN Aged(age[p], p, ran) = Task(p)
    BY DEF Aged
  <1>5. ASSUME NEW t \in Task(p)
        PROVE  /\ Phase(Aged(age[p], p, ran)[t], t \in seen[p] \cup ran, next, t, p)
               /\ t \in seen[p] /\ Aged(age[p], p, ran)[t] = 0 => age[p][t] = p - 1
    <2> DEFINE hasRun == t \in seen[p]
               runs == t % p = next
               a == age[p][t]
    <2>1. t \in ran <=> runs
      BY <1>2, SlotIsPhase
    <2>2. Aged(age[p], p, ran)[t] = IF runs THEN 0 ELSE a + 1
      BY <2>1 DEF Aged
    <2>3. Phase(a, hasRun, loop[p], t, p) /\ hasRun \in BOOLEAN
      BY DEF Ages
    <2> HIDE DEF hasRun, a
    <2>4. /\ Phase(IF runs THEN 0 ELSE a + 1, hasRun \/ runs, next, t, p)
          /\ a \in Nat /\ (runs /\ hasRun => a = p - 1)
      BY <1>1, <2>3, TaskFacts, PhaseStep
    <2>5. t \in seen[p] \cup ran <=> hasRun \/ runs
      BY <2>1 DEF hasRun
    <2>6. Phase(Aged(age[p], p, ran)[t], t \in seen[p] \cup ran, next, t, p)
      BY <2>2, <2>4, <2>5 DEF Phase
    <2>7. hasRun /\ Aged(age[p], p, ran)[t] = 0 => a = p - 1
      BY <2>2, <2>4
    <2>8. QED
      BY <2>6, <2>7 DEF hasRun, a
  <1>6. seen[p] \cup ran \subseteq Task(p)
    BY <1>1, <1>3
  <1>7. QED
    BY <1>2, <1>4, <1>5, <1>6, Zenon

\* Whatever the counter, no age reaches the period.
LEMMA AgesBounded ==
    ASSUME NEW age, NEW seen, NEW loop, Ages(age, seen, loop), NEW p \in Period, NEW t \in Task(p)
    PROVE  age[p][t] < p
  <1>1. /\ loop[p] \in 0 .. p - 1 /\ (t \in seen[p]) \in BOOLEAN
        /\ Phase(age[p][t], t \in seen[p], loop[p], t, p)
    BY DEF Ages
  <1>2. QED
    BY <1>1, TaskFacts, PhaseStep

\* At the start nobody has run.
LEMMA AgesInit == Init => FgAges /\ BgAges
  <1> SUFFICES ASSUME Init PROVE FgAges /\ BgAges
    OBVIOUS
  <1>1. ASSUME NEW p \in Period, NEW t \in Task(p)
        PROVE  Phase(0, FALSE, 0, t, p)
    BY TaskFacts DEF Phase
  <1>2. /\ DOMAIN fg_age = Period /\ DOMAIN fg_seen = Period /\ DOMAIN fg_loop = Period
        /\ bg_age = fg_age /\ bg_seen = fg_seen /\ bg_loop = fg_loop
    BY DEF Init
  <1>3. ASSUME NEW p \in Period
        PROVE  /\ fg_loop[p] = 0 /\ fg_age[p] = [t \in Task(p) |-> 0] /\ fg_seen[p] = {}
               /\ 0 \in 0 .. p - 1
    BY DEF Init, Period
  <1>4. FgAges
    <2>1. ASSUME NEW p \in Period, NEW t \in Task(p)
          PROVE  Phase(fg_age[p][t], t \in fg_seen[p], fg_loop[p], t, p)
      BY <1>1, <1>3 DEF Phase
    <2>2. QED
      BY <1>2, <1>3, <2>1 DEF FgAges, Ages
  <1>5. QED
    BY <1>2, <1>4 DEF FgAges, BgAges

\* A tick ages the tasks of the foreground, and a table of the loop those of its period.
LEMMA FgAgesTick ==
    ASSUME FgAges, SysTick_Handler
    PROVE  FgAges' /\ NotEarly(fg_age, fg_seen)
  <1> DEFINE next(p) == StepLoop(fg_loop[p], p)
  <1>1. /\ fg_loop' = [p \in Period |-> next(p)]
        /\ fg_age' = [p \in Period |-> Aged(fg_age[p], p, Slots(fg_loop'[p], p))]
        /\ fg_seen' = [p \in Period |-> fg_seen[p] \cup Slots(fg_loop'[p], p)]
    BY DEF SysTick_Handler, OS_FG_Update
  <1>2. ASSUME NEW p \in Period
        PROVE  /\ fg_loop'[p] = next(p)
               /\ fg_age'[p] = Aged(fg_age[p], p, Slots(next(p), p))
               /\ fg_seen'[p] = fg_seen[p] \cup Slots(next(p), p)
    BY <1>1
  <1>3. ASSUME NEW p \in Period
        PROVE  /\ fg_loop'[p] \in 0 .. p - 1 /\ DOMAIN fg_age'[p] = Task(p)
               /\ fg_seen'[p] \subseteq Task(p)
               /\ \A t \in Task(p) :
                     /\ Phase(fg_age'[p][t], t \in fg_seen'[p], fg_loop'[p], t, p)
                     /\ t \in fg_seen[p] /\ fg_age'[p][t] = 0 => fg_age[p][t] = p - 1
    BY <1>2, TableAges DEF FgAges
  <1>4. DOMAIN fg_age' = Period /\ DOMAIN fg_seen' = Period /\ DOMAIN fg_loop' = Period
    BY <1>1
  <1>5. FgAges'
    BY <1>3, <1>4 DEF FgAges, Ages
  <1>6. NotEarly(fg_age, fg_seen)
    BY <1>3 DEF NotEarly
  <1>7. QED
    BY <1>5, <1>6

LEMMA BgAgesTable ==
    ASSUME BgAges, NEW p \in Period, NEW from, NEW to, RunTable(p, from, to)
    PROVE  BgAges' /\ NotEarly(bg_age, bg_seen)
  <1> DEFINE next == StepLoop(bg_loop[p], p)
  <1>1. /\ bg_loop' = [bg_loop EXCEPT ![p] = next]
        /\ bg_age' = [bg_age EXCEPT ![p] = Aged(bg_age[p], p, Slots(next, p))]
        /\ bg_seen' = [bg_seen EXCEPT ![p] = bg_seen[p] \cup Slots(next, p)]
        /\ DOMAIN bg_age = Period /\ DOMAIN bg_seen = Period /\ DOMAIN bg_loop = Period
    BY DEF RunTable, BgAges, Ages
  <1>2. /\ bg_loop'[p] = next
        /\ bg_age'[p] = Aged(bg_age[p], p, Slots(next, p))
        /\ bg_seen'[p] = bg_seen[p] \cup Slots(next, p)
        /\ \A q \in Period \ {p} : bg_loop'[q] = bg_loop[q] /\ bg_age'[q] = bg_age[q]
                                   /\ bg_seen'[q] = bg_seen[q]
        /\ DOMAIN bg_age' = Period /\ DOMAIN bg_seen' = Period /\ DOMAIN bg_loop' = Period
    BY <1>1
  <1>3. /\ bg_loop'[p] \in 0 .. p - 1 /\ DOMAIN bg_age'[p] = Task(p)
        /\ bg_seen'[p] \subseteq Task(p)
        /\ \A t \in Task(p) :
              /\ Phase(bg_age'[p][t], t \in bg_seen'[p], bg_loop'[p], t, p)
              /\ t \in bg_seen[p] /\ bg_age'[p][t] = 0 => bg_age[p][t] = p - 1
    BY <1>2, TableAges DEF BgAges
  <1>4. ASSUME NEW q \in Period \ {p}
        PROVE  /\ bg_loop'[q] \in 0 .. q - 1 /\ DOMAIN bg_age'[q] = Task(q)
               /\ bg_seen'[q] \subseteq Task(q)
               /\ \A t \in Task(q) : Phase(bg_age'[q][t], t \in bg_seen'[q], bg_loop'[q], t, q)
    BY <1>2 DEF BgAges, Ages
  <1>5. BgAges'
    BY <1>2, <1>3, <1>4 DEF BgAges, Ages
  <1>6. NotEarly(bg_age, bg_seen)
    BY <1>2, <1>3 DEF NotEarly
  <1>7. QED
    BY <1>5, <1>6

\* Every step keeps the ages, and lets no task run early.
LEMMA AgesNext ==
    FgAges /\ BgAges /\ [Next]_vars =>
        FgAges' /\ BgAges' /\ NotEarly(fg_age, fg_seen) /\ NotEarly(bg_age, bg_seen)
  <1> SUFFICES ASSUME FgAges, BgAges, [Next]_vars
               PROVE  FgAges' /\ BgAges' /\ NotEarly(fg_age, fg_seen) /\ NotEarly(bg_age, bg_seen)
    OBVIOUS
  <1>1. ASSUME UNCHANGED fg PROVE FgAges' /\ NotEarly(fg_age, fg_seen)
    BY <1>1 DEF fg, FgAges, Ages, NotEarly
  <1>2. ASSUME UNCHANGED bg PROVE BgAges' /\ NotEarly(bg_age, bg_seen)
    BY <1>2 DEF bg, BgAges, Ages, NotEarly
  <1>3. CASE SysTick_Handler
    <2>1. UNCHANGED bg
      BY <1>3 DEF SysTick_Handler, OS_FG_Update
    <2>2. QED
      BY <1>2, <1>3, <2>1, FgAgesTick
  <1>4. ASSUME NEW p \in Period, NEW from, NEW to, RunTable(p, from, to)
        PROVE  FgAges' /\ BgAges' /\ NotEarly(fg_age, fg_seen) /\ NotEarly(bg_age, bg_seen)
    <2>1. UNCHANGED fg
      BY <1>4 DEF RunTable
    <2>2. QED
      BY <1>1, <1>4, <2>1, BgAgesTable
  <1>5. CASE \/ RunTable(1, "table1", "table4") \/ RunTable(4, "table4", "table8")
             \/ RunTable(8, "table8", "table16") \/ RunTable(16, "table16", "overtest")
    BY <1>4, <1>5 DEF Period
  <1>6. CASE \/ RunBg \/ EndDelay \/ TestLoopFlag \/ ClearLoad \/ ClearStore
             \/ TestOverrun \/ OverLoad \/ OverStore
             \/ \E ms \in Delays : mdelay(ms)
    <2>1. UNCHANGED fg /\ UNCHANGED bg
      BY <1>6 DEF RunBg, mdelay, EndDelay, TestLoopFlag, ClearLoad, ClearStore,
                  TestOverrun, OverLoad, OverStore
    <2>2. QED
      BY <1>1, <1>2, <2>1
  <1>7. CASE UNCHANGED vars
    BY <1>1, <1>2, <1>7 DEF vars
  <1>8. QED
    BY <1>3, <1>5, <1>6, <1>7 DEF Next, OS_BG_Update

\* No task of either side waits longer than its period.
THEOREM OsEveryPeriod == Spec => []EveryPeriod
  <1>1. FgAges /\ BgAges => EveryPeriod
    BY AgesBounded DEF FgAges, BgAges, EveryPeriod
  <1>2. QED
    BY <1>1, AgesInit, AgesNext, PTL DEF Spec

\* And none runs again before it is over.
THEOREM OsNeverEarly == Spec => NeverEarly
  <1>1. QED
    BY AgesInit, AgesNext, PTL DEF Spec, NeverEarly
-----------------------------------------------------------------------------
(* The delays of background tasks.                                           *)

\* While a task waits and the clock has not come around, the deadline is as far ahead
\* as the task still has to wait.
DelayInv ==
    /\ jiffies \in Time /\ deadline \in Time
    /\ pc = "delay" =>
          /\ asked \in Delays /\ waited \in 0 .. asked
          /\ (deadline >= asked /\ waited < asked) => jiffies + asked = deadline + waited

\* The clock, and the delays that an int may say.
LEMMA DelayFacts ==
    /\ TimeMod \in Nat /\ TimeMod > 0 /\ TimeMod \div 2 \in Nat
    /\ Time = 0 .. TimeMod - 1
    /\ \A ms \in Delays : ms \in Nat /\ ms > 0 /\ ms < TimeMod \div 2 /\ ms < TimeMod
  <1>1. TimeMod \in Nat /\ TimeMod > 0 /\ TimeMod \div 2 \in Nat /\ TimeMod \div 2 <= TimeMod
    BY TimeAssumption
  <1>2. \A ms \in Delays : ms \in 1 .. (TimeMod \div 2) - 1
    BY OsAssumption
  <1>3. QED
    BY <1>1, <1>2 DEF Time

LEMMA DelayInit == Init => DelayInv
  BY DelayFacts DEF Init, time_Init, DelayInv

\* The sum of the clock and a delay wraps once at most.
LEMMA DeadlineFacts ==
    ASSUME NEW j \in Time, NEW ms \in Nat, ms < TimeMod
    PROVE  /\ Unsigned(j + ms) \in Time
           /\ Unsigned(j + ms) >= ms => Unsigned(j + ms) = j + ms
  <1>1. TimeMod \in Nat /\ TimeMod > 0 /\ j \in Nat /\ j < TimeMod
    BY DelayFacts
  <1>2. CASE j + ms < TimeMod
    BY <1>1, <1>2 DEF Unsigned, Time
  <1>3. CASE j + ms >= TimeMod
    <2>1. (j + ms) % TimeMod = j + ms - TimeMod
      BY <1>1, <1>3
    <2>2. QED
      BY <1>1, <1>3, <2>1 DEF Unsigned, Time
  <1>4. QED
    BY <1>1, <1>2, <1>3

LEMMA DelayNext == DelayInv /\ [Next]_vars => DelayInv'
  <1> SUFFICES ASSUME DelayInv, [Next]_vars PROVE DelayInv'
    OBVIOUS
  <1>1. CASE SysTick_Handler
    <2>1. /\ jiffies' = Unsigned(jiffies + 1) /\ UNCHANGED <<pc, deadline, asked>>
          /\ waited' = IF pc = "delay" /\ waited < asked THEN waited + 1 ELSE waited
      BY <1>1 DEF SysTick_Handler, OS_FG_Update, time_isr, Elapse
    <2>2. jiffies' \in Time /\ jiffies' = IF jiffies + 1 = TimeMod THEN 0 ELSE jiffies + 1
      BY <2>1, TickTime DEF DelayInv
    <2>3. ASSUME pc = "delay"
          PROVE  /\ waited' \in 0 .. asked
                 /\ deadline >= asked /\ waited' < asked => jiffies' + asked = deadline + waited'
      <3>1. asked \in Nat /\ waited \in 0 .. asked
        BY <2>3, DelayFacts DEF DelayInv
      <3>2. waited' \in 0 .. asked
        BY <2>1, <3>1
      <3>3. ASSUME deadline >= asked, waited' < asked
            PROVE  jiffies' + asked = deadline + waited'
        <4>1. waited < asked /\ waited' = waited + 1
          BY <2>1, <2>3, <3>1, <3>3
        <4>2. jiffies + asked = deadline + waited
          BY <2>3, <3>3, <4>1 DEF DelayInv
        <4>3. jiffies \in Nat /\ deadline \in Nat /\ deadline < TimeMod /\ TimeMod \in Nat
          BY DelayFacts DEF DelayInv
        <4>4. jiffies + 1 # TimeMod
          BY <3>1, <4>1, <4>2, <4>3
        <4>5. QED
          BY <2>2, <3>1, <4>1, <4>2, <4>3, <4>4
      <3>4. QED
        BY <3>2, <3>3
    <2>4. QED
      BY <2>1, <2>2, <2>3 DEF DelayInv
  <1>2. ASSUME NEW ms \in Delays, mdelay(ms) PROVE DelayInv'
    <2>1. /\ deadline' = Unsigned(jiffies + ms) /\ asked' = ms /\ waited' = 0
          /\ jiffies' = jiffies /\ pc' = "delay"
      BY <1>2 DEF mdelay, time_get, Goto
    <2>2. ms \in Nat /\ ms < TimeMod /\ jiffies \in Time /\ jiffies \in Nat
      BY DelayFacts DEF DelayInv
    <2>3. deadline' \in Time /\ (deadline' >= ms => deadline' = jiffies + ms)
      BY <2>1, <2>2, DeadlineFacts
    <2>4. waited' \in 0 .. ms /\ (deadline' >= ms => jiffies + ms = deadline' + waited')
      BY <2>1, <2>2, <2>3
    <2>5. QED
      BY <2>1, <2>2, <2>3, <2>4 DEF DelayInv
  <1>3. CASE EndDelay
    BY <1>3, DelayFacts DEF EndDelay, Goto, DelayInv
  <1>4. CASE \/ RunBg \/ TestLoopFlag \/ ClearLoad \/ ClearStore
             \/ TestOverrun \/ OverLoad \/ OverStore
             \/ RunTable(1, "table1", "table4") \/ RunTable(4, "table4", "table8")
             \/ RunTable(8, "table8", "table16") \/ RunTable(16, "table16", "overtest")
    <2>1. UNCHANGED <<jiffies, deadline, asked, waited>> /\ pc' # "delay"
      BY <1>4 DEF RunBg, TestLoopFlag, ClearLoad, ClearStore, TestOverrun, OverLoad, OverStore,
                  RunTable, Goto, delayed
    <2>2. QED
      BY <2>1 DEF DelayInv
  <1>5. CASE UNCHANGED vars
    BY <1>5 DEF vars, delayed, DelayInv
  <1>6. QED
    BY <1>1, <1>2, <1>3, <1>4, <1>5 DEF Next, OS_BG_Update

\* A delay ends only when it has lasted, unless its deadline lies past the wrap.
LEMMA DelayEnds ==
    DelayInv /\ [Next]_vars => [EndDelay /\ deadline >= asked => waited >= asked]_vars
  <1> SUFFICES ASSUME DelayInv, EndDelay, deadline >= asked, ~(waited >= asked) PROVE FALSE
    OBVIOUS
  <1>1. /\ asked \in Delays /\ asked \in Nat /\ asked > 0 /\ asked < TimeMod \div 2
        /\ waited \in Nat /\ waited < asked /\ TimeMod \in Nat /\ TimeMod \div 2 \in Nat
    BY DelayFacts DEF EndDelay, Goto, DelayInv
  <1>2. jiffies + asked = deadline + waited /\ jiffies \in Nat /\ deadline \in Nat
    BY <1>1, DelayFacts DEF EndDelay, Goto, DelayInv
  <1>3. /\ deadline > jiffies /\ deadline - jiffies < TimeMod \div 2 /\ deadline - jiffies > 0
    BY <1>1, <1>2
  <1>4. time_left(deadline) = deadline - jiffies
    BY <1>1, <1>2, <1>3 DEF time_left, Signed
  <1>5. QED
    BY <1>2, <1>3, <1>4 DEF EndDelay

\* A delay is not shorter than the caller asked for (main/os_time.c), unless its deadline
\* lies past the wrap of the clock.
THEOREM OsDelayIsFull == Spec => DelayIsFull
  <1>1. QED
    BY DelayInit, DelayNext, DelayEnds, PTL DEF Spec, DelayIsFull
-----------------------------------------------------------------------------
\* What the theorems rest on, together.
OsInv == FlagInv /\ FgAges /\ BgAges /\ DelayInv

LEMMA OsInvInit == Init => OsInv
  BY FlagInit, AgesInit, DelayInit DEF OsInv

LEMMA OsInvNext == OsInv /\ [Next]_vars => OsInv'
  BY FlagNext, AgesNext, DelayNext DEF OsInv

LEMMA OsInvTypes == OsInv => TypeOK
  BY DEF OsInv, FlagInv, Types, FgAges, BgAges, Ages, DelayInv, TypeOK

\* The types of the variables.
THEOREM OsTypeCorrect == Spec => []TypeOK
  BY OsInvInit, OsInvNext, OsInvTypes, PTL DEF Spec
-----------------------------------------------------------------------------
\* The alarm service: the types of its variables.
AlarmKind   == {setup.kind : setup \in AlarmSetup} \cup {"none"}
Second      == 0 .. DaySecs - 1
AlarmRecord == [kind : AlarmKind, sec : Second \cup {DontCare}, day : Int,
                started : BOOLEAN, inited : BOOLEAN]

\* The second of an alarm that has been set up is one of a day; one that is started has
\* been set up and is on the list.
AlarmOK(a) ==
    /\ alarm[a].inited => alarm[a].sec \in Second
    /\ alarm[a].started => alarm[a].inited /\ a \in Listed
AlarmTypes ==
    /\ alarms \in Seq(AlarmId) /\ IsInjective(alarms)
    /\ alarm \in [AlarmId -> AlarmRecord]
    /\ \A a \in AlarmId : AlarmOK(a)
    /\ current \in Listed \cup {NoAlarm}
    /\ clock \in [day : 0 .. Week - 1, sec : Second]
    /\ alarm_event \in BOOLEAN /\ updating \in BOOLEAN
    /\ late \in 0 .. MaxLate

\* The device is off or set to the current alarm, also between two passes.
SetToCurrent ==
    rtc_alarm = NoAlarm \/ /\ current \in Listed /\ alarm[current].started
                           /\ rtc_alarm = alarm[current].sec

\* The inductive invariant.
AlarmInv == AlarmTypes /\ SetToCurrent

LEMMA AlarmFacts ==
    /\ DaySecs \in Nat /\ AlarmDelay \in 1 .. DaySecs - 1 /\ DaySecs > 1
    /\ Week \in Nat /\ Week > 0 /\ MaxLate \in Nat
    /\ 0 \in Second /\ DaySecs - AlarmDelay \in Second /\ Second \subseteq Int
    /\ DontCare \in Int /\ NoAlarm \notin Second
    /\ \A setup \in AlarmSetup : /\ setup.kind \in AlarmKind /\ setup.day \in Int
                                 /\ setup.sec \in Second \cup {DontCare}
    /\ "none" \in AlarmKind
  <1>1. /\ DaySecs \in Nat /\ AlarmDelay \in 1 .. DaySecs - 1 /\ DaySecs > 1
        /\ Week \in Nat /\ Week > 0 /\ MaxLate \in Nat
    BY AlarmAssumption
  <1>2. 0 \in Second /\ DaySecs - AlarmDelay \in Second /\ Second \subseteq Int /\ NoAlarm \notin Second
    BY <1>1 DEF Second, NoAlarm
  <1>3. DontCare \in Int
    BY DEF DontCare
  <1>4. QED
    BY <1>1, <1>2, <1>3, SetupAssumption DEF Second, AlarmKind

\* One is taken out of a list that holds each once.
LEMMA TakeOut ==
    ASSUME NEW S, NEW q \in Seq(S), IsInjective(q), NEW x
    PROVE  /\ RemoveFirst(q, x) \in Seq(S) /\ IsInjective(RemoveFirst(q, x))
           /\ ToSet(RemoveFirst(q, x)) = ToSet(q) \ {x}
  <1>1. DOMAIN q = 1..Len(q) /\ Len(q) \in Nat
    BY LenProperties
  <1>2. CASE x \notin ToSet(q)
    <2>1. RemoveFirst(q, x) = q
      BY <1>1, <1>2 DEF RemoveFirst, ToSet
    <2>2. QED
      BY <1>2, <2>1
  <1>3. CASE x \in ToSet(q)
    <2>1. PICK k \in 1..Len(q) : q[k] = x
      BY <1>1, <1>3 DEF ToSet
    <2>2. k >= 1
      BY <1>1, <2>1
    <2> DEFINE a == SubSeq(q, 1, k - 1)
               b == SubSeq(q, k + 1, Len(q))
               r == a \o b
    <2>3. RemoveFirst(q, x) = r
      <3>1. {i \in 1..Len(q) : q[i] = x} = {k}
        BY <1>1, <2>1 DEF IsInjective
      <3>2. SelectInSeq(q, LAMBDA v: v = x) = k
        BY <3>1 DEF SelectInSeq, Min
      <3>3. QED
        BY <2>1, <3>2 DEF RemoveFirst, RemoveAt
    <2>4. /\ a \in Seq(S) /\ Len(a) = k - 1 /\ \A i \in 1..k - 1 : a[i] = q[i]
      <3>1. \A i \in 1..k - 1 : q[i] \in S
        BY <1>1, ElementOfSeq
      <3>2. /\ a \in Seq(S) /\ Len(a) = IF 1 <= k - 1 THEN k - 1 - 1 + 1 ELSE 0
            /\ \A i \in 1 .. k - 1 - 1 + 1 : a[i] = q[1 + i - 1]
        <4>1. 1 \in Int /\ k - 1 \in Int
          BY <1>1
        <4>2. QED
          BY <3>1, <4>1, SubSeqProperties
      <3> HIDE DEF a
      <3>3. Len(a) = k - 1 /\ k - 1 - 1 + 1 = k - 1
        BY <1>1, <3>2
      <3>4. QED
        BY <1>1, <3>2, <3>3
    <2>5. /\ b \in Seq(S) /\ Len(b) = Len(q) - k
          /\ \A i \in 1..Len(q) - k : b[i] = q[k + i]
      <3>1. \A i \in k + 1..Len(q) : q[i] \in S
        BY <1>1, ElementOfSeq
      <3>2. k + 1 \in Int /\ Len(q) \in Int
        BY <1>1
      <3>3. /\ b \in Seq(S) /\ Len(b) = IF k + 1 <= Len(q) THEN Len(q) - (k + 1) + 1 ELSE 0
            /\ \A i \in 1 .. Len(q) - (k + 1) + 1 : b[i] = q[k + 1 + i - 1]
        BY <3>1, <3>2, SubSeqProperties
      <3> HIDE DEF b
      <3>4. Len(b) = Len(q) - k
        <4>1. Len(b) = IF k + 1 <= Len(q) THEN Len(q) - (k + 1) + 1 ELSE 0
          BY <3>3
        <4>2. k \in Int /\ Len(q) \in Int /\ k <= Len(q)
          BY <1>1
        <4>3. QED
          BY <4>1, <4>2
      <3>5. ASSUME NEW i \in 1..Len(q) - k PROVE b[i] = q[k + i]
        <4>1. i \in 1..Len(q) - (k + 1) + 1 /\ k + 1 + i - 1 = k + i
          BY <1>1, <2>1
        <4>2. QED
          BY <3>3, <4>1
      <3>6. QED
        BY <3>3, <3>4, <3>5
    <2> HIDE DEF a, b
    <2>6. /\ r \in Seq(S) /\ Len(r) = Len(q) - 1
          /\ \A i \in 1..Len(q) - 1 : r[i] = IF i < k THEN q[i] ELSE q[i + 1]
      <3>1. /\ r \in Seq(S) /\ Len(r) = Len(a) + Len(b)
            /\ \A i \in 1..Len(a) + Len(b) : r[i] = IF i <= Len(a) THEN a[i] ELSE b[i - Len(a)]
        BY <2>4, <2>5, ConcatProperties
      <3> HIDE DEF r
      <3>2. Len(r) = Len(q) - 1
        BY <1>1, <2>1, <2>4, <2>5, <3>1
      <3>3. ASSUME NEW i \in 1..Len(q) - 1, i < k PROVE r[i] = q[i]
        <4>1. i \in 1..k - 1 /\ i \in 1..Len(a) + Len(b) /\ i <= Len(a)
          BY <1>1, <2>1, <2>4, <2>5, <3>3
        <4>2. r[i] = a[i]
          BY <3>1, <4>1
        <4>3. QED
          BY <2>4, <4>1, <4>2
      <3>4. ASSUME NEW i \in 1..Len(q) - 1, i >= k PROVE r[i] = q[i + 1]
        <4>1. i - (k - 1) \in 1..Len(q) - k /\ k + (i - (k - 1)) = i + 1
          BY <1>1, <2>1, <3>4
        <4>2. i \in 1..Len(a) + Len(b) /\ ~(i <= Len(a)) /\ i - Len(a) = i - (k - 1)
          BY <1>1, <2>1, <2>4, <2>5, <3>4
        <4>3. r[i] = b[i - Len(a)]
          BY <3>1, <4>2
        <4>4. QED
          BY <2>5, <4>1, <4>2, <4>3
      <3>5. ASSUME NEW i \in 1..Len(q) - 1
            PROVE  r[i] = IF i < k THEN q[i] ELSE q[i + 1]
        <4>1. i < k \/ i >= k
          BY <1>1, <2>1
        <4>2. CASE i < k
          BY <3>3, <4>2
        <4>3. CASE i >= k
          <5>1. ~(i < k)
            BY <1>1, <2>1, <4>3
          <5>2. QED
            BY <3>4, <4>3, <5>1
        <4>4. QED
          BY <4>1, <4>2, <4>3
      <3>6. QED
        BY <3>1, <3>2, <3>5
    <2> HIDE DEF r
    <2>7. DOMAIN r = 1..Len(q) - 1
      BY <1>1, <2>1, <2>2, <2>6, LenProperties
    <2>8. IsInjective(r)
      <3>1. \A i, j \in 1..Len(q) : q[i] = q[j] => i = j
        BY <1>1 DEF IsInjective
      <3>2. SUFFICES ASSUME NEW i \in 1..Len(q) - 1, NEW j \in 1..Len(q) - 1, r[i] = r[j]
                     PROVE  i = j
        BY <2>7 DEF IsInjective
      <3>3. /\ i \in 1..Len(q) /\ i + 1 \in 1..Len(q)
            /\ j \in 1..Len(q) /\ j + 1 \in 1..Len(q)
        BY <1>1
      <3>4. QED
        BY <1>1, <2>1, <2>6, <3>1, <3>2, <3>3
    <2>9. ASSUME NEW y \in ToSet(r) PROVE y \in ToSet(q) \ {x}
      <3>1. PICK i \in 1..Len(q) - 1 : y = r[i]
        BY <2>7 DEF ToSet
      <3>2. \A m, n \in 1..Len(q) : q[m] = q[n] => m = n
        BY <1>1 DEF IsInjective
      <3>3. CASE i < k
        <4>1. y = q[i] /\ i \in 1..Len(q) /\ i # k
          BY <1>1, <2>6, <3>1, <3>3
        <4>2. QED
          BY <1>1, <2>1, <3>2, <4>1 DEF ToSet
      <3>4. CASE ~(i < k)
        <4>1. y = q[i + 1] /\ i + 1 \in 1..Len(q) /\ i + 1 # k
          BY <1>1, <2>1, <2>6, <3>1, <3>4
        <4>2. QED
          BY <1>1, <2>1, <3>2, <4>1 DEF ToSet
      <3>5. QED
        BY <3>3, <3>4
    <2>10. ASSUME NEW y \in ToSet(q), y # x PROVE y \in ToSet(r)
      <3>1. PICK i \in 1..Len(q) : y = q[i]
        BY <1>1 DEF ToSet
      <3>2. CASE i < k
        <4>1. i \in 1..Len(q) - 1 /\ r[i] = q[i]
          BY <1>1, <2>1, <2>6, <3>2
        <4>2. QED
          BY <2>7, <3>1, <4>1 DEF ToSet
      <3>3. CASE i > k
        <4>1. i - 1 \in 1..Len(q) - 1 /\ r[i - 1] = q[i]
          BY <1>1, <2>1, <2>6, <3>3
        <4>2. QED
          BY <2>7, <3>1, <4>1 DEF ToSet
      <3>4. QED
        BY <1>1, <2>1, <2>10, <3>1, <3>2, <3>3
    <2>11. QED
      BY <2>3, <2>6, <2>8, <2>9, <2>10
  <1>4. QED
    BY <1>2, <1>3

\* A set of numbers has a least one.
LEMMA LeastFacts ==
    ASSUME NEW S, S \subseteq Nat, S # {}
    PROVE  /\ \E x \in S : \A y \in S : x <= y
           /\ Min(S) \in S
  <1>1. PICK x \in S : \A y \in S : ~(<<y, x>> \in OpToRel(<, Nat))
    BY NatLessThanWellFounded, WFMin
  <1>2. ASSUME NEW y \in S
        PROVE  x <= y
    <2>1. ~(y < x)
      BY <1>1 DEF OpToRel
    <2>2. QED
      BY <2>1
  <1>3. \E z \in S : \A y \in S : z <= y
    BY <1>2
  <1>4. QED
    BY <1>3 DEF Min

\* The alarm the second pass chooses is one of those it chooses from.
LEMMA SoonestFacts ==
    ASSUME AlarmTypes, NEW S \in SUBSET Listed, S # {}
    PROVE  alarms[Soonest(S)] \in S
  <1>1. DOMAIN alarms = 1 .. Len(alarms) /\ Len(alarms) \in Nat
    BY DEF AlarmTypes
  <1>2. \A a \in Listed : a \in AlarmId
    BY <1>1 DEF AlarmTypes, Listed, ToSet
  <1>3. ASSUME NEW a \in S
        PROVE  Wait(a) \in Nat
    <2>1. alarm[a].sec \in Int /\ clock.sec \in Int
      BY <1>2, AlarmFacts DEF AlarmTypes, AlarmRecord
    <2>2. DaySecs \in Nat /\ DaySecs > 0
      BY AlarmFacts
    <2>3. \A x, y \in Int : (x - y) % DaySecs \in Nat
      BY <2>2
    <2>4. QED
      BY <2>1, <2>3 DEF Wait
  <1>4. PICK a \in S : \A b \in S : Wait(a) <= Wait(b)
    <2> DEFINE W == {Wait(b) : b \in S}
    <2>1. W \subseteq Nat /\ W # {}
      BY <1>3
    <2>2. PICK x \in W : \A y \in W : x <= y
      BY <2>1, LeastFacts
    <2>3. PICK b \in S : x = Wait(b)
      BY <2>2
    <2>4. \A c \in S : Wait(b) <= Wait(c)
      BY <2>2, <2>3
    <2>5. QED
      BY <2>4
  <1> DEFINE I == {i \in 1 .. Len(alarms) :
                      alarms[i] \in S /\ \A b \in S : Wait(alarms[i]) <= Wait(b)}
  <1>5. I # {} /\ I \subseteq Nat
    <2>1. PICK i \in 1 .. Len(alarms) : alarms[i] = a
      BY <1>1 DEF Listed, ToSet
    <2>2. i \in I
      BY <1>4, <2>1
    <2>3. QED
      BY <1>1, <2>2
  <1>6. Soonest(S) = Min(I)
    BY <1>5 DEF Soonest, SelectInSeq
  <1>7. Min(I) \in I
    BY <1>5, LeastFacts
  <1>8. QED
    BY <1>6, <1>7

LEMMA ListedFacts == AlarmTypes => Listed \subseteq AlarmId
  <1>1. ASSUME alarms \in Seq(AlarmId), NEW a \in Listed
        PROVE  a \in AlarmId
    <2>1. PICK i \in 1 .. Len(alarms) : alarms[i] = a
      BY <1>1 DEF Listed, ToSet
    <2>2. QED
      BY <1>1, <2>1
  <1>2. QED
    BY <1>1 DEF AlarmTypes

\* The setup of an alarm gives it a second of the day, and neither starts nor stops it.
LEMMA SetupFacts ==
    ASSUME AlarmTypes, NEW al \in AlarmRecord, al.inited => al.sec \in Second
    PROVE  /\ alarm_setup(al) \in AlarmRecord /\ alarm_setup(al).started = al.started
           /\ alarm_setup(al).inited => alarm_setup(al).sec \in Second
  <1> DEFINE sec == IF al.sec = DontCare THEN clock.sec ELSE al.sec
             day == IF al.day # DontCare THEN al.day
                    ELSE IF al.kind = "oneshot" THEN 0 ELSE clock.day
             moved == IF sec = DaySecs - 1 THEN DaySecs - AlarmDelay ELSE sec
  <1>1. clock.sec \in Second /\ clock.day \in Int
    BY AlarmFacts DEF AlarmTypes
  <1>2. sec \in Second /\ day \in Int
    BY <1>1 DEF AlarmRecord
  <1>3. moved \in Second
    BY <1>2, AlarmFacts
  <1> HIDE DEF sec, day, moved
  <1>4. CASE al.kind \notin Kinds
    BY <1>4 DEF alarm_setup
  <1>5. CASE al.kind \in Kinds
    <2>1. alarm_setup(al) = [al EXCEPT !.sec = moved, !.day = day, !.inited = TRUE]
      BY <1>5 DEF alarm_setup, sec, day, moved
    <2>2. QED
      BY <1>2, <1>3, <2>1 DEF AlarmRecord
  <1>6. QED
    BY <1>4, <1>5

\* A first pass changes nothing of an alarm but that some stop.
LEMMA AwakeFacts ==
    ASSUME AlarmTypes, NEW stopped
    PROVE  /\ Awake(stopped) \in [AlarmId -> AlarmRecord]
           /\ \A a \in AlarmId :
                 /\ Awake(stopped)[a].sec = alarm[a].sec
                 /\ Awake(stopped)[a].inited = alarm[a].inited
                 /\ Awake(stopped)[a].started => alarm[a].started
                 /\ a \notin Ended(stopped) => Awake(stopped)[a] = alarm[a]
  <1>1. ASSUME NEW a \in AlarmId
        PROVE  /\ Awake(stopped)[a] \in AlarmRecord
               /\ Awake(stopped)[a].sec = alarm[a].sec
               /\ Awake(stopped)[a].inited = alarm[a].inited
               /\ Awake(stopped)[a].started => alarm[a].started
               /\ a \notin Ended(stopped) => Awake(stopped)[a] = alarm[a]
    <2>1. alarm[a] \in AlarmRecord
      BY DEF AlarmTypes
    <2>2. Awake(stopped)[a] = IF a \in Ended(stopped) THEN [alarm[a] EXCEPT !.started = FALSE]
                                                      ELSE alarm[a]
      BY DEF Awake
    <2>3. QED
      BY <2>1, <2>2 DEF AlarmRecord
  <1>2. Awake(stopped) = [a \in AlarmId |-> Awake(stopped)[a]]
    BY DEF Awake
  <1>3. QED
    BY <1>1, <1>2

LEMMA AlarmInvInit == AlarmInit => AlarmInv
  <1> SUFFICES ASSUME AlarmInit PROVE AlarmInv
    OBVIOUS
  <1> USE AlarmFacts
  <1>1. /\ alarms = <<>> /\ current = NoAlarm /\ rtc_alarm = NoAlarm
        /\ alarm = [a \in AlarmId |-> Deleted] /\ clock = [day |-> 0, sec |-> 0]
        /\ alarm_event = FALSE /\ updating = FALSE /\ late = 0
    BY DEF AlarmInit
  <1>2. Deleted \in AlarmRecord /\ Deleted.inited = FALSE /\ Deleted.started = FALSE
    BY DEF Deleted, AlarmRecord
  <1>3. <<>> \in Seq(AlarmId) /\ IsInjective(<<>>)
    BY DEF IsInjective
  <1>4. AlarmTypes
    <2>1. \A a \in AlarmId : alarm[a] = Deleted
      BY <1>1
    <2>2. \A a \in AlarmId : AlarmOK(a)
      BY <1>2, <2>1 DEF AlarmOK
    <2>3. alarms \in Seq(AlarmId) /\ IsInjective(alarms)
      BY <1>1, <1>3
    <2>4. clock \in [day : 0 .. Week - 1, sec : Second] /\ late \in 0 .. MaxLate
      BY <1>1
    <2>5. alarm \in [AlarmId -> AlarmRecord]
      BY <1>1, <1>2
    <2>6. QED
      BY <1>1, <2>2, <2>3, <2>4, <2>5 DEF AlarmTypes
  <1>5. QED
    BY <1>1, <1>4 DEF AlarmInv, SetToCurrent

\* An alarm stops, and becomes another or none.
LEMMA StopFacts ==
    ASSUME AlarmInv, NEW a \in Listed, NEW al \in AlarmRecord, Stop(a, al),
           ~al.started, al.inited => al.sec \in Second,
           alarms' \in Seq(AlarmId), IsInjective(alarms'), Listed \ {a} \subseteq Listed',
           UNCHANGED <<clock, alarm_event>>
    PROVE  AlarmInv'
  <1>1. a \in AlarmId
    BY ListedFacts DEF AlarmInv
  <1>2. AlarmTypes /\ 0 \in 0 .. MaxLate
    BY AlarmFacts DEF AlarmInv
  <1>3. /\ alarm \in [AlarmId -> AlarmRecord] /\ \A b \in AlarmId : AlarmOK(b)
        /\ current \in Listed \cup {NoAlarm} /\ late \in 0 .. MaxLate /\ updating \in BOOLEAN
        /\ clock' \in [day : 0 .. Week - 1, sec : Second] /\ alarm_event' \in BOOLEAN
    BY <1>2 DEF AlarmTypes
  <1>4. CASE a = current
    <2>1. /\ current' = NoAlarm /\ alarm' = [Awake({a}) EXCEPT ![a] = al]
          /\ rtc_alarm' = (IF Ended({a}) # {} THEN NoAlarm ELSE rtc_alarm)
          /\ updating' \in BOOLEAN /\ late' = 0
      BY <1>4 DEF Stop, WakePass
    <2>2. rtc_alarm' = NoAlarm
      BY <2>1 DEF Ended
    <2>3. /\ Awake({a}) \in [AlarmId -> AlarmRecord]
          /\ \A b \in AlarmId : /\ Awake({a})[b].sec = alarm[b].sec
                                /\ Awake({a})[b].inited = alarm[b].inited
                                /\ Awake({a})[b].started => alarm[b].started
      BY <1>2, AwakeFacts
    <2>4. alarm' \in [AlarmId -> AlarmRecord]
          /\ \A b \in AlarmId : alarm'[b] = IF b = a THEN al ELSE Awake({a})[b]
      BY <1>1, <2>1, <2>3
    <2>5. ASSUME NEW b \in AlarmId
          PROVE  AlarmOK(b)'
      <3>1. CASE b = a
        BY <2>4, <3>1 DEF AlarmOK
      <3>2. CASE b # a
        <4>1. /\ alarm'[b].sec = alarm[b].sec /\ alarm'[b].inited = alarm[b].inited
              /\ alarm'[b].started => alarm[b].started
          BY <2>3, <2>4, <3>2
        <4>2. b \in Listed => b \in Listed'
          BY <3>2
        <4>3. QED
          BY <1>3, <4>1, <4>2 DEF AlarmOK
      <3>3. QED
        BY <3>1, <3>2
    <2>6. AlarmTypes'
      BY <1>2, <1>3, <2>1, <2>4, <2>5 DEF AlarmTypes
    <2>7. QED
      BY <2>2, <2>6 DEF AlarmInv, SetToCurrent
  <1>5. CASE a # current
    <2>1. /\ alarm' = [alarm EXCEPT ![a] = al] /\ current' = current /\ rtc_alarm' = rtc_alarm
          /\ updating' = updating /\ late' = late
      BY <1>5 DEF Stop
    <2>2. alarm' \in [AlarmId -> AlarmRecord]
          /\ \A b \in AlarmId : alarm'[b] = IF b = a THEN al ELSE alarm[b]
      BY <1>1, <1>3, <2>1
    <2>3. ASSUME NEW b \in AlarmId
          PROVE  AlarmOK(b)'
      <3>1. CASE b = a
        BY <2>2, <3>1 DEF AlarmOK
      <3>2. CASE b # a
        <4>1. alarm'[b] = alarm[b] /\ (b \in Listed => b \in Listed')
          BY <2>2, <3>2
        <4>2. QED
          BY <1>3, <4>1 DEF AlarmOK
      <3>3. QED
        BY <3>1, <3>2
    <2>4. current' \in Listed' \cup {NoAlarm}
      BY <1>3, <1>5, <2>1
    <2>5. AlarmTypes'
      BY <1>3, <2>1, <2>2, <2>3, <2>4 DEF AlarmTypes
    <2>6. ASSUME current \in Listed, alarm[current].started, rtc_alarm = alarm[current].sec
          PROVE  current' \in Listed' /\ alarm'[current'].started /\ rtc_alarm' = alarm'[current'].sec
      <3>1. current \in AlarmId /\ current \in Listed'
        BY <1>2, <1>5, <2>6, ListedFacts
      <3>2. alarm'[current] = alarm[current]
        BY <1>5, <2>2, <3>1
      <3>3. QED
        BY <2>1, <2>6, <3>1, <3>2
    <2>7. QED
      BY <2>1, <2>5, <2>6 DEF AlarmInv, SetToCurrent
  <1>6. QED
    BY <1>4, <1>5

\* The calls that stop an alarm.
LEMMA StoppingStep ==
    ASSUME AlarmInv, NEW a \in AlarmId,
           rt_alarm_stop(a) \/ rt_alarm_delete(a)
    PROVE  AlarmInv'
  <1>1. /\ alarms \in Seq(AlarmId) /\ IsInjective(alarms) /\ alarm[a] \in AlarmRecord
        /\ AlarmOK(a)
    BY DEF AlarmInv, AlarmTypes
  <1>2. a \in Listed /\ UNCHANGED <<clock, alarm_event>>
    BY DEF rt_alarm_stop, rt_alarm_delete, Call
  <1>3. CASE rt_alarm_stop(a)
    <2> DEFINE al == [alarm[a] EXCEPT !.started = FALSE]
    <2>1. Stop(a, al) /\ alarms' = alarms
      BY <1>3 DEF rt_alarm_stop
    <2>2. al \in AlarmRecord /\ ~al.started /\ (al.inited => al.sec \in Second)
      BY <1>1 DEF AlarmRecord, AlarmOK
    <2> HIDE DEF al
    <2>3. Listed' = Listed /\ alarms' \in Seq(AlarmId) /\ IsInjective(alarms')
      BY <1>1, <2>1 DEF Listed
    <2>4. QED
      BY <1>2, <2>1, <2>2, <2>3, StopFacts
  <1>4. CASE rt_alarm_delete(a)
    <2>1. Stop(a, Deleted) /\ alarms' = RemoveFirst(alarms, a)
      BY <1>4 DEF rt_alarm_delete
    <2>2. Deleted \in AlarmRecord /\ ~Deleted.started /\ ~Deleted.inited
      BY AlarmFacts DEF AlarmRecord, Deleted
    <2>3. /\ alarms' \in Seq(AlarmId) /\ IsInjective(alarms') /\ Listed' = Listed \ {a}
      BY <1>1, <2>1, TakeOut DEF Listed
    <2>4. QED
      BY <1>2, <2>1, <2>2, <2>3, StopFacts
  <1>5. QED
    BY <1>3, <1>4

\* A new alarm is put first on the list, and is not started.
LEMMA CreateStep ==
    ASSUME AlarmInv, NEW setup \in AlarmSetup, rt_alarm_create(setup)
    PROVE  AlarmInv'
  <1> DEFINE a == CHOOSE new \in AlarmId : new \notin Listed
  <1>1. /\ Listed # AlarmId /\ alarms' = <<a>> \o alarms
        /\ alarm' = [alarm EXCEPT ![a] = Created(setup)]
        /\ UNCHANGED <<current, rtc_alarm, updating, late, clock, alarm_event>>
    BY DEF rt_alarm_create, Call
  <1>2. /\ alarms \in Seq(AlarmId) /\ IsInjective(alarms) /\ alarm \in [AlarmId -> AlarmRecord]
        /\ \A b \in AlarmId : AlarmOK(b)
        /\ current \in Listed \cup {NoAlarm} /\ Listed \subseteq AlarmId
    BY ListedFacts DEF AlarmInv, AlarmTypes
  <1>3. a \in AlarmId /\ a \notin Listed
    <2>1. \E new \in AlarmId : new \notin Listed
      BY <1>1, <1>2
    <2>2. QED
      BY <2>1
  <1> HIDE DEF a
  <1>4. /\ Created(setup) \in AlarmRecord /\ Created(setup).started = FALSE
        /\ Created(setup).inited = FALSE
    BY AlarmFacts DEF Created, AlarmRecord
  <1>5. /\ alarms' \in Seq(AlarmId) /\ Len(alarms') = Len(alarms) + 1
        /\ \A i \in 1 .. Len(alarms) + 1 : alarms'[i] = IF i = 1 THEN a ELSE alarms[i - 1]
    <2>1. <<a>> \in Seq(AlarmId) /\ Len(<<a>>) = 1 /\ <<a>>[1] = a /\ Len(alarms) \in Nat
      BY <1>2, <1>3
    <2>2. /\ <<a>> \o alarms \in Seq(AlarmId) /\ Len(<<a>> \o alarms) = 1 + Len(alarms)
          /\ \A i \in 1 .. 1 + Len(alarms) : (<<a>> \o alarms)[i] =
                 IF i <= 1 THEN <<a>>[i] ELSE alarms[i - 1]
      BY <1>2, <2>1, ConcatProperties
    <2>3. ASSUME NEW i \in 1 .. Len(alarms) + 1
          PROVE  alarms'[i] = IF i = 1 THEN a ELSE alarms[i - 1]
      <3>1. i \in 1 .. 1 + Len(alarms) /\ (i <= 1 <=> i = 1)
        BY <2>1
      <3>2. QED
        BY <1>1, <2>1, <2>2, <3>1
    <2>4. 1 + Len(alarms) = Len(alarms) + 1
      BY <2>1
    <2>5. QED
      BY <1>1, <2>2, <2>3, <2>4
  <1>6. DOMAIN alarms = 1 .. Len(alarms) /\ DOMAIN alarms' = 1 .. Len(alarms) + 1
        /\ Len(alarms) \in Nat
    BY <1>2, <1>5
  <1>7. Listed \subseteq Listed'
    <2>1. ASSUME NEW b \in Listed
          PROVE  b \in Listed'
      <3>1. PICK i \in 1 .. Len(alarms) : alarms[i] = b
        BY <1>6 DEF Listed, ToSet
      <3>2. i + 1 \in 1 .. Len(alarms) + 1 /\ i + 1 # 1 /\ (i + 1) - 1 = i
        BY <1>6
      <3>3. alarms'[i + 1] = b
        BY <1>5, <3>1, <3>2
      <3>4. QED
        BY <1>6, <3>2, <3>3 DEF Listed, ToSet
    <2>2. QED
      BY <2>1
  <1>8. IsInjective(alarms')
    <2>1. \A i, j \in 1 .. Len(alarms) : alarms[i] = alarms[j] => i = j
      BY <1>2, <1>6 DEF IsInjective
    <2>2. \A i \in 1 .. Len(alarms) : alarms[i] # a
      BY <1>3, <1>6 DEF Listed, ToSet
    <2>3. ASSUME NEW i \in 1 .. Len(alarms) + 1, NEW j \in 1 .. Len(alarms) + 1,
                 alarms'[i] = alarms'[j]
          PROVE  i = j
      <3>1. /\ i # 1 => i - 1 \in 1 .. Len(alarms)
            /\ j # 1 => j - 1 \in 1 .. Len(alarms)
            /\ i \in Nat /\ j \in Nat
        BY <1>6
      <3>2. /\ alarms'[i] = IF i = 1 THEN a ELSE alarms[i - 1]
            /\ alarms'[j] = IF j = 1 THEN a ELSE alarms[j - 1]
        BY <1>5
      <3>3. i = 1 <=> j = 1
        BY <2>2, <2>3, <3>1, <3>2
      <3>4. CASE i # 1
        <4>1. i - 1 = j - 1
          BY <2>1, <2>3, <3>1, <3>2, <3>3, <3>4
        <4>2. QED
          BY <3>1, <4>1
      <3>5. QED
        BY <3>3, <3>4
    <2>4. QED
      BY <1>6, <2>3 DEF IsInjective
  <1>9. alarm' \in [AlarmId -> AlarmRecord]
        /\ \A b \in AlarmId : alarm'[b] = IF b = a THEN Created(setup) ELSE alarm[b]
    BY <1>1, <1>2, <1>3, <1>4
  <1>10. \A b \in AlarmId : AlarmOK(b)'
    BY <1>2, <1>4, <1>7, <1>9 DEF AlarmOK
  <1>11. AlarmTypes'
    BY <1>1, <1>5, <1>7, <1>8, <1>9, <1>10 DEF AlarmInv, AlarmTypes
  <1>12. SetToCurrent'
    <2>1. current \in Listed => current # a /\ current \in AlarmId /\ current \in Listed'
      BY <1>2, <1>3, <1>7
    <2>2. QED
      BY <1>1, <1>9, <2>1 DEF AlarmInv, SetToCurrent
  <1>13. QED
    BY <1>11, <1>12 DEF AlarmInv

\* An alarm that was not started changes, and its place on the list does not.
LEMMA ChangeFacts ==
    ASSUME AlarmInv, NEW a \in Listed, NEW al \in AlarmRecord,
           al.inited => al.sec \in Second, al.started => al.inited,
           alarm' = [alarm EXCEPT ![a] = al], current' \in Listed \cup {NoAlarm},
           UNCHANGED <<alarms, clock, alarm_event, updating, late>>
    PROVE  /\ AlarmTypes' /\ Listed' = Listed
           /\ \A b \in AlarmId : alarm'[b] = IF b = a THEN al ELSE alarm[b]
  <1>1. a \in AlarmId
    BY ListedFacts DEF AlarmInv
  <1>2. /\ alarm \in [AlarmId -> AlarmRecord] /\ \A b \in AlarmId : AlarmOK(b)
    BY DEF AlarmInv, AlarmTypes
  <1>3. alarm' \in [AlarmId -> AlarmRecord]
        /\ \A b \in AlarmId : alarm'[b] = IF b = a THEN al ELSE alarm[b]
    BY <1>1, <1>2
  <1>4. Listed' = Listed
    BY DEF Listed
  <1>5. \A b \in AlarmId : AlarmOK(b)'
    BY <1>2, <1>3, <1>4 DEF AlarmOK
  <1>6. AlarmTypes'
    BY <1>3, <1>4, <1>5 DEF AlarmInv, AlarmTypes
  <1>7. QED
    BY <1>3, <1>4, <1>6

\* An alarm starts: it takes the device, or the one that has it keeps it.
LEMMA StartStep ==
    ASSUME AlarmInv, NEW a \in AlarmId, rt_alarm_start(a)
    PROVE  AlarmInv'
  <1> DEFINE al == IF alarm[a].inited THEN alarm[a] ELSE alarm_setup(alarm[a])
             on == [al EXCEPT !.started = TRUE]
  <1>1. a \in Listed /\ UNCHANGED <<alarms, clock, alarm_event, updating, late>>
    BY DEF rt_alarm_start, Call
  <1>2. AlarmTypes /\ alarm[a] \in AlarmRecord /\ AlarmOK(a) /\ current \in Listed \cup {NoAlarm}
        /\ Listed \subseteq AlarmId
    BY ListedFacts DEF AlarmInv, AlarmTypes
  <1>3. /\ al \in AlarmRecord /\ al.started = alarm[a].started
        /\ al.inited => al.sec \in Second
    BY <1>2, SetupFacts DEF AlarmOK
  <1>4. al.started => al.inited
    BY <1>2, <1>3 DEF AlarmOK
  <1>5. CASE /\ ~al.inited \/ al.started
             /\ alarm' = [alarm EXCEPT ![a] = al] /\ current' = current /\ rtc_alarm' = rtc_alarm
    <2>1. al.started => al = alarm[a]
      BY <1>2, <1>3 DEF AlarmOK
    <2> HIDE DEF al
    <2>2. /\ AlarmTypes' /\ Listed' = Listed
          /\ \A b \in AlarmId : alarm'[b] = IF b = a THEN al ELSE alarm[b]
      BY <1>1, <1>2, <1>3, <1>4, <1>5, ChangeFacts
    <2>3. ASSUME current \in Listed, alarm[current].started
          PROVE  alarm'[current] = alarm[current]
      BY <1>2, <1>3, <2>1, <2>2, <2>3
    <2>4. SetToCurrent'
      BY <1>5, <2>2, <2>3 DEF AlarmInv, SetToCurrent
    <2>5. QED
      BY <2>2, <2>4 DEF AlarmInv
  <1>6. CASE /\ al.inited /\ ~al.started
             /\ alarm' = [alarm EXCEPT ![a] = on]
             /\ IF current = NoAlarm \/ ComesFirst(on.sec, alarm[current].sec)
                  THEN current' = a /\ alarm_set(on)
                  ELSE UNCHANGED <<current, rtc_alarm>>
    <2> HIDE DEF al
    <2>1. /\ on \in AlarmRecord /\ on.started = TRUE /\ on.inited = al.inited /\ on.sec = al.sec
      BY <1>3 DEF AlarmRecord
    <2> HIDE DEF on
    <2>2. current' \in Listed \cup {NoAlarm}
      BY <1>1, <1>2, <1>6
    <2>3. /\ AlarmTypes' /\ Listed' = Listed
          /\ \A b \in AlarmId : alarm'[b] = IF b = a THEN on ELSE alarm[b]
      BY <1>1, <1>3, <1>6, <2>1, <2>2, ChangeFacts
    <2>4. CASE current' = a /\ alarm_set(on)
      <3>1. rtc_alarm' = on.sec /\ alarm'[a] = on
        BY <2>1, <2>3, <2>4 DEF alarm_set
      <3>2. QED
        BY <1>1, <2>1, <2>3, <2>4, <3>1 DEF AlarmInv, SetToCurrent
    <2>5. CASE current' = current /\ rtc_alarm' = rtc_alarm
      <3>1. ASSUME current \in Listed, alarm[current].started
            PROVE  alarm'[current] = alarm[current]
        <4>1. ~alarm[a].started
          BY <1>3, <1>6
        <4>2. QED
          BY <1>2, <2>3, <3>1, <4>1
      <3>2. SetToCurrent'
        BY <2>3, <2>5, <3>1 DEF AlarmInv, SetToCurrent
      <3>3. QED
        BY <2>3, <3>2 DEF AlarmInv
    <2>6. QED
      BY <1>6, <2>4, <2>5
  <1>7. QED
    BY <1>5, <1>6 DEF rt_alarm_start

\* An alarm is modified: it stops, if it was started.
LEMMA ControlStep ==
    ASSUME AlarmInv, NEW a \in AlarmId, NEW setup \in AlarmSetup, rt_alarm_control(a, setup)
    PROVE  AlarmInv'
  <1> DEFINE al == alarm_setup(Created(setup))
  <1>1. a \in Listed /\ UNCHANGED <<alarms, clock, alarm_event>>
    BY DEF rt_alarm_control, Call
  <1>2. AlarmTypes /\ alarms \in Seq(AlarmId) /\ IsInjective(alarms)
        /\ current \in Listed \cup {NoAlarm} /\ Listed \subseteq AlarmId
    BY ListedFacts DEF AlarmInv, AlarmTypes
  <1>3. /\ Created(setup) \in AlarmRecord /\ Created(setup).started = FALSE
        /\ Created(setup).inited = FALSE
    BY AlarmFacts DEF Created, AlarmRecord
  <1>4. al \in AlarmRecord /\ ~al.started /\ (al.inited => al.sec \in Second)
    BY <1>2, <1>3, SetupFacts
  <1>5. CASE alarm[a].started
    <2>1. Stop(a, al)
      BY <1>5 DEF rt_alarm_control
    <2> HIDE DEF al
    <2>2. Listed' = Listed /\ alarms' \in Seq(AlarmId) /\ IsInjective(alarms')
      BY <1>1, <1>2 DEF Listed
    <2>3. QED
      BY <1>1, <1>4, <2>1, <2>2, StopFacts
  <1>6. CASE ~alarm[a].started
    <2>1. /\ alarm' = [alarm EXCEPT ![a] = al] /\ current' = current /\ rtc_alarm' = rtc_alarm
          /\ updating' = updating /\ late' = late
      BY <1>6 DEF rt_alarm_control
    <2> HIDE DEF al
    <2>2. /\ AlarmTypes' /\ Listed' = Listed
          /\ \A b \in AlarmId : alarm'[b] = IF b = a THEN al ELSE alarm[b]
      BY <1>1, <1>2, <1>4, <2>1, ChangeFacts
    <2>3. ASSUME current \in Listed, alarm[current].started
          PROVE  alarm'[current] = alarm[current]
      BY <1>2, <1>6, <2>2, <2>3
    <2>4. SetToCurrent'
      BY <2>1, <2>2, <2>3 DEF AlarmInv, SetToCurrent
    <2>5. QED
      BY <2>2, <2>4 DEF AlarmInv
  <1>7. QED
    BY <1>5, <1>6


\* The thread of the service makes its first pass.
LEMMA ThreadStep ==
    ASSUME AlarmInv, rt_alarmsvc_thread
    PROVE  AlarmInv'
  <1>1. /\ alarms' = alarms /\ current' = current /\ clock' = clock /\ alarm_event' = FALSE
        /\ alarm' = Awake({}) /\ late' = 0 /\ updating' = (alarms # <<>>)
        /\ rtc_alarm' = IF Ended({}) # {} THEN NoAlarm ELSE rtc_alarm
    BY DEF rt_alarmsvc_thread, WakePass
  <1>2. AlarmTypes /\ Listed \subseteq AlarmId /\ Listed' = Listed /\ 0 \in 0 .. MaxLate
    BY <1>1, ListedFacts, AlarmFacts DEF AlarmInv, Listed
  <1>3. /\ Awake({}) \in [AlarmId -> AlarmRecord]
        /\ \A a \in AlarmId :
              /\ Awake({})[a].sec = alarm[a].sec
              /\ Awake({})[a].inited = alarm[a].inited
              /\ Awake({})[a].started => alarm[a].started
              /\ a \notin Ended({}) => Awake({})[a] = alarm[a]
    BY <1>2, AwakeFacts
  <1>4. \A a \in AlarmId : AlarmOK(a)'
    <2>1. \A a \in AlarmId : AlarmOK(a)
      BY <1>2 DEF AlarmTypes
    <2>2. QED
      BY <1>1, <1>2, <1>3, <2>1 DEF AlarmOK
  <1>5. AlarmTypes'
    BY <1>1, <1>2, <1>3, <1>4 DEF AlarmTypes
  <1>6. SetToCurrent'
    <2>1. CASE Ended({}) # {}
      BY <1>1, <2>1 DEF SetToCurrent
    <2>2. CASE Ended({}) = {}
      <3>1. rtc_alarm' = rtc_alarm /\ \A a \in Listed : alarm'[a] = alarm[a]
        BY <1>1, <1>2, <1>3, <2>2
      <3>2. QED
        BY <1>1, <1>2, <3>1 DEF AlarmInv, SetToCurrent
    <2>3. QED
      BY <2>1, <2>2
  <1>7. QED
    BY <1>5, <1>6 DEF AlarmInv

\* The second pass sets the device to the alarm it chooses, or leaves both alone.
LEMMA UpdateStep ==
    ASSUME AlarmInv, alarm_update
    PROVE  AlarmInv'
  <1>1. /\ alarms' = alarms /\ alarm' = alarm /\ clock' = clock /\ alarm_event' = alarm_event
        /\ updating' = FALSE /\ late' = 0
    BY DEF alarm_update
  <1>2. /\ AlarmTypes /\ Listed' = Listed /\ 0 \in 0 .. MaxLate
        /\ \A a \in AlarmId : AlarmOK(a)'
    BY <1>1, AlarmFacts DEF AlarmInv, AlarmTypes, Listed, AlarmOK
  <1>3. CASE Candidates = {}
    <2>1. current' = current /\ rtc_alarm' = rtc_alarm
      BY <1>3 DEF alarm_update
    <2>2. AlarmTypes'
      BY <1>1, <1>2, <2>1 DEF AlarmTypes
    <2>3. QED
      BY <1>1, <1>2, <2>1, <2>2 DEF AlarmInv, SetToCurrent
  <1>4. CASE Candidates # {}
    <2>1. current' = alarms[Soonest(Candidates)] /\ alarm_set(alarm[current'])
      BY <1>4 DEF alarm_update
    <2>2. current' \in Candidates
      <3>1. Candidates \in SUBSET Listed
        BY DEF Candidates
      <3>2. QED
        BY <1>2, <1>4, <2>1, <3>1, SoonestFacts
    <2>3. current' \in Listed' /\ alarm'[current'].started
      BY <1>1, <1>2, <2>2 DEF Candidates
    <2>4. rtc_alarm' = alarm'[current'].sec
      BY <1>1, <2>1, <2>3 DEF alarm_set
    <2>5. AlarmTypes'
      BY <1>1, <1>2, <2>3 DEF AlarmTypes
    <2>6. QED
      BY <2>3, <2>4, <2>5 DEF AlarmInv, SetToCurrent
  <1>5. QED
    BY <1>3, <1>4

\* The clock ticks.
LEMMA TickStep ==
    ASSUME AlarmInv, AlarmTick
    PROVE  AlarmInv'
  <1> DEFINE sec == (clock.sec + 1) % DaySecs
             day == (clock.day + 1) % Week
  <1>1. /\ alarms' = alarms /\ current' = current /\ rtc_alarm' = rtc_alarm
        /\ updating' = updating /\ alarm_event' = (alarm_event \/ rtc_alarm = sec)
        /\ late' = IF alarm_event \/ updating THEN late + 1 ELSE 0
        /\ alarm_event \/ updating => late < MaxLate
    BY DEF AlarmTick
  <1>2. AlarmTypes /\ Listed \subseteq AlarmId /\ Listed' = Listed
    BY <1>1, ListedFacts DEF AlarmInv, Listed
  <1>3. /\ clock \in [day : 0 .. Week - 1, sec : Second] /\ late \in 0 .. MaxLate
        /\ alarm \in [AlarmId -> AlarmRecord] /\ \A a \in AlarmId : AlarmOK(a)
    BY <1>2 DEF AlarmTypes
  <1>4. sec \in Second /\ day \in 0 .. Week - 1
    <2>1. \A x \in Int, n \in Nat : n > 0 => x % n \in 0 .. n - 1
      OBVIOUS
    <2>2. clock.sec + 1 \in Int /\ clock.day + 1 \in Int
      BY <1>3, AlarmFacts DEF Second
    <2>3. DaySecs \in Nat /\ DaySecs > 0 /\ Week \in Nat /\ Week > 0
      BY AlarmFacts
    <2>4. QED
      BY <2>1, <2>2, <2>3 DEF Second
  <1>5. late' \in 0 .. MaxLate
    BY <1>1, <1>3, AlarmFacts
  <1>6. ASSUME NEW al \in AlarmRecord
        PROVE  /\ Nearer(al) \in AlarmRecord /\ Nearer(al).sec = al.sec
               /\ Nearer(al).started = al.started /\ Nearer(al).inited = al.inited
    BY DEF Nearer, AlarmRecord
  <1>7. /\ alarm' \in [AlarmId -> AlarmRecord]
        /\ \A a \in AlarmId : /\ alarm'[a].sec = alarm[a].sec
                              /\ alarm'[a].started = alarm[a].started
                              /\ alarm'[a].inited = alarm[a].inited
        /\ clock' \in [day : 0 .. Week - 1, sec : Second]
    <2>1. CASE sec = 0
      <3>1. /\ clock' = [day |-> day, sec |-> 0]
            /\ alarm' = [a \in AlarmId |-> Nearer(alarm[a])]
        BY <2>1 DEF AlarmTick
      <3>2. QED
        BY <1>3, <1>4, <1>6, <3>1, AlarmFacts
    <2>2. CASE sec # 0
      <3>1. clock' = [clock EXCEPT !.sec = sec] /\ alarm' = alarm
        BY <2>2 DEF AlarmTick
      <3> HIDE DEF sec
      <3>2. QED
        BY <1>3, <1>4, <3>1
    <2>3. QED
      BY <2>1, <2>2
  <1> HIDE DEF sec, day
  <1>8. \A a \in AlarmId : AlarmOK(a)'
    BY <1>2, <1>3, <1>7 DEF AlarmOK
  <1>9. alarm_event' \in BOOLEAN /\ updating' \in BOOLEAN
    BY <1>1, <1>2 DEF AlarmTypes
  <1>10. AlarmTypes'
    BY <1>1, <1>2, <1>5, <1>7, <1>8, <1>9 DEF AlarmTypes
  <1>11. SetToCurrent'
    BY <1>1, <1>2, <1>7 DEF AlarmInv, SetToCurrent
  <1>12. QED
    BY <1>10, <1>11 DEF AlarmInv

LEMMA AlarmInvStep == AlarmInv /\ [AlarmNext]_alarmVars => AlarmInv'
  <1> SUFFICES ASSUME AlarmInv, [AlarmNext]_alarmVars PROVE AlarmInv'
    OBVIOUS
  <1>1. CASE AlarmTick
    BY <1>1, TickStep
  <1>2. CASE rt_alarmsvc_thread
    BY <1>2, ThreadStep
  <1>3. CASE alarm_update
    BY <1>3, UpdateStep
  <1>4. CASE AlarmCall
    <2>1. ASSUME NEW setup \in AlarmSetup, rt_alarm_create(setup)
          PROVE  AlarmInv'
      BY <2>1, CreateStep
    <2>2. ASSUME NEW setup \in AlarmSetup, NEW a \in AlarmId, rt_alarm_control(a, setup)
          PROVE  AlarmInv'
      BY <2>2, ControlStep
    <2>3. ASSUME NEW a \in AlarmId, rt_alarm_start(a)
          PROVE  AlarmInv'
      BY <2>3, StartStep
    <2>4. ASSUME NEW a \in AlarmId, rt_alarm_stop(a) \/ rt_alarm_delete(a)
          PROVE  AlarmInv'
      BY <2>4, StoppingStep
    <2>5. QED
      BY <1>4, <2>1, <2>2, <2>3, <2>4 DEF AlarmCall
  <1>5. CASE UNCHANGED alarmVars
    <2>1. /\ alarms' = alarms /\ alarm' = alarm /\ current' = current
          /\ rtc_alarm' = rtc_alarm /\ clock' = clock /\ alarm_event' = alarm_event
          /\ updating' = updating /\ late' = late
      BY <1>5 DEF alarmVars
    <2>2. QED
      BY <2>1 DEF AlarmInv, AlarmTypes, SetToCurrent, Listed, AlarmOK
  <1>6. QED
    BY <1>1, <1>2, <1>3, <1>4, <1>5 DEF AlarmNext

LEMMA AlarmInvAlways == AlarmSpec => []AlarmInv
  BY AlarmInvInit, AlarmInvStep, PTL DEF AlarmSpec

LEMMA AlarmInvTypes == AlarmInv => AlarmTypeOK
  <1> SUFFICES ASSUME AlarmInv PROVE AlarmTypeOK
    OBVIOUS
  <1>1. AlarmTypes /\ Listed \subseteq AlarmId
    BY ListedFacts DEF AlarmInv
  <1>2. ASSUME NEW a \in AlarmId
        PROVE  /\ alarm[a].sec \in Second \cup {DontCare}
               /\ alarm[a].started => alarm[a].inited /\ a \in Listed
    BY <1>1 DEF AlarmTypes, AlarmRecord, AlarmOK
  <1>3. rtc_alarm \in Second \/ rtc_alarm = NoAlarm
    BY <1>1 DEF AlarmInv, SetToCurrent, AlarmTypes, AlarmOK
  <1>4. QED
    BY <1>1, <1>2, <1>3 DEF AlarmTypes, AlarmTypeOK, Second, Listed

\* The alarm service always has the types TLC checks: the list holds each alarm once, an
\* alarm that is started has a second of a day and is on the list, and the device is off
\* or set to a second of a day.
THEOREM AlarmTypeCorrect == AlarmSpec => []AlarmTypeOK
  BY AlarmInvTypes, AlarmInvAlways, PTL

\* Between two updates the device of the clock is off or set to the second of the alarm
\* the service remembers as the current one, which is started: whatever was created,
\* started, modified, stopped and deleted, and however late the service ran.
THEOREM AlarmCurrentIsSet == AlarmSpec => []CurrentIsSet
  <1>1. AlarmInv => CurrentIsSet
    BY DEF AlarmInv, SetToCurrent, CurrentIsSet, Started
  <1>2. QED
    BY <1>1, AlarmInvAlways, PTL
-----------------------------------------------------------------------------
\* The tables and the alarms side by side, as they are explored: a step of one leaves the
\* other, so that each keeps the types of its own specification.
THEOREM ClockTypeCorrect == PartsSpec => []TypesOK
  <1>1. PartsInit => OsInv /\ AlarmInv
    BY OsInvInit, AlarmInvInit DEF PartsInit
  <1>2. [PartsNext]_partVars => [Next]_vars /\ [AlarmNext]_alarmVars
    BY DEF PartsNext, Ticks, Alarms, partVars
  <1>3. OsInv /\ AlarmInv /\ [PartsNext]_partVars => (OsInv /\ AlarmInv)'
    BY <1>2, OsInvNext, AlarmInvStep
  <1>4. OsInv /\ AlarmInv => TypesOK
    BY OsInvTypes, AlarmInvTypes DEF TypesOK
  <1>5. QED
    BY <1>1, <1>3, <1>4, PTL DEF PartsSpec
=============================================================================
