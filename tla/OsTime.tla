------------------------------- MODULE OsTime -------------------------------
(***************************************************************************)
(* The millisecond clock of main/os_time.c.  jiffies, deadlines and the    *)
(* differences between them are unsigned numbers of the width of time_t;   *)
(* TimeMod is 2^32 in the code and a smaller power of two for TLC.         *)
(***************************************************************************)
EXTENDS Integers

CONSTANT TimeMod    \* one more than the largest time_t

\* The width of time_t is a power of two of at least 4 bits; only this is used.
ASSUME TimeAssumption == TimeMod \in Nat /\ TimeMod > 0 /\ TimeMod % 16 = 0

VARIABLE jiffies

Time == 0 .. TimeMod - 1

\* Unsigned arithmetic wraps.
Unsigned(x) == x % TimeMod

\* The conversion of an unsigned value to int.
Signed(x) == IF x >= TimeMod \div 2 THEN x - TimeMod ELSE x

time_Init == jiffies = 0

time_isr == jiffies' = Unsigned(jiffies + 1)

\* Mutant: a tick is lost.
time_getShort(delay) == Unsigned(jiffies + delay - 1)

time_get(delay) == Unsigned(jiffies + delay)

\* The distance to the deadline, with the sign of the unsigned comparison.
time_left(deadline) ==
    LET ahead == deadline > jiffies
        gap   == IF ahead THEN deadline - jiffies ELSE jiffies - deadline
        dt    == IF gap >= TimeMod \div 2 THEN Unsigned(0 - gap) ELSE gap
    IN  Signed(IF ahead THEN dt ELSE Unsigned(0 - dt))
=============================================================================
