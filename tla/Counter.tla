------------------------------ MODULE Counter ------------------------------
(***************************************************************************)
(* user/apps/counter/counter.c on top of the interrupt path: main prints   *)
(* and waits in delay_wall for DELAY_TICKS ticks, which it reads through   *)
(* sys_ticks.  The program runs whenever the CPU is in user mode and the   *)
(* scheduler gives it a turn; it may be kept waiting for any time, longer  *)
(* than the tick counter takes to wrap included.                           *)
(***************************************************************************)
EXTENDS Interrupts

CONSTANT DELAY_TICKS

ASSUME CounterAssumption == DELAY_TICKS \in 1 .. TICK_MOD - 1

VARIABLES
    at,         \* "main", "delay" or "done": the delay has ended
    start,      \* delay_wall's local
    due         \* history: expiries after which the delay may end

counter == <<at, start, due>>
allVars == <<vars, counter>>

CounterInit == Init /\ at = "main" /\ start = 0 /\ due = 0

\* What has happened on the timer so far, counted by the kernel or not.
Elapsed == expiries + missed

\* main prints and calls delay_wall, which reads the time it starts at.  A tick
\* already raised but not yet counted then will be counted in the delay.
DelayStarts ==
    /\ pc = "user"
    /\ at \in {"main", "done"}
    /\ at' = "delay"
    /\ start' = tick_count
    /\ due' = Elapsed + DELAY_TICKS - (IF IRQ_TIMER \in raised THEN 1 ELSE 0)
    /\ UNCHANGED vars

Waits_Absolute == tick_count < (start + DELAY_TICKS) % TICK_MOD
\* (sys_ticks() - start) < ticks, in unsigned arithmetic.
Waits == (tick_count - start) % TICK_MOD < DELAY_TICKS

\* While Waits holds delay_wall yields and asks again.
DelayEnds ==
    /\ pc = "user"
    /\ at = "delay" /\ ~Waits
    /\ at' = "done" /\ start' = 0
    /\ UNCHANGED <<due, vars>>

CounterNext == (Next /\ UNCHANGED counter) \/ DelayStarts \/ DelayEnds

CounterSpec == CounterInit /\ [][CounterNext]_allVars /\ Fairness

-----------------------------------------------------------------------------

\* However the ticks, the other interrupts and the turns of the program
\* interleave, and across the wrap of tick_count: delay_wall never returns before
\* the timer has expired DELAY_TICKS times, counting a tick that was already
\* raised when it started.
DelayNeverShort == at = "done" => Elapsed >= due
=============================================================================
