-------------------------- MODULE InterruptsProofs --------------------------
(***************************************************************************)
(* The interrupt path and the counter program above it, for every choice   *)
(* of interrupt lines, every width of tick_count and every delay shorter   *)
(* than its wrap.  The invariant is stated over the places kmain and the   *)
(* handlers can be at; what changes concurrently is the devices' lines     *)
(* and the clock module, and each of its parts says what they may change.  *)
(***************************************************************************)
EXTENDS Counter, TLAPS

-----------------------------------------------------------------------------
(* Remainders.                                                             *)

\* The quotient and the remainder of an integer.
LEMMA DivMod ==
    ASSUME NEW a \in Int, NEW m \in Nat \ {0}
    PROVE  /\ a % m \in 0 .. m - 1
           /\ a \div m \in Int
           /\ a = m * (a \div m) + (a % m)
OBVIOUS

\* Only zero is a multiple of m strictly between -m and m.
LEMMA SmallMultiple ==
    ASSUME NEW m \in Nat \ {0}, NEW d \in Int, m * d < m, m * d > -m
    PROVE  d = 0
<1>1. ASSUME d >= 1 PROVE FALSE
  BY <1>1
<1>2. ASSUME d <= -1 PROVE FALSE
  BY <1>2
<1> QED
  BY <1>1, <1>2

\* Numbers that differ by a multiple of m have the same remainder.
LEMMA ModPeriod ==
    ASSUME NEW m \in Nat \ {0}, NEW x \in Int, NEW y \in Int, NEW q \in Int, x = m * q + y
    PROVE  x % m = y % m
<1>1. PICK u \in Int, r \in 0 .. m - 1 : r = x % m /\ x = m * u + r
  <2>1. x \div m \in Int /\ x % m \in 0 .. m - 1 /\ x = m * (x \div m) + (x % m)
    BY DivMod
  <2> QED
    BY <2>1, Zenon
<1>2. PICK v \in Int, s \in 0 .. m - 1 : s = y % m /\ y = m * v + s
  <2>1. y \div m \in Int /\ y % m \in 0 .. m - 1 /\ y = m * (y \div m) + (y % m)
    BY DivMod
  <2> QED
    BY <2>1, Zenon
<1>3. PICK d \in Int : d = u - (q + v)
  OBVIOUS
<1>4. m * d = s - r
  <2>1. m * d = m * u - (m * q + m * v) /\ m * u \in Int /\ m * q \in Int /\ m * v \in Int
    BY <1>3
  <2>2. PICK mu \in Int, mq \in Int, mv \in Int : mu = m * u /\ mq = m * q /\ mv = m * v
    BY <2>1
  <2>3. mu + r = mq + (mv + s) /\ m * d = mu - (mq + mv)
    BY <1>1, <1>2, <2>1, <2>2
  <2> QED
    BY <2>3
<1>5. d = 0
  BY <1>4, SmallMultiple
<1> QED
  BY <1>1, <1>2, <1>4, <1>5

\* A remainder may be taken before adding to it.
LEMMA ModAdd ==
    ASSUME NEW m \in Nat \ {0}, NEW a \in Int, NEW c \in Int
    PROVE  ((a % m) + c) % m = (a + c) % m
<1>1. PICK q \in Int, r \in Int : r = a % m /\ a = m * q + r
  <2>1. a \div m \in Int /\ a % m \in 0 .. m - 1 /\ a = m * (a \div m) + (a % m)
    BY DivMod
  <2>2. a % m \in Int
    BY <2>1
  <2> QED
    BY <2>1, <2>2, Zenon
<1>2. PICK e \in Int, d \in Int : e = r + c /\ d = a + c /\ d = m * q + e
  BY <1>1
<1>3. d % m = e % m
  BY <1>2, ModPeriod
<1> QED
  BY <1>1, <1>2, <1>3, Zenon

\* The same for subtracting a remainder.
LEMMA ModSub ==
    ASSUME NEW m \in Nat \ {0}, NEW a \in Int, NEW c \in Int, NEW d \in Int, d = c - a
    PROVE  (c - (a % m)) % m = d % m
<1>1. PICK q \in Int, r \in Int : r = a % m /\ a = m * q + r
  <2>1. a \div m \in Int /\ a % m \in 0 .. m - 1 /\ a = m * (a \div m) + (a % m)
    BY DivMod
  <2>2. a % m \in Int
    BY <2>1
  <2> QED
    BY <2>1, <2>2, Zenon
<1>2. PICK e \in Int : e = c - r /\ e = m * q + d
  BY <1>1
<1>3. e % m = d % m
  BY <1>2, ModPeriod
<1> QED
  BY <1>1, <1>2, <1>3, Zenon

-----------------------------------------------------------------------------
(* The invariant.                                                          *)

\* kmain, after irq_init; the interrupt path, with an interrupt acknowledged.
Setup   == {"timer_init", "register_timer", "enable_timer", "register_uart", "enable_uart"}
Serving == {"dispatch", "timer_irq", "timer_tick", "uart_rx_irq", "eoi"}

Configured == Setup \cup Serving \cup {"user", "get_active"}
Started    == Configured \ {"timer_init"}
Gating     == {"clock_disable", "wait_disabled", "clock_select", "clock_wake",
               "clock_enable", "wait_func"}
Clocked    == {"irq_init"} \cup Configured

Types ==
    /\ TypeOK
    /\ pc \in Gating \cup Clocked

\* How far clock_enable_timer2 has brought the clock; the module itself follows
\* MODULEMODE in its own time.
ClockGated ==
    /\ pc \in Gating \ {"clock_disable", "wait_func"} => clock.mode = "disable"
    /\ pc \in {"clock_select", "clock_wake", "clock_enable"} => clock.idle = "disabled"
    /\ pc \in {"clock_wake", "clock_enable", "wait_func"} \cup Clocked => clock.sel = "M_OSC"
    /\ pc \in {"clock_enable", "wait_func"} \cup Clocked => clock.l4ls = "awake"
    /\ pc \in {"wait_func"} \cup Clocked => clock.mode = "enable"
    /\ pc \in Clocked => clock.idle = "func"

\* No line is enabled before its handler is registered.
Handled ==
    /\ pc \in Configured => enabled \subseteq irq_table
    /\ pc = "enable_timer" => IRQ_TIMER \in irq_table
    /\ pc = "enable_uart" => IRQ_UART0 \in irq_table

\* What the controller waits for; the AM335x ends anything with NEWIRQAGR.
Served ==
    /\ pc \in Setup \cup {"user", "get_active"} => active = NONE
    /\ controller = "GIC" /\ pc = "irq_init" => active = NONE
    /\ controller = "GIC" /\ pc \in Serving =>
          active = IF n = MAX_IRQS THEN NONE ELSE n
    /\ controller = "GIC" => pc \notin Gating

\* The interrupt being dispatched.
Dispatched ==
    /\ pc = "dispatch" /\ n # MAX_IRQS => n \in irq_table
    /\ pc = "timer_irq" => n = IRQ_TIMER
    /\ pc \in {"dispatch", "timer_irq"} /\ n = IRQ_TIMER => IRQ_TIMER \in raised

\* The timer has not been started, or every expiry is accounted for.
Counting ==
    /\ running <=> pc \in Started
    /\ ~running => tick_count = 0 /\ expiries = 0
    /\ controller = "GIC" /\ ~running => IRQ_TIMER \notin raised
    /\ EachExpiryCounted

IndInv == Types /\ ClockGated /\ Handled /\ Served /\ Dispatched /\ Counting

\* The expiries that timer_tick has counted.
Counted ==
    expiries - (IF IRQ_TIMER \in raised THEN 1 ELSE 0)
             - (IF pc = "timer_tick" THEN 1 ELSE 0)

\* A delay began when c expiries had been counted and m missed; both have only
\* grown since.
Delaying ==
    /\ at \in {"main", "delay", "done"}
    /\ due \in Int
    /\ at = "delay" =>
          \E c, m \in Int : /\ c <= Counted /\ m <= missed
                            /\ start = c % TICK_MOD
                            /\ due = c + m + DELAY_TICKS
    /\ DelayNeverShort

USE DEF Setup, Serving, Configured, Started, Gating, Clocked, Step, hw, counts

-----------------------------------------------------------------------------
(* Constants and lines.                                                    *)

\* The assumptions on the constants, one by one.
LEMMA Constants ==
    /\ IRQ_TIMER \in Nat /\ IRQ_UART0 \in Nat /\ IRQ_OTHER \in Nat
    /\ IRQ_TIMER < MAX_IRQS /\ IRQ_UART0 < MAX_IRQS /\ IRQ_OTHER < MAX_IRQS
    /\ IRQ_TIMER # IRQ_UART0 /\ IRQ_TIMER # IRQ_OTHER /\ IRQ_UART0 # IRQ_OTHER
    /\ TICK_MOD \in Nat \ {0} /\ MAX_EXPIRIES \in Nat
    /\ Controllers \subseteq {"GIC", "AM335X"}
BY LinesAssumption, CountsAssumption DEF MAX_IRQS

\* The bank and the bit within it make up the line.
LEMMA BankAndBit ==
    ASSUME NEW irq \in Nat
    PROVE  32 * (irq \div 32) + (irq % 32) = irq
OBVIOUS

\* A nonempty set of lines has a lowest one.
LEMMA LowestMember ==
    ASSUME NEW S, S \subseteq Lines, S # {}
    PROVE  Lowest(S) \in S
<1>1. \E l \in S : \A k \in S : l <= k
  <2>1. \A k \in S : k = IRQ_TIMER \/ k = IRQ_UART0 \/ k = IRQ_OTHER
    BY DEF Lines
  <2>2. IRQ_TIMER \in Int /\ IRQ_UART0 \in Int /\ IRQ_OTHER \in Int
    BY Constants
  <2> QED
    BY <2>1, <2>2
<1> QED
  BY <1>1 DEF Lowest

\* ... and a highest one.
LEMMA HighestMember ==
    ASSUME NEW S, S \subseteq Lines, S # {}
    PROVE  Highest(S) \in S
<1>1. \E l \in S : \A k \in S : k <= l
  <2>1. \A k \in S : k = IRQ_TIMER \/ k = IRQ_UART0 \/ k = IRQ_OTHER
    BY DEF Lines
  <2>2. IRQ_TIMER \in Int /\ IRQ_UART0 \in Int /\ IRQ_OTHER \in Int
    BY Constants
  <2> QED
    BY <2>1, <2>2
<1> QED
  BY <1>1 DEF Highest

-----------------------------------------------------------------------------
(* The clock gate.                                                         *)

\* clock_enable_timer2 and the idle status that follows the mode.
LEMMA ClockStep ==
    ASSUME IndInv, clock_enable_timer2 \/ ClockSettle
    PROVE  IndInv'
<1>1. CASE ClockDisable
  BY <1>1 DEF ClockDisable, Clock, Clocks, IndInv, Types, TypeOK, ClockGated, Handled, Served, Dispatched, Counting, EachExpiryCounted
<1>2. CASE ClockWaitDisabled
  BY <1>2 DEF ClockWaitDisabled, Clock, Clocks, IndInv, Types, TypeOK, ClockGated, Handled, Served, Dispatched, Counting, EachExpiryCounted
<1>3. CASE ClockSelect
  BY <1>3 DEF ClockSelect, Clock, Clocks, IndInv, Types, TypeOK, ClockGated, Handled, Served, Dispatched, Counting, EachExpiryCounted
<1>4. CASE ClockWake
  BY <1>4 DEF ClockWake, Clock, Clocks, IndInv, Types, TypeOK, ClockGated, Handled, Served, Dispatched, Counting, EachExpiryCounted
<1>5. CASE ClockEnable
  BY <1>5 DEF ClockEnable, Clock, Clocks, IndInv, Types, TypeOK, ClockGated, Handled, Served, Dispatched, Counting, EachExpiryCounted
<1>6. CASE ClockWaitFunc
  BY <1>6 DEF ClockWaitFunc, Clock, Clocks, IndInv, Types, TypeOK, ClockGated, Handled, Served, Dispatched, Counting, EachExpiryCounted
<1>7. CASE ClockSettle
  BY <1>7 DEF ClockSettle, Clock, Clocks, IndInv, Types, TypeOK, ClockGated, Handled, Served, Dispatched, Counting, EachExpiryCounted
<1> QED
  BY <1>1, <1>2, <1>3, <1>4, <1>5, <1>6, <1>7 DEF clock_enable_timer2

-----------------------------------------------------------------------------
(* kmain.                                                                  *)

\* The controller's init leaves every line masked and nothing in service.
LEMMA IrqInitStep ==
    ASSUME IndInv, irq_init
    PROVE  IndInv'
BY Constants DEF irq_init, gicv1_init, am335x_intc_init, Lines, IndInv, Types, TypeOK, ClockGated, Handled, Served, Dispatched, Counting, EachExpiryCounted

\* The timer's registers are touched with the clock on; counting starts from
\* zero.
LEMMA TimerInitStep ==
    ASSUME IndInv, timer_init
    PROVE  IndInv'
<1>1. CASE sp804_init
  BY <1>1, Constants DEF timer_init, sp804_init, IndInv, Types, TypeOK, ClockGated, Handled, Served, Dispatched, Counting, EachExpiryCounted
<1>2. CASE dmtimer_init
  BY <1>2, Constants DEF timer_init, dmtimer_init, IndInv, Types, TypeOK, ClockGated, Handled, Served, Dispatched, Counting, EachExpiryCounted
<1> QED
  BY <1>1, <1>2 DEF timer_init

\* irq_register accepts the numbers of both lines.
LEMMA RegisterLine ==
    ASSUME NEW irq \in {IRQ_TIMER, IRQ_UART0}, irq_register(irq)
    PROVE  /\ irq_table' = irq_table \cup {irq} /\ irq \in Lines
           /\ UNCHANGED <<controller, clock, enabled, active, raised, n, running,
                          tick_count, expiries, missed>>
<1>1. irq \in 0 .. MAX_IRQS - 1
  BY LinesAssumption
<1> QED
  BY <1>1 DEF irq_register, Lines

\* The timer's handler is registered before its line is enabled...
LEMMA RegisterTimerStep ==
    ASSUME IndInv, Step("register_timer", "enable_timer"), irq_register(IRQ_TIMER)
    PROVE  IndInv'
BY RegisterLine DEF IndInv, Types, TypeOK, ClockGated, Handled, Served, Dispatched, Counting, EachExpiryCounted

\* ... and so is the UART's.
LEMMA RegisterUartStep ==
    ASSUME IndInv, Step("register_uart", "enable_uart"), irq_register(IRQ_UART0)
    PROVE  IndInv'
BY RegisterLine DEF IndInv, Types, TypeOK, ClockGated, Handled, Served, Dispatched, Counting, EachExpiryCounted

\* Bank and bit of both controllers address the line that is meant, and no
\* other.
LEMMA EnableLine ==
    ASSUME NEW irq \in {IRQ_TIMER, IRQ_UART0}, irq_enable(irq)
    PROVE  enabled' = enabled \cup {irq} /\ irq \in Lines
<1>1. irq \in Nat /\ irq < MAX_IRQS
  BY Constants
<1> QED
  BY <1>1, BankAndBit DEF irq_enable, gicv1_enable_line, am335x_intc_enable_line, Lines

\* The timer's line is enabled with its handler in the table...
LEMMA EnableTimerStep ==
    ASSUME IndInv, Step("enable_timer", "register_uart"), irq_enable(IRQ_TIMER)
    PROVE  IndInv'
<1>1. enabled' = enabled \cup {IRQ_TIMER} /\ IRQ_TIMER \in Lines
  BY EnableLine
<1> QED
  BY <1>1 DEF irq_enable, IndInv, Types, TypeOK, ClockGated, Handled, Served, Dispatched, Counting, EachExpiryCounted

\* ... and so is the UART's.
LEMMA EnableUartStep ==
    ASSUME IndInv, Step("enable_uart", "user"), irq_enable(IRQ_UART0)
    PROVE  IndInv'
<1>1. enabled' = enabled \cup {IRQ_UART0} /\ IRQ_UART0 \in Lines
  BY EnableLine
<1> QED
  BY <1>1 DEF irq_enable, IndInv, Types, TypeOK, ClockGated, Handled, Served, Dispatched, Counting, EachExpiryCounted

-----------------------------------------------------------------------------
(* The interrupt path.                                                     *)

\* Taking an interrupt changes only where the CPU executes.
LEMMA TakeIrqStep ==
    ASSUME IndInv, NEW s \in BOOLEAN, TakeIrq(s)
    PROVE  IndInv'
BY Constants DEF TakeIrq, IndInv, Types, TypeOK, ClockGated, Handled, Served, Dispatched, Counting, EachExpiryCounted

\* get_active returns a pending line with a handler, or MAX_IRQS for a spurious
\* one.
LEMMA GetActiveStep ==
    ASSUME IndInv, get_active
    PROVE  IndInv'
<1>1. Pending \subseteq Lines /\ Pending \subseteq irq_table /\ Pending \subseteq raised
  BY DEF get_active, Pending, IndInv, Types, TypeOK, ClockGated, Handled, Served, Dispatched, Counting, EachExpiryCounted
<1>2. n' = MAX_IRQS \/ n' \in Pending
  BY <1>1, LowestMember, HighestMember DEF get_active, gicv1_get_active, am335x_intc_get_active
<1>3. controller = "GIC" => active' = IF n' = MAX_IRQS THEN NONE ELSE n'
  <2>1. MAX_IRQS \notin Lines
    BY Constants DEF Lines, MAX_IRQS
  <2> QED
    BY <1>1, <2>1, LowestMember, HighestMember DEF get_active, gicv1_get_active, am335x_intc_get_active
<1>4. active' \in {NONE, MAX_IRQS} \cup Lines
  BY <1>1, LowestMember, HighestMember DEF get_active, gicv1_get_active, am335x_intc_get_active
<1> QED
  BY <1>1, <1>2, <1>3, <1>4, Constants DEF get_active, IndInv, Types, TypeOK, ClockGated, Handled, Served, Dispatched, Counting, EachExpiryCounted

\* A line that is in service has a handler; a spurious interrupt has none to
\* call.
LEMMA DispatchStep ==
    ASSUME IndInv, irq_dispatch
    PROVE  IndInv'
BY Constants DEF irq_dispatch, Lines, IndInv, Types, TypeOK, ClockGated, Handled, Served, Dispatched, Counting, EachExpiryCounted

\* Acknowledging the timer turns its flag into a tick that is still to be
\* counted.
LEMMA TimerIrqStep ==
    ASSUME IndInv, timer_irq
    PROVE  IndInv'
<1>1. IRQ_TIMER \in raised /\ raised' = raised \ {IRQ_TIMER}
  BY DEF timer_irq, sp804_irq, dmtimer_irq, IndInv, Dispatched
<1>2. EachExpiryCounted'
  <2>1. expiries - 1 - 0 = expiries - 0 - 1
    BY DEF IndInv, Types, TypeOK
  <2> QED
    BY <1>1, <2>1 DEF timer_irq, IndInv, Counting, EachExpiryCounted
<1> QED
  BY <1>1, <1>2, Constants DEF timer_irq, IndInv, Types, TypeOK, ClockGated, Handled,
         Served, Dispatched, Counting

\* The tick is counted: the count and the expiry it stands for meet modulo
\* TICK_MOD.
LEMMA TimerTickStep ==
    ASSUME IndInv, timer_tick
    PROVE  IndInv'
<1>1. /\ running /\ expiries \in Int /\ TICK_MOD \in Nat \ {0}
      /\ tick_count' = (tick_count + 1) % TICK_MOD
      /\ raised' = raised /\ expiries' = expiries /\ pc = "timer_tick" /\ pc' = "eoi"
  BY Constants DEF timer_tick, IndInv, Types, TypeOK, Counting
<1>2. PICK u \in Int : u = IF IRQ_TIMER \in raised THEN 1 ELSE 0
  OBVIOUS
<1>3. PICK a \in Int, c \in Int : a = expiries - u - 1 /\ c = 1 /\ a + c = expiries - u - 0
  BY <1>1
<1>4. tick_count = a % TICK_MOD
  BY <1>1, <1>2, <1>3 DEF IndInv, Counting, EachExpiryCounted
<1>5. ((a % TICK_MOD) + c) % TICK_MOD = (a + c) % TICK_MOD
  BY <1>1, ModAdd, Zenon
<1>6. tick_count' = (expiries - u - 0) % TICK_MOD
  BY <1>1, <1>3, <1>4, <1>5, Zenon
<1>7. tick_count' \in 0 .. TICK_MOD - 1
  <2>1. tick_count + 1 \in Int
    BY Constants DEF IndInv, Types, TypeOK
  <2> QED
    BY <1>1, <2>1, DivMod
<1>8. EachExpiryCounted'
  BY <1>1, <1>2, <1>6 DEF EachExpiryCounted
<1> QED
  BY <1>7, <1>8, Constants DEF timer_tick, IndInv, Types, TypeOK, ClockGated, Handled,
         Served, Dispatched, Counting

\* The UART's handler is the business of module UartRx.
LEMMA UartRxIrqStep ==
    ASSUME IndInv, uart_rx_irq
    PROVE  IndInv'
BY Constants DEF uart_rx_irq, Lines, IndInv, Types, TypeOK, ClockGated, Handled, Served, Dispatched, Counting, EachExpiryCounted

\* EOI releases the controller whatever get_active returned.
LEMMA EoiStep ==
    ASSUME IndInv, eoi
    PROVE  IndInv'
BY Constants DEF eoi, gicv1_eoi, am335x_intc_eoi, Lines, NONE, MAX_IRQS, IndInv, Types, TypeOK, ClockGated, Handled, Served, Dispatched, Counting, EachExpiryCounted

-----------------------------------------------------------------------------
(* The devices.                                                            *)

\* An expiry sets the flag, or is missed when the flag is still set.
LEMMA TimerExpireStep ==
    ASSUME IndInv, TimerExpire
    PROVE  IndInv'
BY Constants DEF TimerExpire, Lines, IndInv, Types, TypeOK, ClockGated, Handled, Served, Dispatched, Counting, EachExpiryCounted

\* A device raises its line.
LEMMA RaiseStep ==
    ASSUME IndInv, NEW l \in {IRQ_UART0, IRQ_OTHER}, Raise(l)
    PROVE  IndInv'
BY Constants DEF Raise, Lines, IndInv, Types, TypeOK, ClockGated, Handled, Served, Dispatched, Counting, EachExpiryCounted

-----------------------------------------------------------------------------
(* The interrupt path, alone and below the counter program.                *)

\* Nothing is enabled before kmain.
LEMMA InitInv == Init => IndInv
<1> SUFFICES ASSUME Init PROVE IndInv
  OBVIOUS
<1>1. Types
  <2>1. clock \in Clocks
    BY DEF Init, Clocks
  <2>2. pc \in Gating \cup Clocked
    BY DEF Init
  <2>3. enabled \subseteq Lines /\ active \in {NONE, MAX_IRQS} \cup Lines /\ raised \subseteq Lines
    BY DEF Init, Lines
  <2>4. tick_count \in 0 .. TICK_MOD - 1 /\ expiries \in 0 .. MAX_EXPIRIES
        /\ missed \in 0 .. MAX_EXPIRIES
    BY Constants DEF Init
  <2> QED
    BY <2>1, <2>2, <2>3, <2>4 DEF Init, Types, TypeOK
<1>2. ClockGated /\ Handled /\ Served /\ Dispatched /\ Counting
  BY Constants DEF Init, ClockGated, Handled, Served, Dispatched, Counting, EachExpiryCounted
<1> QED
  BY <1>1, <1>2 DEF IndInv

\* The invariant is inductive.
LEMMA NextInv == IndInv /\ [Next]_vars => IndInv'
<1> SUFFICES ASSUME IndInv, [Next]_vars PROVE IndInv'
  OBVIOUS
<1>1. CASE kmain
  <2>1. CASE clock_enable_timer2
    BY <2>1, ClockStep
  <2>2. CASE irq_init \/ timer_init
    BY <2>2, IrqInitStep, TimerInitStep
  <2>3. CASE Step("register_timer", "enable_timer") /\ irq_register(IRQ_TIMER)
    BY <2>3, RegisterTimerStep
  <2>4. CASE Step("enable_timer", "register_uart") /\ irq_enable(IRQ_TIMER)
    BY <2>4, EnableTimerStep
  <2>5. CASE Step("register_uart", "enable_uart") /\ irq_register(IRQ_UART0)
    BY <2>5, RegisterUartStep
  <2>6. CASE Step("enable_uart", "user") /\ irq_enable(IRQ_UART0)
    BY <2>6, EnableUartStep
  <2> QED
    BY <1>1, <2>1, <2>2, <2>3, <2>4, <2>5, <2>6 DEF kmain
<1>2. CASE ClockSettle
  BY <1>2, ClockStep
<1>3. CASE \E s \in BOOLEAN : TakeIrq(s)
  BY <1>3, TakeIrqStep
<1>4. CASE Handler
  BY <1>4, GetActiveStep, DispatchStep, TimerIrqStep, TimerTickStep, UartRxIrqStep, EoiStep
     DEF Handler
<1>5. CASE Devices
  BY <1>5, TimerExpireStep, RaiseStep DEF Devices
<1>6. CASE UNCHANGED vars
  BY <1>6 DEF vars, IndInv, Types, TypeOK, ClockGated, Handled, Served, Dispatched,
         Counting, EachExpiryCounted
<1> QED
  BY <1>1, <1>2, <1>3, <1>4, <1>5, <1>6 DEF Next

\* The interrupt path keeps its invariant, whatever its devices do.
THEOREM Invariance == Spec => []IndInv
<1> QED
  BY InitInv, NextInv, PTL DEF Spec

\* So does the path with the counter program above it, which reads it only.
THEOREM CounterInvariance == CounterSpec => []IndInv
<1>1. CounterInit => IndInv
  BY InitInv DEF CounterInit
<1>2. [CounterNext]_allVars => [Next]_vars
  BY DEF CounterNext, allVars, DelayStarts, DelayEnds
<1> QED
  BY <1>1, <1>2, NextInv, PTL DEF CounterSpec

\* The registers and counters of the interrupt path keep their types; tick_count
\* keeps its width.
THEOREM TypeCorrectness == CounterSpec => []TypeOK
<1>1. IndInv => TypeOK
  BY DEF IndInv, Types
<1> QED
  BY <1>1, CounterInvariance, PTL

\* clock_enable_timer2 writes CLKSEL only while the module is disabled, and the
\* timer is touched only once it is functional on the 24 MHz oscillator.
THEOREM ClockBeforeTimer == CounterSpec => []TimerClocked
<1>1. IndInv => TimerClocked
  BY DEF IndInv, ClockGated, Counting, TimerClocked
<1> QED
  BY <1>1, CounterInvariance, PTL

\* Every way through irq_dispatch ends what the controller was serving.
THEOREM ControllerFree == CounterSpec => []ControllerReleased
<1>1. IndInv => ControllerReleased
  BY DEF IndInv, Served, ControllerReleased
<1> QED
  BY <1>1, CounterInvariance, PTL

\* irq_dispatch finds a handler for every line the controller delivers.
THEOREM LinesHandled == CounterSpec => []NoOrphanLine
<1>1. IndInv => NoOrphanLine
  BY Constants DEF IndInv, Dispatched, NoOrphanLine, MAX_IRQS
<1> QED
  BY <1>1, CounterInvariance, PTL

\* timer_tick counts every expiry that raised the line once, modulo the width of
\* tick_count, for every width.
THEOREM ExpiriesCounted == CounterSpec => []EachExpiryCounted
<1>1. IndInv => EachExpiryCounted
  BY DEF IndInv, Counting
<1> QED
  BY <1>1, CounterInvariance, PTL

-----------------------------------------------------------------------------
(* The way of a tick to the CPU.                                           *)

\* kmain enables the timer's line, then the UART's, and never another.
EnabledLines ==
    /\ pc \in {"timer_init", "register_timer", "enable_timer"} => enabled = {}
    /\ pc \in {"register_uart", "enable_uart"} => enabled = {IRQ_TIMER}
    /\ pc \in Serving \cup {"user", "get_active"} => enabled = {IRQ_TIMER, IRQ_UART0}

\* With a tick raised in user mode the controller is free and has a line to signal.
TickSignalled ==
    pc = "user" /\ IRQ_TIMER \in raised => active = NONE /\ IRQ_TIMER \in Pending

\* On both boards the timer's line has the lower number.  What get_active then
\* returns with a tick raised: on the GIC the tick, whatever else is pending; on
\* the AM335x, which serves the highest number first, the UART if it is raised at
\* that moment and otherwise the tick.  A tick returned goes to the timer's
\* handler.
TickOrder ==
    [][/\ pc = "get_active" /\ pc' # pc /\ IRQ_TIMER \in raised /\ IRQ_TIMER < IRQ_UART0
             => n' = IF controller = "AM335X" /\ IRQ_UART0 \in raised
                        THEN IRQ_UART0 ELSE IRQ_TIMER
       /\ pc = "dispatch" /\ pc' # pc /\ n = IRQ_TIMER => pc' = "timer_irq"]_vars

\* Only irq_enable changes the lines the controller forwards.
LEMMA EnabledStep == IndInv /\ EnabledLines /\ [Next]_vars => EnabledLines'
<1> SUFFICES ASSUME IndInv, EnabledLines, [Next]_vars PROVE EnabledLines'
  OBVIOUS
<1>1. CASE clock_enable_timer2
  BY <1>1 DEF clock_enable_timer2, ClockDisable, ClockWaitDisabled, ClockSelect,
     ClockWake, ClockEnable, ClockWaitFunc, Clock, EnabledLines
<1>2. CASE irq_init
  BY <1>2 DEF irq_init, gicv1_init, am335x_intc_init, EnabledLines
<1>3. CASE timer_init
  BY <1>3 DEF timer_init, EnabledLines
<1>4. CASE Step("register_timer", "enable_timer") /\ irq_register(IRQ_TIMER)
  BY <1>4 DEF irq_register, EnabledLines
<1>5. CASE Step("enable_timer", "register_uart") /\ irq_enable(IRQ_TIMER)
  BY <1>5, Constants, BankAndBit
     DEF irq_enable, gicv1_enable_line, am335x_intc_enable_line, EnabledLines
<1>6. CASE Step("register_uart", "enable_uart") /\ irq_register(IRQ_UART0)
  BY <1>6 DEF irq_register, EnabledLines
<1>7. CASE Step("enable_uart", "user") /\ irq_enable(IRQ_UART0)
  BY <1>7, Constants, BankAndBit
     DEF irq_enable, gicv1_enable_line, am335x_intc_enable_line, EnabledLines
<1>8. CASE ClockSettle \/ \E s \in BOOLEAN : TakeIrq(s)
  BY <1>8 DEF ClockSettle, TakeIrq, EnabledLines
<1>9. CASE Handler
  BY <1>9 DEF Handler, get_active, irq_dispatch, timer_irq, timer_tick, uart_rx_irq, eoi,
     EnabledLines
<1>10. CASE Devices \/ UNCHANGED vars
  BY <1>10 DEF Devices, TimerExpire, Raise, vars, EnabledLines
<1> QED
  BY <1>1, <1>2, <1>3, <1>4, <1>5, <1>6, <1>7, <1>8, <1>9, <1>10 DEF Next, kmain

\* The timer has the lower number of the two lines, the UART the higher.
LEMMA TimerLowest ==
    ASSUME IndInv, EnabledLines, pc = "get_active", IRQ_TIMER \in raised,
           IRQ_TIMER < IRQ_UART0
    PROVE  /\ Pending # {}
           /\ Lowest(Pending) = IRQ_TIMER
           /\ Highest(Pending) = IF IRQ_UART0 \in raised THEN IRQ_UART0 ELSE IRQ_TIMER
<1>1. Pending = IF IRQ_UART0 \in raised THEN {IRQ_TIMER, IRQ_UART0} ELSE {IRQ_TIMER}
  BY DEF EnabledLines, Pending
<1>2. /\ IRQ_TIMER \in Pending
      /\ \A k \in Pending : IRQ_TIMER <= k
      /\ \A l \in Pending : l <= IRQ_TIMER => l = IRQ_TIMER
  BY <1>1, Constants
<1>3. Lowest(Pending) \in Pending /\ \A k \in Pending : Lowest(Pending) <= k
  BY <1>2 DEF Lowest
<1>4. Highest(Pending) = IF IRQ_UART0 \in raised THEN IRQ_UART0 ELSE IRQ_TIMER
  <2> DEFINE h == IF IRQ_UART0 \in raised THEN IRQ_UART0 ELSE IRQ_TIMER
  <2>1. /\ h \in Pending
        /\ \A k \in Pending : k <= h
        /\ \A l \in Pending : h <= l => l = h
    BY <1>1, Constants
  <2>2. Highest(Pending) \in Pending /\ \A k \in Pending : k <= Highest(Pending)
    BY <2>1 DEF Highest
  <2> QED
    BY <2>1, <2>2
<1> QED
  BY <1>2, <1>3, <1>4

\* get_active takes the first pending line in its controller's order, and the
\* handler found for the tick is the timer's.
LEMMA TickStep ==
    ASSUME IndInv, EnabledLines, Next
    PROVE  /\ pc = "get_active" /\ pc' # pc /\ IRQ_TIMER \in raised /\ IRQ_TIMER < IRQ_UART0
                 => n' = IF controller = "AM335X" /\ IRQ_UART0 \in raised
                            THEN IRQ_UART0 ELSE IRQ_TIMER
           /\ pc = "dispatch" /\ pc' # pc /\ n = IRQ_TIMER => pc' = "timer_irq"
<1>1. ASSUME pc = "get_active", pc' # pc PROVE get_active
  BY <1>1 DEF Next, kmain, clock_enable_timer2, ClockDisable, ClockWaitDisabled, ClockSelect,
     ClockWake, ClockEnable, ClockWaitFunc, irq_init, timer_init, ClockSettle, TakeIrq,
     Handler, irq_dispatch, timer_irq, timer_tick, uart_rx_irq, eoi, Devices, TimerExpire, Raise
<1>2. ASSUME pc = "dispatch", pc' # pc PROVE irq_dispatch
  BY <1>2 DEF Next, kmain, clock_enable_timer2, ClockDisable, ClockWaitDisabled, ClockSelect,
     ClockWake, ClockEnable, ClockWaitFunc, irq_init, timer_init, ClockSettle, TakeIrq,
     Handler, get_active, timer_irq, timer_tick, uart_rx_irq, eoi, Devices, TimerExpire, Raise
<1>3. ASSUME pc = "get_active", pc' # pc, IRQ_TIMER \in raised, IRQ_TIMER < IRQ_UART0
      PROVE  n' = IF controller = "AM335X" /\ IRQ_UART0 \in raised
                     THEN IRQ_UART0 ELSE IRQ_TIMER
  <2>1. get_active
    BY <1>1, <1>3
  <2>2. CASE gicv1_get_active
    BY <1>3, <2>2, TimerLowest DEF gicv1_get_active
  <2>3. CASE am335x_intc_get_active
    BY <1>3, <2>3, TimerLowest DEF am335x_intc_get_active
  <2> QED
    BY <2>1, <2>2, <2>3 DEF get_active
<1>4. ASSUME pc = "dispatch", pc' # pc, n = IRQ_TIMER PROVE pc' = "timer_irq"
  BY <1>2, <1>4, Constants DEF irq_dispatch, IndInv, Dispatched, MAX_IRQS
<1> QED
  BY <1>3, <1>4

\* Once the boot is over no line but the timer's and the UART's is ever forwarded.
THEOREM LinesEnabled == Spec => []EnabledLines
<1>1. Init => EnabledLines
  BY DEF Init, EnabledLines
<1> QED
  BY <1>1, EnabledStep, Invariance, PTL DEF Spec

\* A tick raised in user mode can be signalled at once: nothing that was in service
\* before holds the controller, and nothing masks the line.
THEOREM TickReachesCpu == Spec => []TickSignalled
<1>1. IndInv /\ EnabledLines => TickSignalled
  BY DEF IndInv, Served, EnabledLines, TickSignalled, Pending
<1> QED
  BY <1>1, LinesEnabled, Invariance, PTL

\* The safety half of TimerServed, for every choice of lines: on the GIC a tick
\* waits for the handler that is running, if any, and for no other interrupt; on
\* the AM335x it is passed over only by a UART line raised at that moment.
THEOREM TickServedInOrder == Spec => TickOrder
<1> DEFINE InOrder == /\ pc = "get_active" /\ pc' # pc /\ IRQ_TIMER \in raised
                            /\ IRQ_TIMER < IRQ_UART0
                               => n' = IF controller = "AM335X" /\ IRQ_UART0 \in raised
                                          THEN IRQ_UART0 ELSE IRQ_TIMER
                      /\ pc = "dispatch" /\ pc' # pc /\ n = IRQ_TIMER => pc' = "timer_irq"
<1>1. IndInv /\ EnabledLines /\ [Next]_vars => [InOrder]_vars
  BY TickStep
<1> QED
  BY <1>1, LinesEnabled, Invariance, PTL DEF Spec, TickOrder

-----------------------------------------------------------------------------
(* delay_wall.                                                             *)

\* No step of the interrupt path takes an expiry back.
LEMMA CountersGrow ==
    ASSUME IndInv, IndInv', [Next]_vars
    PROVE  Counted' >= Counted /\ missed' >= missed /\ expiries' >= expiries
<1> USE Constants DEF Counted
<1>0. expiries \in Int /\ missed \in Int
  BY DEF IndInv, Types, TypeOK
<1>1. CASE kmain
  BY <1>0, <1>1 DEF kmain, clock_enable_timer2, ClockDisable, ClockWaitDisabled, ClockSelect,
         ClockWake, ClockEnable, ClockWaitFunc, Clock, irq_init, timer_init, sp804_init,
         dmtimer_init, irq_register, irq_enable
<1>2. CASE ClockSettle \/ \E s \in BOOLEAN : TakeIrq(s)
  BY <1>0, <1>2 DEF ClockSettle, TakeIrq
<1>3. CASE Handler
  BY <1>0, <1>3 DEF Handler, get_active, irq_dispatch, timer_irq, sp804_irq, dmtimer_irq,
         timer_tick, uart_rx_irq, eoi, IndInv, Dispatched
<1>4. CASE Devices
  BY <1>0, <1>4 DEF Devices, TimerExpire, Raise
<1>5. CASE UNCHANGED vars
  BY <1>0, <1>5 DEF vars
<1> QED
  BY <1>1, <1>2, <1>3, <1>4, <1>5 DEF Next

\* A remainder is not larger than the number it is taken of.
LEMMA ModNotLarger ==
    ASSUME NEW m \in Nat \ {0}, NEW a \in Nat
    PROVE  a % m <= a
<1>1. PICK q \in Int, r \in 0 .. m - 1 : r = a % m /\ a = m * q + r
  <2>1. a \div m \in Int /\ a % m \in 0 .. m - 1 /\ a = m * (a \div m) + (a % m)
    BY DivMod
  <2> QED
    BY <2>1, Zenon
<1>2. q >= 0
  <2>1. ASSUME q <= -1 PROVE FALSE
    <3>1. m * q <= -m
      BY <2>1
    <3> QED
      BY <1>1, <3>1
  <2> QED
    BY <2>1
<1>3. m * q >= 0
  BY <1>2
<1> QED
  BY <1>1, <1>3

\* The unsigned difference of two counts never exceeds what was counted between.
LEMMA ElapsedTicks ==
    ASSUME NEW m \in Nat \ {0}, NEW b \in Int, NEW c \in Int, c <= b
    PROVE  ((b % m) - (c % m)) % m <= b - c
<1>1. PICK s \in Int, r \in Int, d \in Int, e \in Int :
         s = c % m /\ r = b % m /\ d = b - s /\ e = b - c
  <2>1. c % m \in Int /\ b % m \in Int
    BY DivMod
  <2> QED
    BY <2>1
<1>2. (r + (-s)) % m = (b + (-s)) % m
  <2>1. PICK t \in Int : t = -s
    OBVIOUS
  <2>2. ((b % m) + t) % m = (b + t) % m
    BY ModAdd, Zenon
  <2> QED
    BY <1>1, <2>1, <2>2, Zenon
<1>3. (b - (c % m)) % m = e % m
  BY <1>1, ModSub, ZenonT(60)
<1>4. r + (-s) = r - s /\ b + (-s) = b - s
  OBVIOUS
<1>5. (r - s) % m = e % m
  BY <1>1, <1>2, <1>3, <1>4, Zenon
<1>6. e % m <= e
  <2>1. e \in Nat
    BY <1>1
  <2> QED
    BY <2>1, ModNotLarger
<1> QED
  BY <1>1, <1>5, <1>6

\* The program starts without a delay under way.
LEMMA DelayInit == CounterInit => Delaying
BY Constants, CounterAssumption DEF CounterInit, Delaying, DelayNeverShort

\* While the program waits, the count only moves away from the start of the
\* delay.
LEMMA DelayStep == IndInv /\ IndInv' /\ Delaying /\ [CounterNext]_allVars => Delaying'
<1> SUFFICES ASSUME IndInv, IndInv', Delaying, [CounterNext]_allVars PROVE Delaying'
  OBVIOUS
<1>0. /\ expiries \in Int /\ missed \in Int /\ TICK_MOD \in Nat \ {0} /\ DELAY_TICKS \in Int
      /\ expiries' \in Int /\ missed' \in Int /\ Counted \in Int /\ Counted' \in Int
  BY Constants, CounterAssumption DEF IndInv, Types, TypeOK, Counted
<1>1. CASE [Next]_vars /\ UNCHANGED counter
  <2>1. Counted' >= Counted /\ missed' >= missed /\ expiries' >= expiries
    BY <1>1, CountersGrow
  <2>2. at' = at /\ start' = start /\ due' = due
    BY <1>1 DEF counter
  <2>3. ASSUME at = "delay"
        PROVE  \E c, m \in Int : /\ c <= Counted' /\ m <= missed'
                                 /\ start = c % TICK_MOD /\ due = c + m + DELAY_TICKS
    <3>1. PICK c \in Int, m \in Int : /\ c <= Counted /\ m <= missed
                                      /\ start = c % TICK_MOD /\ due = c + m + DELAY_TICKS
      BY <2>3 DEF Delaying
    <3>2. c <= Counted' /\ m <= missed'
      BY <1>0, <2>1, <3>1
    <3> QED
      BY <3>1, <3>2
  <2>4. DelayNeverShort'
    <3>1. PICK e \in Int, m \in Int, f \in Int, k \in Int :
             /\ e = expiries /\ m = missed /\ f = expiries' /\ k = missed'
      BY <1>0, Zenon
    <3>2. f >= e /\ k >= m
      BY <2>1, <3>1, Zenon
    <3>3. PICK d \in Int : d = due /\ (at = "done" => e + m >= d)
      BY <3>1, Zenon DEF Delaying, DelayNeverShort, Elapsed
    <3>4. at = "done" => f + k >= d
      <4>1. f + k >= e + m
        BY <3>2
      <4> QED
        BY <3>3, <4>1
    <3> QED
      BY <2>2, <3>1, <3>3, <3>4, Zenon DEF DelayNeverShort, Elapsed
  <2> QED
    BY <2>2, <2>3, <2>4 DEF Delaying
<1>2. CASE DelayStarts
  <2>1. Counted = expiries - (IF IRQ_TIMER \in raised THEN 1 ELSE 0)
    BY <1>0, <1>2 DEF DelayStarts, Counted
  <2>2. /\ at' = "delay" /\ UNCHANGED vars /\ start' = tick_count
        /\ due' = Counted + missed + DELAY_TICKS
    BY <1>0, <1>2, <2>1 DEF DelayStarts, Elapsed
  <2>3. tick_count = Counted % TICK_MOD
    BY <1>2 DEF DelayStarts, IndInv, Counting, EachExpiryCounted, Counted
  <2>4. Counted' = Counted /\ missed' = missed
    BY <2>2 DEF vars, Counted
  <2>5. Counted <= Counted /\ missed <= missed /\ due' \in Int
    BY <1>0, <2>2
  <2>6. \E c, m \in Int : /\ c <= Counted /\ m <= missed
                          /\ start' = c % TICK_MOD /\ due' = c + m + DELAY_TICKS
    BY <1>0, <2>2, <2>3, <2>5, Zenon
  <2> QED
    BY <2>2, <2>4, <2>5, <2>6 DEF Delaying, DelayNeverShort
<1>3. CASE DelayEnds
  <2>1. /\ at = "delay" /\ at' = "done" /\ due' = due /\ UNCHANGED vars
        /\ ~((tick_count - start) % TICK_MOD < DELAY_TICKS)
        /\ tick_count = Counted % TICK_MOD
    BY <1>3 DEF DelayEnds, Waits, IndInv, Counting, EachExpiryCounted, Counted
  <2>2. PICK c \in Int, m \in Int : /\ c <= Counted /\ m <= missed
                                    /\ start = c % TICK_MOD /\ due = c + m + DELAY_TICKS
    BY <2>1 DEF Delaying
  <2>3. PICK b \in Int : b = Counted /\ c <= b /\ b <= expiries
    <3>1. Counted <= expiries
      BY <1>0 DEF Counted
    <3> QED
      BY <1>0, <2>2, <3>1
  <2>4. ((b % TICK_MOD) - (c % TICK_MOD)) % TICK_MOD <= b - c
    BY <1>0, <2>3, ElapsedTicks
  <2>5. PICK w \in Int : w = (tick_count - start) % TICK_MOD /\ w <= b - c
    <3>1. tick_count - start \in Int
      BY <1>0, <2>1, <2>2, DivMod
    <3>2. (tick_count - start) % TICK_MOD \in Int
      BY <1>0, <3>1, DivMod
    <3> QED
      BY <2>1, <2>2, <2>3, <2>4, <3>2, Zenon
  <2>6. w >= DELAY_TICKS
    BY <1>0, <2>1, <2>5
  <2>7. expiries + missed >= due
    BY <1>0, <2>2, <2>3, <2>5, <2>6
  <2> QED
    BY <2>1, <2>7 DEF vars, Delaying, DelayNeverShort, Elapsed
<1> QED
  BY <1>1, <1>2, <1>3 DEF CounterNext, allVars

\* delay_wall of counter.c never returns before the timer has expired DELAY_TICKS
\* times, for every delay shorter than the wrap of tick_count and however long
\* the program is kept from looking.
THEOREM DelayFullLength == CounterSpec => []DelayNeverShort
<1>1. Delaying => DelayNeverShort
  BY DEF Delaying
<1> QED
  BY <1>1, DelayInit, DelayStep, CounterInvariance, PTL DEF CounterSpec
=============================================================================
