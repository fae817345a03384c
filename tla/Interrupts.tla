----------------------------- MODULE Interrupts -----------------------------
(***************************************************************************)
(* The interrupt path below the scheduler on both boards: the clock gate   *)
(* of the AM335x timer, the devices' interrupt lines, the interrupt        *)
(* controller (GIC v1 or AM335x INTC), irq_dispatch with its handler       *)
(* table, and the periodic timer's acknowledge and tick.  kmain sets the   *)
(* path up with the CPU's interrupts masked; afterwards an interrupt is    *)
(* taken whenever the controller signals one in user mode (pc = "user";    *)
(* the kernel itself runs masked).  Devices assert their lines at any      *)
(* moment, also between two register accesses of a handler.                *)
(***************************************************************************)
EXTENDS Integers

CONSTANTS
    Controllers,         \* "GIC" (qemu/board.c), "AM335X" (bbb/board.c)
    IRQ_TIMER,           \* board.h
    IRQ_UART0,           \* board.h
    IRQ_OTHER,           \* a line the kernel does not use
    TICK_MOD,            \* tick_count is an unsigned of this modulus
    MAX_EXPIRIES         \* bound: timer expiries in a behaviour

MAX_IRQS == 128
NONE     == -1           \* the controller serves no interrupt

ASSUME LinesAssumption ==
    /\ Controllers \subseteq {"GIC", "AM335X"}
    /\ {IRQ_TIMER, IRQ_UART0, IRQ_OTHER} \subseteq 0 .. MAX_IRQS - 1
    /\ IRQ_TIMER # IRQ_UART0 /\ IRQ_TIMER # IRQ_OTHER /\ IRQ_UART0 # IRQ_OTHER

ASSUME CountsAssumption == TICK_MOD \in Nat \ {0} /\ MAX_EXPIRIES \in Nat

Lines == {IRQ_TIMER, IRQ_UART0, IRQ_OTHER}

VARIABLES
    controller,  \* the chips the board has
    clock,       \* AM335x: the clock registers of DMTIMER2
    pc,          \* the next step of kmain or of the interrupt path
    irq_table,   \* lines with a handler
    enabled,     \* lines the controller forwards
    active,      \* what the controller waits to see the end of
    raised,      \* lines their device asserts
    n,           \* what get_active returned
    running,     \* the timer counts with the period of the tick
    tick_count,  \* timer_core.c
    expiries,    \* timer expiries that raised the line
    missed       \* timer expiries that found the line raised

hw     == <<enabled, active>>
counts == <<tick_count, expiries, missed>>
vars   == <<controller, clock, pc, irq_table, hw, raised, n, running, counts>>

Step(from, to) == pc = from /\ pc' = to

\* mode is written, idle follows it in the hardware's own time; sel is CLKSEL,
\* l4ls the clock domain the timer hangs on.
Clocks ==
    [mode : {"disable", "enable"}, idle : {"func", "trans", "disabled"},
     sel : {"TCLKIN", "M_OSC", "32KHZ"}, l4ls : {"asleep", "awake"}]

(***************************************************************************)
(* On the AM335x the boot ROM and the SPL have used the controller, the    *)
(* timer and its clock before; the other board starts from reset, where    *)
(* the timer needs no gate and clock has no meaning.                       *)
(***************************************************************************)
Init ==
    /\ controller \in Controllers
    /\ \/ /\ controller = "AM335X"
          /\ pc = "clock_disable"
          /\ clock \in {c \in Clocks : c.idle = "func" =>
                                          c.mode = "enable" /\ c.l4ls = "awake"}
          /\ enabled \in SUBSET Lines /\ active \in {NONE, IRQ_OTHER}
          /\ raised \in SUBSET {IRQ_OTHER, IRQ_TIMER}
       \/ /\ controller = "GIC"
          /\ pc = "irq_init"
          /\ clock = [mode |-> "enable", idle |-> "func", sel |-> "M_OSC",
                      l4ls |-> "awake"]
          /\ enabled = {} /\ active = NONE
          /\ raised \in SUBSET {IRQ_OTHER}
    /\ irq_table = {}
    /\ n = MAX_IRQS /\ running = FALSE
    /\ tick_count = 0 /\ expiries = 0 /\ missed = 0

-----------------------------------------------------------------------------
(* clock_enable_timer2, before anything touches the timer                  *)

Clock(c) ==
    /\ clock' = c
    /\ UNCHANGED <<controller, irq_table, hw, raised, n, running, counts>>

ClockDisable == Step("clock_disable", "wait_disabled")
                /\ Clock([clock EXCEPT !.mode = "disable"])

ClockWaitDisabled_Once == Step("wait_disabled", "clock_select") /\ Clock(clock)
ClockWaitDisabled ==
    /\ clock.idle = "disabled"
    /\ Step("wait_disabled", "clock_select") /\ Clock(clock)

ClockSelect == Step("clock_select", "clock_wake")
               /\ Clock([clock EXCEPT !.sel = "M_OSC"])

ClockWake == Step("clock_wake", "clock_enable")
             /\ Clock([clock EXCEPT !.l4ls = "awake"])

ClockEnable == Step("clock_enable", "wait_func")
               /\ Clock([clock EXCEPT !.mode = "enable"])

ClockWaitFunc ==
    /\ clock.idle = "func"
    /\ Step("wait_func", "irq_init") /\ Clock(clock)

clock_enable_timer2 ==
    \/ ClockDisable \/ ClockWaitDisabled \/ ClockSelect
    \/ ClockWake \/ ClockEnable \/ ClockWaitFunc

\* The module follows MODULEMODE; it becomes functional only in a clock domain
\* that is awake.
ClockSettle ==
    LET target == IF clock.mode = "disable" THEN "disabled" ELSE "func"
    IN  /\ clock.idle # target
        /\ target = "func" => clock.l4ls = "awake"
        /\ clock' = [clock EXCEPT !.idle = IF @ = "trans" THEN target ELSE "trans"]
        /\ UNCHANGED <<controller, pc, irq_table, hw, raised, n, running, counts>>

-----------------------------------------------------------------------------
(* kmain *)

\* From reset every line is masked once more and nothing is being served.
gicv1_init ==
    /\ controller = "GIC"
    /\ enabled' = {}
    /\ UNCHANGED active

am335x_intc_init_NoMask ==
    /\ controller = "AM335X"
    /\ active' = NONE
    /\ UNCHANGED enabled

\* Soft reset, all lines masked, NEWIRQAGR.
am335x_intc_init ==
    /\ controller = "AM335X"
    /\ enabled' = {}
    /\ active' = NONE

irq_init ==
    /\ Step("irq_init", "timer_init")
    /\ irq_table' = {}
    /\ gicv1_init \/ am335x_intc_init
    /\ UNCHANGED <<controller, clock, raised, n, running, counts>>

sp804_init == controller = "GIC" /\ running' = TRUE /\ UNCHANGED raised

\* Soft reset and IRQSTATUS written: an overflow of the timer's former life is
\* forgotten.
dmtimer_init ==
    /\ controller = "AM335X"
    /\ raised' = raised \ {IRQ_TIMER}
    /\ running' = TRUE

timer_init ==
    /\ Step("timer_init", "register_timer")
    /\ sp804_init \/ dmtimer_init
    /\ UNCHANGED <<controller, clock, irq_table, hw, n, counts>>

irq_register(irq) ==
    /\ irq_table' = irq_table \cup ({irq} \cap 0 .. MAX_IRQS - 1)
    /\ UNCHANGED <<controller, clock, hw, raised, n, running, counts>>

\* A bit in the bank of the line, written to a register where ones act and
\* zeros do not: the other lines of the bank stay as they are.
gicv1_enable_line_NoBank(irq) ==
    /\ controller = "GIC"
    /\ enabled' = enabled \cup ({irq % 32} \cap Lines)
gicv1_enable_line(irq) ==
    /\ controller = "GIC"
    /\ enabled' = enabled \cup {32 * (irq \div 32) + (irq % 32)}

am335x_intc_enable_line(irq) ==
    /\ controller = "AM335X"
    /\ enabled' = enabled \cup {32 * (irq \div 32) + (irq % 32)}

irq_enable(irq) ==
    /\ IF irq < MAX_IRQS
          THEN gicv1_enable_line(irq) \/ am335x_intc_enable_line(irq)
          ELSE UNCHANGED enabled
    /\ UNCHANGED <<controller, clock, irq_table, active, raised, n, running, counts>>

kmain ==
    \/ clock_enable_timer2
    \/ irq_init
    \/ timer_init
    \/ Step("register_timer", "enable_timer") /\ irq_register(IRQ_TIMER)
    \/ Step("enable_timer", "register_uart") /\ irq_enable(IRQ_TIMER)
    \/ Step("register_uart", "enable_uart") /\ irq_register(IRQ_UART0)
    \/ Step("enable_uart", "user") /\ irq_enable(IRQ_UART0)

-----------------------------------------------------------------------------
(* The interrupt path *)

Pending == raised \cap enabled

\* Both chips' init gives every line the same priority.  Between equals the GIC
\* serves the lowest number first, the AM335x the highest.
Lowest(S)  == CHOOSE l \in S : \A k \in S : l <= k
Highest(S) == CHOOSE l \in S : \A k \in S : k <= l

\* The controller signals the CPU.  It may also do so for a line that has been
\* withdrawn by the time it is asked: a spurious interrupt.
TakeIrq(spurious) ==
    /\ active = NONE
    /\ Pending # {} \/ spurious
    /\ Step("user", "get_active")
    /\ UNCHANGED <<controller, clock, irq_table, hw, raised, n, running, counts>>

\* IAR: with no line pending the GIC returns 1023 and serves nothing.
gicv1_get_active ==
    /\ controller = "GIC"
    /\ n' = IF Pending = {} THEN MAX_IRQS ELSE Lowest(Pending)
    /\ active' = IF Pending = {} THEN NONE ELSE n'

am335x_intc_get_active_NoSpurious ==
    /\ controller = "AM335X"
    /\ n' = IF Pending = {} THEN 0 ELSE Highest(Pending)
    /\ active' = n'

\* SIR_IRQ: with no line pending the AM335x sets the spurious flag, and still
\* waits for NEWIRQAGR.
am335x_intc_get_active ==
    /\ controller = "AM335X"
    /\ n' = IF Pending = {} THEN MAX_IRQS ELSE Highest(Pending)
    /\ active' = n'

get_active ==
    /\ Step("get_active", "dispatch")
    /\ gicv1_get_active \/ am335x_intc_get_active
    /\ UNCHANGED <<controller, clock, irq_table, enabled, raised, running, counts>>

irq_dispatch ==
    /\ pc = "dispatch"
    /\ pc' = IF n < MAX_IRQS /\ n \in irq_table
                 THEN IF n = IRQ_TIMER THEN "timer_irq" ELSE "uart_rx_irq"
                 ELSE "eoi"
    /\ UNCHANGED <<controller, clock, irq_table, hw, raised, n, running, counts>>

\* INTCLR
sp804_irq == controller = "GIC" /\ raised' = raised \ {IRQ_TIMER}

\* IRQSTATUS
dmtimer_irq == controller = "AM335X" /\ raised' = raised \ {IRQ_TIMER}

\* The chip driver acknowledges the overflow first, then calls timer_tick.
timer_irq ==
    /\ Step("timer_irq", "timer_tick")
    /\ sp804_irq \/ dmtimer_irq
    /\ UNCHANGED <<controller, clock, irq_table, hw, n, running, counts>>

timer_tick_AcksLate ==
    /\ Step("timer_tick", "eoi")
    /\ tick_count' = (tick_count + 1) % TICK_MOD
    /\ raised' = raised \ {IRQ_TIMER}
    /\ UNCHANGED <<controller, clock, irq_table, hw, n, running, expiries, missed>>

timer_tick ==
    /\ Step("timer_tick", "eoi")
    /\ tick_count' = (tick_count + 1) % TICK_MOD
    /\ UNCHANGED <<controller, clock, irq_table, hw, raised, n, running, expiries, missed>>

\* The UART driver empties the FIFO, which drops the line (module UartRx).
uart_rx_irq ==
    /\ Step("uart_rx_irq", "eoi")
    /\ raised' = raised \ {IRQ_UART0}
    /\ UNCHANGED <<controller, clock, irq_table, hw, n, running, counts>>

\* EOIR takes the id that IAR returned, and 1023 ends nothing.
gicv1_eoi == controller = "GIC" /\ active' = IF n # active THEN active ELSE NONE

am335x_intc_eoi_NotSpurious ==
    /\ controller = "AM335X"
    /\ active' = IF n >= MAX_IRQS THEN active ELSE NONE

\* NEWIRQAGR ends whatever the AM335x waits for.
am335x_intc_eoi == controller = "AM335X" /\ active' = NONE

eoi ==
    /\ Step("eoi", "user")
    /\ gicv1_eoi \/ am335x_intc_eoi
    /\ UNCHANGED <<controller, clock, irq_table, enabled, raised, n, running, counts>>

Handler == \/ get_active \/ irq_dispatch \/ timer_irq \/ timer_tick
           \/ uart_rx_irq \/ eoi

-----------------------------------------------------------------------------
(* Devices *)

\* The overflow flag is one bit: an expiry that finds it set leaves no trace.
TimerExpire ==
    /\ running
    /\ expiries + missed < MAX_EXPIRIES
    /\ raised' = raised \cup {IRQ_TIMER}
    /\ IF IRQ_TIMER \in raised
          THEN missed' = missed + 1 /\ UNCHANGED expiries
          ELSE expiries' = expiries + 1 /\ UNCHANGED missed
    /\ UNCHANGED <<controller, clock, pc, irq_table, hw, n, running, tick_count>>

Raise(l) ==
    /\ raised' = raised \cup {l}
    /\ UNCHANGED <<controller, clock, pc, irq_table, hw, n, running, counts>>

Devices == TimerExpire \/ \E l \in {IRQ_UART0, IRQ_OTHER} : Raise(l)

Next == \/ kmain \/ ClockSettle
        \/ \E s \in BOOLEAN : TakeIrq(s)
        \/ Handler \/ Devices

\* kmain and the handlers are straight code that nothing interrupts; the clock
\* module reaches the state it was asked for; the CPU takes an interrupt that
\* stays signalled in user mode.
Fairness == /\ WF_vars(kmain) /\ WF_vars(ClockSettle)
            /\ WF_vars(Handler) /\ WF_vars(TakeIrq(FALSE))

Spec == Init /\ [][Next]_vars /\ Fairness

-----------------------------------------------------------------------------
(* Properties *)

\* Types; tick_count keeps its width.
TypeOK ==
    /\ controller \in Controllers
    /\ clock \in Clocks
    /\ irq_table \subseteq Lines /\ enabled \subseteq Lines
    /\ active \in {NONE, MAX_IRQS} \cup Lines
    /\ raised \subseteq Lines
    /\ n \in {MAX_IRQS} \cup Lines
    /\ running \in BOOLEAN
    /\ tick_count \in 0 .. TICK_MOD - 1
    /\ expiries \in 0 .. MAX_EXPIRIES /\ missed \in 0 .. MAX_EXPIRIES

\* Whatever clocks the earlier boot stages left behind and however long the
\* module takes to follow: CLKSEL is written only while the module is disabled,
\* and from the moment the driver first touches the timer the module is
\* functional, in a domain that is awake, on the 24 MHz oscillator its reload
\* value was computed for.
TimerClocked ==
    /\ pc = "clock_select" => clock.idle = "disabled"
    /\ pc = "timer_init" \/ running =>
          clock.idle = "func" /\ clock.sel = "M_OSC" /\ clock.l4ls = "awake"

\* Whatever was dispatched, a timer tick, input, a line without a handler or a
\* spurious interrupt, the controller waits for nothing when the CPU is back in
\* user mode, so that it can signal the next one.
ControllerReleased == pc = "user" => active = NONE

\* The controller never delivers a line that has no handler: nobody would
\* quieten its device and it would interrupt again for ever.
NoOrphanLine == pc = "dispatch" /\ n < MAX_IRQS => n \in irq_table

\* Once the timer runs, every expiry that raised its line is counted by
\* timer_tick exactly once, and nothing else is: it is counted, or its line is
\* still raised, or the driver has acknowledged it and is about to count it.  An
\* expiry between the acknowledge and the count is not lost, and one from before
\* the timer's initialisation is not counted.
EachExpiryCounted ==
    running =>
      tick_count =
        (expiries - (IF IRQ_TIMER \in raised THEN 1 ELSE 0)
                  - (IF pc = "timer_tick" THEN 1 ELSE 0)) % TICK_MOD

\* The UART interrupts again and again, without end.
UartStorm == []<>(pc = "uart_rx_irq")

\* kmain gets past its waits for the clock module, and then a raised timer line
\* reaches timer_tick, whatever the other lines and spurious interrupts do.  On
\* the GIC that is unconditional.  On the AM335x the UART's line goes first, so
\* there the tick is promised only if the input pauses at some time: nothing but
\* UART interrupts without end can hold it back.
TimerServed ==
    /\ <>(pc = "user")
    /\ \/ controller = "AM335X" /\ UartStorm
       \/ (running /\ IRQ_TIMER \in raised) ~> (pc = "timer_tick")
=============================================================================
