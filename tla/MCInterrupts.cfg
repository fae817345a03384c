\* The lines are those of platform/qemu/board.h.
SPECIFICATION CounterSpec
CONSTANTS
    Controllers = {"GIC", "AM335X"}
    IRQ_TIMER = 36
    IRQ_UART0 = 44
    IRQ_OTHER = 40
    TICK_MOD = 4
    MAX_EXPIRIES = 9
    DELAY_TICKS = 2
INVARIANTS
    TypeOK
    TimerClocked
    ControllerReleased
    NoOrphanLine
    EachExpiryCounted
    DelayNeverShort
PROPERTY
    TimerServed
