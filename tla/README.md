# Verification of the RingNova kernel

RingNova (the RefixOS repository) is a bare-metal ARMv7-A kernel for one core:
three static user processes, each in a 1 MB address space of its own, a
preemptive round-robin scheduler, eight system calls, interrupt-driven UART
input, and two boards (QEMU realview-pb-a8 and BeagleBone Black). This directory
holds TLA+ models of it, TLC runs on small instances, and TLAPS proofs for every
value of the constants. `PROJECT.json` lists every run, the source lines behind
every definition, the hazards and the theorems.

    tlc -config MCKernel_any.cfg MCKernel     # a run
    tlapm KernelProofs.tla                    # the proofs of a module *Proofs.tla

## 1. Inventory

| Part | Source | State | Operations | What makes it correct |
|---|---|---|---|---|
| Scheduler | `kernel/sched/scheduler.c` | `current`, `need_reschedule`, `blocked_reader`, `wake_hint`, the process states | `schedule`, `scheduler_tick`, `scheduler_request_resched`, `scheduler_block_on_input`, `scheduler_wake_reader` | one process RUNNING, no stale hint, no lost wake-up, nobody starved, the dead stay dead |
| System calls | `kernel/syscall/syscall.c` | none of its own | write, getpid, yield, exit, read, ps, kill, ticks | every call that asks for a switch gets it; blocking ends when input comes; user pointers are checked |
| Exceptions | `exception_entry.S`, `exception_handlers.c` | exception stacks, kernel stacks | SVC, IRQ, aborts, undefined | a user fault costs one process; stacks stay bounded and balanced |
| Context switch | `context_switch.S` | banked registers, TTBR0, TLB, I-cache | save, swap, load | registers and address space belong to the process that runs |
| Process table | `process.c`, `proc.h` | PCBs, page tables, kernel stacks, user images | `process_init_all`, `process_first_run` | first entry uses the same frames as a resume |
| UART input | `uart_core.c`, `pl011.c`, `ns16550.c` | ring, chip FIFO, interrupt bits | push, pop, receive interrupt | bytes in order, none stranded |
| Interrupt controller | `intc_core.c`, `gicv1.c`, `am335x_intc.c` | handler table, line masks, the interrupt in service | init, register, enable, dispatch, EOI | always released, no line without a handler |
| Timer | `timer_core.c`, `sp804.c`, `dmtimer.c` | `tick_count`, overflow flag | init, acknowledge, tick | every accepted expiry counted once |
| MMU | `pgtable.c`, `mmu.c`, `mmu_enable.S`, `periph_map.c` | `boot_pgd`, `proc_pgd`, TLB | build tables, enable, drop identity | execution stays mapped; processes isolated |
| Boot | `start.S`, `main.c` | the order of all of the above | reset to user mode | everything in place before IRQs are unmasked |
| Platform wiring | `platform/*/board.c` | the clock registers of DMTIMER2 | `clock_enable_timer2`, the binding of drivers | the timer has its clock before it is touched |
| User libc | `user/libc/`, `user/crt0.S` | none | eight call wrappers, string functions | registers and numbers agree with the kernel's table |
| Shell | `user/apps/shell/shell.c` | line buffer, the terminal row it paints | editing, word matching, six commands | buffer never overrun, the screen shows what was typed since others last printed, the right command is performed |
| Counter | `user/apps/counter/counter.c` | the start of a delay | `delay_wall` | a delay is never short, also across the wrap of `tick_count` |

Interactions. All kernel code runs with IRQs masked, so kernel code never
interleaves with kernel code; it interleaves with *hardware* (a byte or a timer
expiry between any two instructions, TLB and cache fills) and, through
`context_switch` inside `schedule()`, with *other processes'* handlers suspended
half-way (in `handle_irq`, `handle_svc`, `scheduler_block_on_input` or
`user_fault_kill`). The UART interrupt and `sys_read` share the ring and the wait
slot; the handlers and `schedule()` share `need_reschedule` and `wake_hint`.

Hard behaviours: the sleep/wake-up race of `sys_read`; flags set in one
handler and consumed in another process's handler; kills and exits that leave
nobody to run; interrupt bits cleared before they are seen; the windows around
TTBR0, TLB and SCTLR writes; the order of the boot path. None of the code
persists anything, so there is no crash recovery.

## 2. Modules

| Module | Models | Notes |
|---|---|---|
| `Kernel` | scheduler, system calls, faults, IRQ paths of the running kernel | the core; one action per handler segment, cut at the calls of `schedule()` |
| `ProcessLife` | the abstract life cycle of processes: live, asleep, gone; who has the CPU; how much is unread | what `Kernel` promises its users; refinement `Kernel => ProcessLife` (`ImplementsLife`) |
| `KernelClaims` | what comments and docs claim and the code does not keep | only used by the violation runs |
| `KernelProofs` | theorems about `Kernel` | |
| `Syscalls` | the system call boundary with its data: libc wrappers, dispatch, pointer check, byte loops, results | complements `Kernel`, which leaves the data out |
| `SyscallsProofs` | theorems about `Syscalls` | induction over the rows of the listing |
| `Shell` | line editor, word matching, `atoi`, commands | with the row of the terminal that the echo paints |
| `BoundedFifo`, `UartRing` | the abstract queue, and `uart_core.c`'s ring that implements it | refinement `UartRing => BoundedFifo` |
| `UartRx` | chip FIFO and interrupt bits, driver loop, ring, reader | PL011 and NS16550 |
| `ContextSwitch` | entry stubs, frames, `context_switch.S` | register by register, TLB and I-cache included |
| `Boot` | reset to user mode: page tables, MMU, caches, set-up order | real addresses of both boards, in sections |
| `Interrupts` | AM335x timer clock, controller, dispatch, timer acknowledge and tick | GIC with SP804, AM335x INTC with DMTIMER |
| `Counter` | `delay_wall` on top of `Interrupts` | composition: the program sees the kernel's count, the property the timer's |
| `ContextSwitchProofs`, `UartRingProofs`, `UartRxProofs`, `InterruptsProofs`, `BootProofs` | theorems about the module of that name; `InterruptsProofs` covers `Counter` too | |
| `ShellProofs` | theorems about `Shell` | recursive functions and words of a line |
| `MC*` | the instances | |

**Kernel.** `pc[p]` says where process `p` executes, or where its kernel stack
resumes. A handler is one action up to its call of `schedule()` and `schedule()`
is the next one (`ScheduleNotNeeded`, `ScheduleHint`, `ScheduleRing`): the CPU
changes hands there, and two kernels' worth of state meet there. `sys_read` is a
loop (`ReadCopy`, `ReadBlock`), re-entered when the process is switched back in.
`Program[p]` restricts the events that `p`'s user code causes; nothing else is
assumed of user code. Input is counted, not identified. Left out: return values,
messages, `switch_count`, `tick_count`.

**ProcessLife.** `Kernel` maps its table state to a life: READY and RUNNING are
live, BLOCKED is asleep, DEAD is gone. `ImplementsLife` says in one formula
that the dead never come back, that the CPU only goes to the living, that only the
running process falls asleep and only with nothing to read, and that one input
wakes at most one sleeper.

**Syscalls.** User code passes any of `Args`, chosen at the ends of the window and of
the word, as pointer, length or pid; registers are words that wrap. The loops of
`sys_write`, `sys_read` and `sys_ps` move one byte per step, and `sys_read` may sleep
between two of them while other processes make calls of their own. A process
gets the CPU by a nondeterministic `Schedule`: which one is `Kernel`'s subject.

**Shell.** The buffer is the C string, a NUL typed by the user included, so that
`match_word`, `skip_spaces` and `atoi` stop where the code stops. The terminal is external: a
row of cells, on which the echo and the erase sequence act. It is shared: `OtherOutput` is
the counter, another program or a kernel message printing in the midst of the editing, at
any time another process is alive. The row then starts anew right of that output, and the
history variable `above` counts the characters of the line that stand before it. A key is
one step although the shell updates its line before it echoes: echo and erase sequence are
one `sys_write` each, which runs with IRQs masked, and output that falls between the
update and the echo leaves the terminal as if it had come before the key. The history variable
`did` records the command performed, which `CommandExact` compares with a
reference reading of the line.

**ContextSwitch.** Registers are values tagged with their owner, a history
variable `view` remembers what each program left in its registers, and the switch
is cut between the instructions that touch TTBR0, the TLB, the I-cache and the
banked registers. C handlers may clobber what the AAPCS lets them.

**UartRx.** Bytes are numbered, so that order and loss are visible. The PL011's
raw interrupt bits are set by the level and by the receive timeout and cleared by
the driver's ICR write; the NS16550's line follows the FIFO.

**Boot.** Each page table is a function on sampled sections: the ends of every
range of the layout and their neighbours, with the numbers of the board that was
chosen at the start. RAM, the
TLB and CPSR.I hold arbitrary leftovers at reset. An access resolves to a cached
translation or to the table's entry, whichever the hardware picks, and the
properties ask that all outcomes be right.

**Interrupts.** On the AM335x the clock registers start as the boot stages left them
and the module's idle status follows the mode in its own time; `kmain` then sets
up the controller and the timer. `active` is what the controller waits to see the end of. The GIC
ends the id written to EOIR and nothing for 1023; the AM335x also waits after a
spurious interrupt. The timer's overflow flag is one bit: expiries that find it
set (`missed`) are lost in hardware, all others must be counted. `Counter` adds the
program: its turn comes at any moment in user mode, however late.

## 3. Runs

| Run | Question | Result |
|---|---|---|
| `kernel_any_programs` | safety of the kernel with arbitrary programs; it implements `ProcessLife` | holds |
| `kernel_one_reader` | wake-ups and liveness with one reader | holds |
| `uart_ring` | ring refines a bounded FIFO | holds |
| `uart_rx` | order and delivery of input, both UART chips | holds |
| `context_switch` | registers, stacks, translations across switches | holds |
| `boot` | the boot path, both boards | holds |
| `interrupts` | timer clock, controller, tick and `delay_wall`, both boards | holds |
| `syscalls` | every call's memory accesses and results, for pointers and lengths at every edge | holds |
| `shell` | line editor and commands over every sequence of keys, with other processes printing between them | holds |
| `claim_*` (3) | claims of comments and docs | violated, see section 5 |

Bounds, and why they are enough:

* `NUM_PROCESSES = 3` is the kernel's own number.
* `RX_CAPACITY = FIFO_DEPTH = 2`, reads of 1 and 3: empty, partly filled, full and
  overflowing ring and FIFO, reads that are satisfied at once, in part and not at
  all. The code's sizes (127, 16) differ only in how many steps it takes.
* Ring of 4 slots with indices modulo 8 and bytes 0, 127, 128, 255: the indices wrap
  at a multiple of the ring size, as 2^32 is a multiple of 128, and the bytes stand on
  both sides of the sign bit and at the -1 that means empty. `CHAR_MAX = 255`: the
  Makefile leaves `char` as ARM's compilers have it, unsigned; the proofs cover a
  signed one too.
* `MAX_BYTES = 7` over a FIFO of 3, a trigger of 2 and a ring of 2: overflow of
  both, bytes below and above the trigger. These runs end when the input ends;
  hence `CHECK_DEADLOCK FALSE`.
* `TLB_SIZE = 1`: each property speaks of one section at a time, so one cached
  translation, of any section, shows every stale one.
* `Boards`, `Chips`, `Controllers` hold what the repository supports; a behaviour
  picks one at the start.
* The interrupt lines of the run are QEMU's for both controllers. Only their order
  matters, and it is the same on both boards: the timer's number (36, 68) is lower
  than the UART's (44, 72).
* `MAX_EXPIRIES = 9` with `TICK_MOD = 4` and delays of 2 ticks: the counter wraps
  twice, expiries are missed, a delay starts just before a wrap and with a tick
  raised but not yet counted.
* `WORD = 32` with a window of 16 at 8: `Args` has pointers and lengths below, at and
  beyond both ends of the window, 0 and 1, and sums that wrap onto it. Listings are
  longer than most of the sizes passed to `ps`, so they are cut in the middle.
* `LINE_MAX = 5` and one- or two-letter spellings, one of which begins with another:
  the line fills up, erases to empty, and has room for a word, blanks and an
  argument. Other output may come between any two keys. `WORD = 16`: two digits make
  `atoi` wrap. The run ends when the shell is killed or crashes; hence
  `CHECK_DEADLOCK FALSE`.

Fairness. `Kernel`: kernel code is straight-line code with IRQs masked, hence weak
fairness; the timer is periodic, hence weak fairness of its expiry; strong
fairness of taking the two interrupts, because a process may enter and leave the
kernel for ever and the CPU takes a pending interrupt as soon as it is in user
mode. On the BeagleBone that fairness of the tick has one more premise, which
`Interrupts` brings to light: the AM335x controller serves the highest of the pending
lines first (all have priority 0, `am335x_intc.c:44`; the order among equals is the
chip's, the repository does not state it), so the UART goes before the timer and the
tick is taken only when UART interrupts leave a gap. They do at 115200 baud, the rate
the repository's README gives: the handler empties the FIFO and the next byte takes
87 microseconds, much longer than the handler. The GIC serves the lowest number
first and needs no such premise. Nothing is assumed of user code or of input. `Interrupts`: weak fairness of
kmain, the handlers and of an interrupt that stays signalled, and of the clock
module reaching the state it was asked for; nothing for devices or programs.
`TimerServed` is stated accordingly: a tick is served whatever the other lines do, on
the AM335x unless UART interrupts go on for ever.
`UartRx`: weak fairness of the driver, of an interrupt that stays asserted, of the
receive timeout and of the shell, which reads in a loop. The other
modules have no fairness and no liveness.

Observations made with these models. `NoStarvation` holds for three
processes; with four, the ring walk restarted at the reader's successor can pass
over the same process for ever under steady input (the shipped kernel has three).
And on a PL011 set up without the receive timeout interrupt a byte that arrives
between the drain loop and the ICR write would be stranded until the next one:
`NoByteStranded` rests on `IMSC` enabling `RT` (mutant `IMSC_LevelOnly`).
The shell appends every byte that is not Enter or an erase (`shell.c:145` says
"Printable"): after a TAB the erase sequence no longer matches the screen, which is
why `ScreenShowsLine` speaks of lines of printable characters. The shell does not
redraw its line either when another process prints: what was typed before stands above
that output, an erase that goes back that far changes the line but not what stands
there, and the property speaks of what was typed since. `kill` followed by
anything that is not a number reaches pid 0, since `atoi` returns 0; the
reference reading of `CommandExact` has the same rule.

## 4. Proofs

Every safety invariant of the runs is proved for all values of the constants; so are
both refinements. Liveness is model-checked, and four theorems prove what the
liveness properties rest on. The theorems assume what the `ASSUME`s of
the models state, and TLC evaluates those on every instance:

| Assumption | Why the code justifies it |
|---|---|
| `Kernel.ConstantsAssumption`, `ContextSwitch.ProcessesAssumption` | there is a process 0 and a table; sets of read lengths and FIFO sizes are what their names say |
| `Syscalls.SyscallsAssumption` | the user window ends below the two error codes; pids are one digit |
| `Shell.ShellAssumption` | the buffer has room for the terminator; the command names of `shell.c` are nonempty words of plain characters, no two alike; an int holds every pid |
| `UartRing.RingAssumption` | the ring size divides the range of the indices (128 and 2^32); `char` is signed or unsigned |
| `UartRx.RxAssumption` | FIFO and ring hold at least one byte |
| `Interrupts.LinesAssumption`, `CountsAssumption` | timer, UART and any other line are different numbers below `MAX_IRQS`; `tick_count` has a width |
| `Counter.CounterAssumption` | a delay is shorter than the wrap of `tick_count` |
| `Boot.BoardsAssumption` | per board: link and load addresses differ by `PHYS_OFFSET`; image and user slots lie in RAM one behind the other; RAM, its alias, peripherals, user window and section 0 do not meet; every device in use is in a mapped range |
| `Boot.SectionsAssumption` | the sampled sections include those the boot path executes and writes |

### Kernel

`KernelProofs` proves, for every number of processes, every assignment of
programs, every ring and FIFO size and every set of read lengths
(`ConstantsAssumption` is all that is assumed):

| Theorem | Statement |
|---|---|
| `Invariance` | `Spec => []IndInv` |
| `TypeCorrectness` | `Spec => []TypeOK` |
| `RunningUnique` | `Spec => []RunningIsCurrent` |
| `HintFreshness` | `Spec => []HintIsFresh` |
| `NoWastedCpu` | `Spec => []CpuNotWasted` |
| `WakeupSafety` | `Spec => []WakeupsExact` |
| `DeathIsFinal` | `Spec => DeadStaysDown` |
| `ReaderRunsNext` | `Spec => InputServedNext` |
| `ExceptionStacks` | `Spec => []ExceptionStacksBounded` |
| `Refinement` | `Spec => ImplementsLife` |

The argument. The properties are not inductive: "no lost wake-up" needs to know
that a sleeper's kernel stack is inside `sys_read` and that a sleeper that keeps
the CPU for want of another process sees the ring as empty as it left it. `IndInv`
adds to them
* `ParkedAtResumePoint`: a process off the CPU is stopped where its stack can
  resume, never between a handler's effect and its `schedule()`;
* `SleepsInRead`: BLOCKED and the position inside `sys_read` go together;
* `SwitchRequested`: a CPU held by a process that must not run, while another
  could, has `need_reschedule` raised (from which `CpuNotWasted` follows at the
  points where no request is pending);
* `SpinsOnEmptyRing` and `ReadersRead`, for the wake-up properties.

There is one lemma per kind of step (`ScheduleInv`, `IrqInv`, `UserStepInv`,
`ReadInv`, `HardwareInv`), with one step per action and conjunct disturbed.
`ExceptionStacks` counts frames: `FramesOwned` says that frames and faulted
processes are equinumerous, proved on top of `IndInv` with the library's
cardinality theorems; since `user_fault_kill` never returns to user code, the
count is bounded by the number of processes.

`ReaderRunsNext` is the safety half of `SleeperGetsInput`: with one reader, the step
that puts a byte into the ring makes whoever sleeps READY and the target of the hint
(`SleeperWoken`, from `NoLostWakeup`), and the next switch goes there
(`HintFollowed`, from `HintIsFresh`). What is left to fairness is that the interrupt is
taken and that kernel code runs.

`Refinement` maps every step under `IndInv` (`StepRefines`): a switch is a `Switch`
because a candidate is READY (`SwitchIsSwitch`), a kill, exit or fault is a `Retire`
because code in user mode or in a call is awake (`AwakeInUserMode`, from
`SleepsInRead`), and `ReadBlock` is a `Sleep` because a dead process keeps the CPU
only when nobody is live (`SwitchRequested`).

### System calls

`SyscallsProofs` proves, for every word size, user window, number of processes and
set of arguments that satisfy `SyscallsAssumption`:

| Theorem | Statement |
|---|---|
| `ValidatorExact` | `valid_user_ptr(addr, len) <=> InWindow(addr, len)` for all words |
| `WindowSafety` | `Spec => []WindowRespected` |
| `TypeCorrectness` | `Spec => []TypeOK` |
| `CallExactness` | `Spec => []CallsExact` |

`ValidatorExact` rests on one fact about words (`SumWraps`: a sum of two wraps at
most once). `WindowRespected` is strengthened by `BufferKnown`, what a handler knows
of its buffer at each point of a call: nothing is moved before the check, and a
loop never goes beyond the length that was checked, also after a sleep. That bounds
the counts by a word (`CountsFit`), which types need.

`CallExactness` follows each call from the wrapper's registers (`Asks`) through
dispatch (`DispatchesCaller`: the numbers of libc and the kernel's table agree) and
the loops (`Progress`) to the return. What makes it hold with several
processes is `Suspended`: a process without the CPU is in user mode or at the head
of `sys_read`'s loop with nothing moved, so nobody's half-done call sees the ring or
the table change. `Arrivals` says that the bytes taken and the bytes waiting are
one increasing sequence. `CallInv`, their conjunction, was checked by TLC on the
instance of the run (822,263 states). That the listing of `sys_ps` is text at all is an
induction over its rows (`RowsExist`, `ListingType`), done by the smallest
counterexample: the library's `WFMin` needs no operator parameter.

### Context switch

`ContextSwitchProofs`, for every number of processes:

| Theorem | Statement |
|---|---|
| `Invariance`, `TypeCorrectness` | `Spec => []IndInv`, `Spec => []TypeOK` |
| `ContextPreserved` | `Spec => []UserContextIntact` |
| `AddressSpaces` | `Spec => []AddressSpaceIsCurrent` |
| `HandlersResume` | `Spec => []HandlerResumesIntact` |
| `StacksBalanced` | `Spec => []KernelStackBalanced` |

`UserContextIntact` speaks of the process in user mode only; the invariant has to
say where the registers of all others are. `Resumable(p)`: the user frame at the
bottom of `p`'s kernel stack, the frame of `context_switch` above it, the banked
registers in the PCB, and the pending result of a call accounted for. `OnCpu` says
the same of the running process point by point, `Translations` how far TTBR0, TLB
and I-cache have got inside the swap.

### UART

`UartRingProofs`, for every ring size that divides the range of the indices:
`RingInvariance`, `TypeCorrectness` and

| Theorem | Statement |
|---|---|
| `Refinement` | `Spec => ImplementsFifo` |

The queue is `Waiting`, the slots from `rx_tail` on, `Occupancy` many. The argument is
arithmetic of remainders: `rx_head - rx_tail` wraps with the indices, equal slots
within one ring are equal indices (`SlotsDistinct`), and the full test of
`uart_rx_push` says exactly that one slot is left.
`CharRoundTrip` covers the way of a byte through `char` and back.

`UartRxProofs`, for every FIFO and ring size: `TypeCorrectness`, `DeliveryInOrder`
(`Spec => []InOrder`) and `NoSleepOverBytes` (`Spec => []AwakeWhileRingHasBytes`).
`InOrder` compares neighbours of a concatenation; the invariant `Ordered` compares all
pairs, within and between the queues, which is what survives the loss of a byte.
`InterruptsBringBytes` (`Spec => []NoInterruptWithoutByte`) adds that the line is asserted
only while a byte waits: the PL011's bits follow the FIFO through arrivals, reads and
the write to ICR (`BitsHaveBytes`), so the handler is never entered for nothing.

### Interrupts and `delay_wall`

`InterruptsProofs`, for every choice of lines, width of `tick_count` and delay:

| Theorem | Statement |
|---|---|
| `Invariance`, `CounterInvariance`, `TypeCorrectness` | `IndInv` under `Spec` and `CounterSpec`, `TypeOK` |
| `ClockBeforeTimer` | `CounterSpec => []TimerClocked` |
| `ControllerFree` | `CounterSpec => []ControllerReleased` |
| `LinesHandled` | `CounterSpec => []NoOrphanLine` |
| `ExpiriesCounted` | `CounterSpec => []EachExpiryCounted` |
| `TickReachesCpu` | `Spec => []TickSignalled` |
| `TickServedInOrder` | `Spec => TickOrder` |
| `DelayFullLength` | `CounterSpec => []DelayNeverShort` |

The invariant names the stages of `kmain` and of the interrupt path; the devices and
the clock module move on their own. `Handled` and `Dispatched` link lines enabled,
handlers registered and the interrupt in service, `Served` what each controller
waits for, `Counting` the expiries. `Delaying` adds the program: there is a count of
expiries `c` at which the delay began, equal to `start` modulo the width, and the
count has only grown; a difference of remainders that is large enough then means a
difference of counts that is. `TickReachesCpu` and `TickServedInOrder` are the safety half of
`TimerServed`: in user mode a raised tick finds its line enabled and the controller
free, and no third line is ever enabled (`EnabledLines`). The timer's line has the lower
number on both boards. On the GIC the first interrupt acknowledged is therefore the tick;
on the AM335x it is the UART if its line is raised at that moment, and the tick otherwise.

### Boot

`BootProofs`, for every number of processes, TLB size and set of boards that satisfies the
assumptions:

| Theorem | Statement |
|---|---|
| `Invariance`, `TypeCorrectness` | `Spec => []IndInv`, `Spec => []TypeOK` |
| `KernelStaysMapped` | `Spec => []ExecutionMapped` |
| `IdentityDropped` | `Spec => []IdentityGone` |
| `ProcessesIsolated` | `Spec => []UserIsolated` |
| `CodeVisible` | `Spec => []UserCodeVisible` |
| `UnmaskedWhenReady` | `Spec => []InterruptsReady` |

The tables are known exactly at each stage (`Mapped`: `BootTable`, `KernelTable`,
`ProcTable(p)`), and lemmas about the builders say what those tables map
(`PeripheralsApart`, `ImageInRam`, ...). `Cached` says which of them a TLB entry may
come from, two of them between the TTBR0 write and the flush; `Loaded` follows a user
image through D-cache, memory and I-cache.

### Shell

`ShellProofs`, for every size of the line, set of characters, spelling of the commands
and word size that satisfy `ShellAssumption`:

| Theorem | Statement |
|---|---|
| `Invariance`, `TypeCorrectness` | `Spec => []IndInv`, `Spec => []TypeOK` |
| `ScreenFaithful` | `Spec => []ScreenShowsLine` |
| `CommandsExact` | `Spec => []CommandExact` |

`IndInv` adds to the three properties that the line being edited leaves room for the
terminator (`RoomForNul`) and that a line under execution is a C string (`Submitted`).
`ScreenFaithful` goes by what each step does to the row: the echo extends it
(`ShowsPut`), an erase takes its last cell (`ShowsErased`) or, when the last character of
the line stands before other output, leaves it blank (`ShowsErasedBefore`), and other output
starts it anew (`ShowsNothing`).
`CommandsExact` is about two readings of one line. The code scans characters:
`skip_spaces`, `match_word` and `atoi` stop at a position that depends on what they meet.
The reference cuts the text into words, the maximal stretches without blanks, and
weighs the digits of a numeral from its end, without wrapping. That they agree goes in three
parts. `TextHeld` and `SkipStops` say where the loops stop in terms of the text before
the NUL; `FirstWord` and `Argument` say that those positions are where the first and the
second word begin, and `Recognised` that `match_word` accepts a name exactly when the first
word is that name, not when it begins with it. `AtoiIsNumber` equates the numerals:
the reference's value is the value accumulated from the left (`ValueByWeight`), and wrapping
at every digit is wrapping once (`AtoiFromLeft`, with `ModPeriod`). The recursive
functions of both sides exist and have the expected type by one induction,
`ChainExists` and `ChainType`, which like that of `SyscallsProofs` is by the
smallest counterexample. The commands then follow by cases of the dispatch
(`CommandMeans`, `EmptyMeans`, `UnknownMeans`).

All inductive invariants were checked with TLC on the instances of the runs before
they were proved.

### Model-checked only

Liveness (`NoStarvation`, `SleeperGetsInput`, `NoByteStranded`, `TimerServed`): fairness
and ENABLED are out of the prover's reach. The violation runs of section 5 are
counterexamples, which TLC exhibits.

## 5. Findings

1. **`sys_exit` can return** (`claim_exit_never_returns`). `syscall.c:90` says the
   kernel never returns to the user frame of a process that exited. If no other
   process is runnable `schedule()` keeps it and it runs on, DEAD. The same holds
   for a process that kills itself.
2. **A lone reader hangs the machine** (`claim_input_wakes_reader`).
   If nobody else is runnable when `sys_read` blocks, `schedule()` returns at once
   and `sys_read` loops with IRQs masked: the UART interrupt is never taken. It
   takes `kill 0`, `kill 1` in the shell.
3. **A fault can halt a kernel with a sleeping process**
   (`claim_fault_spares_sleepers`). `user_fault_kill` halts when `schedule()`
   returns, although the next byte would have made the reader runnable.

One more disagreement is harmless and has no run: `sys_kill` leaves the wait slot
alone, although its comment (`syscall.c:202`) speaks of pulling a sleeping reader
off it. The slot then names a dead process until another one blocks;
`scheduler_wake_reader` tests the state, and `DeathIsFinal` is proved.

`CpuNotWasted` and `NoWastedCpu` bound 1 to 3: they happen only when no process
is runnable at all.

## 6. Not modelled

Transmission, `printf` formatting and messages (output only; `sys_write` counts the
bytes and names their addresses); baud-rate set-up, posted-write waits and the
timer's reload arithmetic (register writes without effect on kernel state);
decoding of fault status, and faults in kernel mode, which halt; FIQ (never enabled);
`irq_cpu_enable`, `disable_line`, `process_dump` and `ulib_strcmp` (no callers); `crt0`'s
exit after `main`, which no shipped program reaches; `runaway`, which prints and
loops; the SPL, the scripts and the build. The sizes of the images are build-time
quantities: `Boot` takes the number of sections of the kernel image as a constant.

Memory barriers and store buffers are below the level of the models. `ContextSwitch` makes
a TTBR0 write effective at once, although `context_switch.S:59` to `66` has no ISB between
it and TLBIALL; `Boot` lets the table walker see the stores of `mmu_drop_identity` at once,
although `mmu.c:100` to `106` has no DSB between them and TLBIALL, and takes page-table
stores through the D-cache as coherent with the walker. `AddressSpaceIsCurrent` and
`IdentityGone` hold under these assumptions: whether a CPU may still walk the old table or
read the old entries after the flush is not answered here. The kernel's loop in `sys_write`, which polls
the UART with IRQs masked, appears by its effect only: input and ticks may be lost at any
time (`UartRx`, `Interrupts`).

The terminal of `Shell` has no right margin, and what stands before the output of another
process is not followed. A second reader is allowed in the safety run, but the wake-up properties assume one:
the single wait slot is a documented limitation.

## 7. Plan

Modelling is done, and every safety invariant, action property and refinement of the
runs is proved. What is left waits for changes of the code: a second reader needs a
queue instead of the single wait slot, and with it `WakeupsExact` without
`SingleReader`; a fourth process needs a ring walk that remembers where it was, or
`NoStarvation` fails.
