------------------------------- MODULE Kernel -------------------------------
(***************************************************************************)
(* The running RingNova kernel after boot: the scheduler, the system calls *)
(* that touch it, the exception handlers and the timer and UART interrupt  *)
(* paths, on one core.                                                     *)
(*                                                                         *)
(* Every exception entry masks IRQs, so kernel code is never interrupted:  *)
(* what interleaves with it is the hardware (a byte reaching the UART, the *)
(* timer expiring).  A handler is cut where it calls schedule(), because   *)
(* that is where the CPU changes hands and where the two scheduler flags   *)
(* are consumed.  pc[p] is the point p executes (p = current) or the point *)
(* at which p's kernel stack resumes (p # current):                        *)
(*   user         user mode, IRQs enabled                                  *)
(*   irq_sched    handle_irq, about to call schedule()                     *)
(*   svc_sched    handle_svc, about to call schedule()                     *)
(*   read         the head of sys_read's copy loop                         *)
(*   block_sched  scheduler_block_on_input, about to call schedule()       *)
(*   fault_sched  user_fault_kill, about to call schedule()                *)
(*   panic        user_fault_kill after schedule() returned: halt_forever  *)
(*                                                                         *)
(* Input bytes are counted, not identified (module UartRing has the        *)
(* bytes); results, messages and tick_count are left out.                  *)
(***************************************************************************)
EXTENDS Integers, FiniteSets

CONSTANTS
    NUM_PROCESSES,      \* size of processes[]
    Program,            \* Program[p]: the kinds of event p's user code causes
    RX_CAPACITY,        \* bytes the receive ring holds: UART_RX_BUF_SIZE - 1
    FIFO_DEPTH,         \* bytes the UART's own receive FIFO holds
    ReadLens            \* lengths > 0 user code passes to sys_read

Procs == 0 .. NUM_PROCESSES - 1

UserOps == {"call", "yield", "exit", "read", "kill", "fault"}

ASSUME ConstantsAssumption ==
    /\ NUM_PROCESSES \in Nat \ {0}
    /\ Program \in [Procs -> SUBSET UserOps]
    /\ RX_CAPACITY \in Nat \ {0}
    /\ FIFO_DEPTH \in Nat \ {0}
    /\ ReadLens \subseteq Nat \ {0}

VARIABLES
    state,              \* processes[p].state
    current,            \* pid of *current (set once by process_init_all, then never NULL)
    need_reschedule,    \* the flag schedule() consumes
    blocked_reader,     \* the one wait slot for UART input
    wake_hint,          \* the process just woken, preferred by the next schedule()
    pc,                 \* where each process executes or resumes
    rx,                 \* bytes in the receive ring
    fifo,               \* bytes in the UART FIFO; > 0 asserts its interrupt line
    timer_pending,      \* the timer's interrupt line
    exc_frames          \* frames left on the ABT and on the UND exception stack

vars == <<state, current, need_reschedule, blocked_reader, wake_hint, pc,
          rx, fifo, timer_pending, exc_frames>>

NULL == -1
TaskStates == {"READY", "RUNNING", "BLOCKED", "DEAD"}
SchedSites == {"irq_sched", "svc_sched", "block_sched", "fault_sched"}
ResumePoints == {"user", "read", "panic"}
ExcModes == {"abt", "und"}

\* Where control goes when schedule() returns to the caller at each site.
After_FaultReturns ==
         [irq_sched |-> "user", svc_sched |-> "user",
          block_sched |-> "read", fault_sched |-> "user"]
After == [irq_sched |-> "user", svc_sched |-> "user",
          block_sched |-> "read", fault_sched |-> "panic"]

Least(a, b) == IF a < b THEN a ELSE b

-----------------------------------------------------------------------------
(* State predicates of the code.                                           *)

Runnable(p) == state[p] \in {"READY", "RUNNING"}

\* Position of q in the walk schedule() starts at prev->pid + 1.
RingDistance_FromZero(prev, q) == q
RingDistance(prev, q) == (q + NUM_PROCESSES - prev - 1) % NUM_PROCESSES

Candidate(prev, q) == q # prev /\ Runnable(q)

\* cand is the process on which the ring walk stops.
FirstInRing(prev, cand) ==
    /\ Candidate(prev, cand)
    /\ \A q \in Procs : Candidate(prev, q) =>
            RingDistance(prev, cand) <= RingDistance(prev, q)

HintUsable == wake_hint # NULL /\ Candidate(current, wake_hint)

-----------------------------------------------------------------------------
(* Boot has finished: process_init_all made every process READY, kmain     *)
(* jumped into process 0 without marking it RUNNING, and each other kernel *)
(* stack holds the frame that drops its process into user mode.            *)

Init ==
    /\ state = [p \in Procs |-> "READY"]
    /\ current = 0
    /\ need_reschedule = FALSE
    /\ blocked_reader = NULL
    /\ wake_hint = NULL
    /\ pc = [p \in Procs |-> "user"]
    /\ rx = 0
    /\ fifo = 0
    /\ timer_pending = FALSE
    /\ exc_frames = [mode \in ExcModes |-> 0]

-----------------------------------------------------------------------------
(* Hardware.                                                               *)

TimerExpire ==
    /\ timer_pending' = TRUE
    /\ UNCHANGED <<state, current, need_reschedule, blocked_reader, wake_hint,
                   pc, rx, fifo, exc_frames>>

\* A byte that finds the FIFO full is lost in the UART.
UartReceive ==
    /\ fifo' = Least(fifo + 1, FIFO_DEPTH)
    /\ UNCHANGED <<state, current, need_reschedule, blocked_reader, wake_hint,
                   pc, rx, timer_pending, exc_frames>>

-----------------------------------------------------------------------------
(* Scheduler.                                                              *)

InUserMode == pc[current] = "user"

GoTo(point) == pc' = [pc EXCEPT ![current] = point]

perform_switch_NoDemote(prev, cand) ==
    /\ state' = [state EXCEPT ![cand] = "RUNNING"]
    /\ current' = cand
perform_switch(prev, cand) ==
    /\ state' = [state EXCEPT
                    ![prev] = IF state[prev] = "RUNNING" THEN "READY" ELSE @,
                    ![cand] = "RUNNING"]
    /\ current' = cand

\* schedule() returns at once: nobody asked for a switch.
ScheduleNotNeeded ==
    /\ ~need_reschedule
    /\ UNCHANGED <<state, current, need_reschedule, wake_hint>>

\* schedule() gives the CPU to the process the UART interrupt just woke.
ScheduleHint_Keep ==
    /\ need_reschedule
    /\ need_reschedule' = FALSE
    /\ wake_hint' = wake_hint
    /\ HintUsable
    /\ perform_switch(current, wake_hint)
ScheduleHint ==
    /\ need_reschedule
    /\ need_reschedule' = FALSE
    /\ wake_hint' = NULL
    /\ HintUsable
    /\ perform_switch(current, wake_hint)

\* schedule() walks the ring; with no candidate it keeps the current process.
ScheduleRing ==
    /\ need_reschedule
    /\ need_reschedule' = FALSE
    /\ wake_hint' = NULL
    /\ ~HintUsable
    /\ \/ \E cand \in Procs :
            /\ FirstInRing(current, cand)
            /\ perform_switch(current, cand)
       \/ /\ \A q \in Procs : ~Candidate(current, q)
          /\ UNCHANGED <<state, current>>

\* The call of schedule() that ends every handler.  Whether or not the CPU
\* changes hands, the caller's stack continues at After[site].
schedule ==
    /\ pc[current] \in SchedSites
    /\ GoTo(After[pc[current]])
    /\ ScheduleNotNeeded \/ ScheduleHint \/ ScheduleRing
    /\ UNCHANGED <<blocked_reader, rx, fifo, timer_pending, exc_frames>>

scheduler_request_resched == need_reschedule' = TRUE

\* Wake the process in the slot, if it still sleeps.
scheduler_wake_reader_Lost ==
    UNCHANGED <<state, blocked_reader, wake_hint, need_reschedule>>
scheduler_wake_reader_Unchecked ==
    \/ /\ blocked_reader # NULL
       /\ state' = [state EXCEPT ![blocked_reader] = "READY"]
       /\ blocked_reader' = NULL
       /\ wake_hint' = blocked_reader
       /\ need_reschedule' = TRUE
    \/ /\ blocked_reader = NULL
       /\ UNCHANGED <<state, blocked_reader, wake_hint, need_reschedule>>
scheduler_wake_reader ==
    LET sleeping == blocked_reader # NULL /\ state[blocked_reader] = "BLOCKED"
    IN  \/ /\ sleeping
           /\ state' = [state EXCEPT ![blocked_reader] = "READY"]
           /\ blocked_reader' = NULL
           /\ wake_hint' = blocked_reader
           /\ need_reschedule' = TRUE
        \/ /\ ~sleeping
           /\ UNCHANGED <<state, blocked_reader, wake_hint, need_reschedule>>

-----------------------------------------------------------------------------
(* Interrupts: exception_entry_irq, handle_irq, irq_dispatch and the       *)
(* registered handler.  They are taken in user mode only.                  *)

\* The timer driver acknowledges its device, then timer_tick calls
\* scheduler_tick.
IrqTimer ==
    /\ InUserMode
    /\ timer_pending
    /\ timer_pending' = FALSE
    /\ need_reschedule' = TRUE
    /\ GoTo("irq_sched")
    /\ UNCHANGED <<state, current, blocked_reader, wake_hint, rx, fifo, exc_frames>>

\* The UART driver drains the FIFO into the ring, which drops what does not
\* fit, then wakes the reader.
IrqUart_Overrun ==
    /\ InUserMode
    /\ fifo > 0
    /\ fifo' = 0
    /\ rx' = rx + fifo
    /\ scheduler_wake_reader
    /\ GoTo("irq_sched")
    /\ UNCHANGED <<current, timer_pending, exc_frames>>
IrqUart ==
    /\ InUserMode
    /\ fifo > 0
    /\ fifo' = 0
    /\ rx' = Least(rx + fifo, RX_CAPACITY)
    /\ scheduler_wake_reader
    /\ GoTo("irq_sched")
    /\ UNCHANGED <<current, timer_pending, exc_frames>>

\* The interrupt controller reports no line (spurious id): nothing is called.
IrqSpurious ==
    /\ InUserMode
    /\ GoTo("irq_sched")
    /\ UNCHANGED <<state, current, need_reschedule, blocked_reader, wake_hint,
                   rx, fifo, timer_pending, exc_frames>>

-----------------------------------------------------------------------------
(* System calls: exception_entry_svc, handle_svc, syscall_dispatch.        *)

Calls(op) == InUserMode /\ op \in Program[current]

\* sys_write, sys_getpid, sys_ps, sys_ticks, an unknown number, and the early
\* returns of sys_read (length 0, bad buffer): the scheduler is not involved.
SvcCall ==
    /\ Calls("call")
    /\ GoTo("svc_sched")
    /\ UNCHANGED <<state, current, need_reschedule, blocked_reader, wake_hint,
                   rx, fifo, timer_pending, exc_frames>>

sys_yield ==
    /\ Calls("yield")
    /\ scheduler_request_resched
    /\ GoTo("svc_sched")
    /\ UNCHANGED <<state, current, blocked_reader, wake_hint,
                   rx, fifo, timer_pending, exc_frames>>

sys_exit_NoResched ==
    /\ Calls("exit")
    /\ state' = [state EXCEPT ![current] = "DEAD"]
    /\ GoTo("svc_sched")
    /\ UNCHANGED <<current, need_reschedule, blocked_reader, wake_hint,
                   rx, fifo, timer_pending, exc_frames>>
sys_exit ==
    /\ Calls("exit")
    /\ state' = [state EXCEPT ![current] = "DEAD"]
    /\ scheduler_request_resched
    /\ GoTo("svc_sched")
    /\ UNCHANGED <<current, blocked_reader, wake_hint,
                   rx, fifo, timer_pending, exc_frames>>

\* A pid out of range and a process already dead return without effect; the
\* wait slot is not cleared when its process is killed.
sys_kill(pid) ==
    /\ Calls("kill")
    /\ LET alive == pid \in Procs /\ state[pid] # "DEAD"
       IN  \/ /\ alive
              /\ state' = [state EXCEPT ![pid] = "DEAD"]
              /\ scheduler_request_resched
           \/ /\ ~alive
              /\ UNCHANGED <<state, need_reschedule>>
    /\ GoTo("svc_sched")
    /\ UNCHANGED <<current, blocked_reader, wake_hint,
                   rx, fifo, timer_pending, exc_frames>>

\* sys_read is entered with a good buffer and a length > 0.
sys_read ==
    /\ Calls("read")
    /\ GoTo("read")
    /\ UNCHANGED <<state, current, need_reschedule, blocked_reader, wake_hint,
                   rx, fifo, timer_pending, exc_frames>>

\* One pass of the copy loop with bytes in the ring: it takes as many as it can
\* and returns.  len is the caller's length; no property depends on how long it
\* was remembered.
ReadCopy ==
    /\ pc[current] = "read"
    /\ rx > 0
    /\ \E len \in ReadLens : rx' = rx - Least(len, rx)
    /\ GoTo("svc_sched")
    /\ UNCHANGED <<state, current, need_reschedule, blocked_reader, wake_hint,
                   fifo, timer_pending, exc_frames>>

\* One pass with an empty ring: scheduler_block_on_input up to schedule().
ReadBlock_NoSlot ==
    /\ pc[current] = "read"
    /\ rx = 0
    /\ state' = [state EXCEPT ![current] = "BLOCKED"]
    /\ need_reschedule' = TRUE
    /\ GoTo("block_sched")
    /\ UNCHANGED <<current, blocked_reader, wake_hint, rx, fifo, timer_pending, exc_frames>>
ReadBlock ==
    /\ pc[current] = "read"
    /\ rx = 0
    /\ state' = [state EXCEPT ![current] = "BLOCKED"]
    /\ blocked_reader' = current
    /\ need_reschedule' = TRUE
    /\ GoTo("block_sched")
    /\ UNCHANGED <<current, wake_hint, rx, fifo, timer_pending, exc_frames>>

-----------------------------------------------------------------------------
(* User-mode faults: the abort and undefined entries push one frame on the *)
(* stack of their mode, switch to SVC mode and reach user_fault_kill.      *)
(* Nothing ever pops that frame.                                           *)

UserFault_NoResched(mode) ==
    /\ Calls("fault")
    /\ exc_frames' = [exc_frames EXCEPT ![mode] = @ + 1]
    /\ state' = [state EXCEPT ![current] = "DEAD"]
    /\ GoTo("fault_sched")
    /\ UNCHANGED <<current, need_reschedule, blocked_reader, wake_hint, rx, fifo, timer_pending>>
UserFault(mode) ==
    /\ Calls("fault")
    /\ exc_frames' = [exc_frames EXCEPT ![mode] = @ + 1]
    /\ state' = [state EXCEPT ![current] = "DEAD"]
    /\ scheduler_request_resched
    /\ GoTo("fault_sched")
    /\ UNCHANGED <<current, blocked_reader, wake_hint, rx, fifo, timer_pending>>

\* halt_forever: wfi in a loop with IRQs masked.
Halted == pc[current] = "panic"

-----------------------------------------------------------------------------

Kernel == schedule \/ ReadCopy \/ ReadBlock

Irq == IrqTimer \/ IrqUart \/ IrqSpurious

UserStep ==
    \/ SvcCall \/ sys_yield \/ sys_exit \/ sys_read
    \/ \E pid \in 0 .. NUM_PROCESSES : sys_kill(pid)
    \/ \E mode \in ExcModes : UserFault(mode)

Hardware == TimerExpire \/ UartReceive

Next == Kernel \/ Irq \/ UserStep \/ Hardware

Spec == Init /\ [][Next]_vars

\* Kernel code runs to completion; the timer is periodic; an asserted interrupt
\* is taken when the CPU is next in user mode, which it may leave and re-enter
\* any number of times before the line is asserted, hence strong fairness.
\* Nothing is assumed of user code or of the arrival of input.
Fairness ==
    /\ WF_vars(Kernel)
    /\ WF_vars(TimerExpire)
    /\ SF_vars(IrqTimer)
    /\ SF_vars(IrqUart)

FairSpec == Spec /\ Fairness

-----------------------------------------------------------------------------
(* Properties.                                                             *)

\* Types of the kernel's state; in particular the receive ring, which IrqUart
\* fills from the FIFO, never exceeds its capacity.
TypeOK ==
    /\ state \in [Procs -> TaskStates]
    /\ current \in Procs
    /\ need_reschedule \in BOOLEAN
    /\ blocked_reader \in Procs \cup {NULL}
    /\ wake_hint \in Procs \cup {NULL}
    /\ pc \in [Procs -> SchedSites \cup ResumePoints]
    /\ rx \in 0 .. RX_CAPACITY
    /\ fifo \in 0 .. FIFO_DEPTH
    /\ timer_pending \in BOOLEAN
    /\ exc_frames \in [ExcModes -> Nat]

\* Only the process on the CPU is RUNNING, so the table sys_ps prints and the
\* scheduler's own test of READY or RUNNING never count a process twice.
RunningIsCurrent ==
    \A p \in Procs : state[p] = "RUNNING" => p = current

\* A wake-up hint names a process that is READY, off the CPU and inside
\* sys_read, and the interrupt that set it has not reached its schedule() yet:
\* no hint survives to misdirect a later switch.
HintIsFresh ==
    wake_hint # NULL =>
        /\ need_reschedule
        /\ pc[current] = "irq_sched"
        /\ wake_hint # current
        /\ state[wake_hint] = "READY"
        /\ pc[wake_hint] = "read"

\* need_reschedule is never left raised when the CPU returns to user mode, to
\* sys_read's loop or to the panic code: every request is served by the handler
\* that made it.
RequestsServed ==
    pc[current] \in ResumePoints => ~need_reschedule

\* The CPU executes a process that exited, was killed, faulted or sleeps only
\* while no process is runnable; this is also the only way to panic.
CpuNotWasted ==
    pc[current] \in ResumePoints /\ ~Runnable(current)
        => \A q \in Procs : ~Runnable(q)

\* Each process leaves at most one frame on the exception stacks before the
\* scheduler stops running it, so the stacks, never rewound, cannot run over.
ExceptionStacksBounded ==
    exc_frames["abt"] + exc_frames["und"] <= NUM_PROCESSES

\* A dead process that lost the CPU never gets it back and stays dead,
\* whatever slot or hint still names it.
DeadStaysDown ==
    [][\A p \in Procs :
          state[p] = "DEAD" /\ p # current => state'[p] = "DEAD" /\ p # current']_vars

-----------------------------------------------------------------------------
(* Properties of the system the kernel is built for: one process reads the *)
(* UART (the shell), because there is one wait slot.                       *)

SingleReader ==
    \A p, q \in Procs : "read" \in Program[p] /\ "read" \in Program[q] => p = q

\* No wake-up is lost: while a process sleeps the slot names it and the ring is
\* empty, so the next received byte both finds it and gives it something to read.
NoLostWakeup ==
    SingleReader =>
        \A p \in Procs : state[p] = "BLOCKED" => blocked_reader = p /\ rx = 0

\* No wake-up is spurious: a reader made READY finds a byte when it resumes.
WokenHasInput ==
    SingleReader =>
        \A p \in Procs : p # current /\ state[p] = "READY" /\ pc[p] = "read" => rx > 0

\* With one reader wake-ups are exact: a sleeper is in the slot with nothing to
\* read, and one that was woken has something to read.
WakeupsExact == NoLostWakeup /\ WokenHasInput

\* Round-robin serves everyone: a runnable process gets the CPU, or is killed
\* before that, in spite of wake-up preemption by the reader.
NoStarvation ==
    \A p \in Procs : Runnable(p) ~> (current = p \/ state[p] = "DEAD")

\* A reader that sleeps off the CPU while input is waiting in the UART gets the
\* CPU, unless it is killed or the machine has halted.
SleeperGetsInput ==
    \A p \in Procs :
        state[p] = "BLOCKED" /\ p # current /\ fifo > 0
            ~> current = p \/ state[p] = "DEAD" \/ Halted

-----------------------------------------------------------------------------
(* The specification the kernel implements.                                *)

\* A process is live while the scheduler may pick it.
Life(p) == IF Runnable(p) THEN "live"
           ELSE IF state[p] = "BLOCKED" THEN "asleep" ELSE "gone"

Promise == INSTANCE ProcessLife WITH
              Capacity <- RX_CAPACITY, cpu <- current, unread <- rx,
              life <- [p \in Procs |-> Life(p)]

\* The scheduler, the system calls, the fault path and the interrupt handlers
\* together keep the promise: the CPU goes to live processes only, input wakes at
\* most one process and only a sleeping one, nobody falls asleep over unread
\* input, and a process that is gone and lost the CPU stays gone.
ImplementsLife == Promise!Spec

-----------------------------------------------------------------------------
(* The inductive invariant behind the safety properties.                   *)

\* A process off the CPU is stopped where its stack can resume, never between
\* a handler's effect and its schedule().
ParkedAtResumePoint ==
    \A p \in Procs : p # current => pc[p] \in ResumePoints

\* A process sleeps only inside sys_read, and the call of schedule() in
\* scheduler_block_on_input is only made asleep.
SleepsInRead ==
    \A p \in Procs :
        /\ state[p] = "BLOCKED" => pc[p] \in {"block_sched", "read"}
        /\ pc[p] = "block_sched" => state[p] = "BLOCKED"

\* While the CPU is held by a process that must not run and another could run
\* instead, a switch has been requested.
SwitchRequested ==
    ~Runnable(current) /\ (\E q \in Procs : Runnable(q)) => need_reschedule

\* A sleeper that keeps the CPU for want of another process finds the ring as
\* empty as it left it: IRQs are masked in sys_read, so nothing fills it.
SpinsOnEmptyRing ==
    state[current] = "BLOCKED" => rx = 0

\* The kernel is in sys_read on behalf of programs that call it only.
ReadersRead ==
    \A p \in Procs : pc[p] \in {"read", "block_sched"} => "read" \in Program[p]

\* The inductive invariant: every action of the kernel and of the hardware
\* preserves the conjunction, and the safety properties above follow from it.
IndInv ==
    /\ TypeOK
    /\ RunningIsCurrent
    /\ HintIsFresh
    /\ RequestsServed
    /\ ParkedAtResumePoint
    /\ SleepsInRead
    /\ SwitchRequested
    /\ SpinsOnEmptyRing
    /\ ReadersRead
    /\ NoLostWakeup
    /\ WokenHasInput

\* Processes that have left their handler in user_fault_kill for good.
Faulted == {p \in Procs : pc[p] \in {"fault_sched", "panic"}}

\* Every frame left on an exception stack belongs to a process that faulted, one
\* frame each: user_fault_kill never returns to the code that pushed it, so no
\* process faults twice.
FramesOwned == exc_frames["abt"] + exc_frames["und"] = Cardinality(Faulted)
=============================================================================
