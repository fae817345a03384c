---------------------------- MODULE KernelProofs ----------------------------
(* Safety of Kernel for every number of processes, every choice of user    *)
(* programs and every buffer size.                                         *)
EXTENDS Kernel, FiniteSetTheorems, TLAPS

-----------------------------------------------------------------------------
(* Facts about the operators.                                              *)

\* The smaller of two naturals is one of them and above neither.
LEMMA LeastFacts ==
    ASSUME NEW a \in Nat, NEW b \in Nat
    PROVE  /\ Least(a, b) \in 0 .. b
           /\ Least(a, b) <= a
           /\ a > 0 /\ b > 0 => Least(a, b) > 0
  BY DEF Least

\* Boot establishes the invariant.
LEMMA InitInv == Init => IndInv
  <1> SUFFICES ASSUME Init PROVE IndInv
    OBVIOUS
  <1> 0 \in Procs
    BY ConstantsAssumption DEF Procs
  <1> USE DEF Init, NULL
  <1>1. TypeOK
    <2>1. /\ state \in [Procs -> TaskStates]
          /\ pc \in [Procs -> SchedSites \cup ResumePoints]
      BY DEF TaskStates, ResumePoints
    <2>2. exc_frames \in [ExcModes -> Nat]
      OBVIOUS
    <2>3. rx \in 0 .. RX_CAPACITY /\ fifo \in 0 .. FIFO_DEPTH
      BY ConstantsAssumption
    <2> QED
      BY <2>1, <2>2, <2>3 DEF TypeOK
  <1>2. RunningIsCurrent /\ HintIsFresh /\ RequestsServed
    BY DEF RunningIsCurrent, HintIsFresh, RequestsServed
  <1>3. ParkedAtResumePoint /\ SleepsInRead
    BY DEF ParkedAtResumePoint, SleepsInRead, ResumePoints
  <1>4. SwitchRequested /\ SpinsOnEmptyRing
    BY DEF SwitchRequested, SpinsOnEmptyRing, Runnable
  <1>5. ReadersRead /\ NoLostWakeup /\ WokenHasInput
    BY DEF ReadersRead, NoLostWakeup, WokenHasInput
  <1> QED
    BY <1>1, <1>2, <1>3, <1>4, <1>5 DEF IndInv

-----------------------------------------------------------------------------
(* One lemma per group of actions: each preserves the invariant.           *)

\* schedule(), whether it returns at once, follows the hint, walks the ring or
\* keeps the current process.
LEMMA ScheduleInv == IndInv /\ schedule => IndInv'
  <1> SUFFICES ASSUME IndInv, schedule PROVE IndInv'
    OBVIOUS
  <1> DEFINE site == pc[current]
  <1>0. /\ site \in SchedSites
        /\ pc' = [pc EXCEPT ![current] = After[site]]
        /\ UNCHANGED <<blocked_reader, rx, fifo, timer_pending, exc_frames>>
        /\ TypeOK
    BY DEF schedule, GoTo, IndInv
  <1>1. /\ pc' \in [Procs -> SchedSites \cup ResumePoints]
        /\ pc'[current] \in ResumePoints
        /\ pc'[current] = "read" <=> site = "block_sched"
        /\ \A p \in Procs : p # current => pc'[p] = pc[p]
    BY <1>0 DEF TypeOK, SchedSites, ResumePoints, After
  <1>2. \A p \in Procs : pc'[p] \in ResumePoints
    BY <1>0, <1>1 DEF IndInv, ParkedAtResumePoint
  <1>3. ASSUME NEW cand \in Procs, Candidate(current, cand),
               perform_switch(current, cand),
               need_reschedule' = FALSE, wake_hint' = NULL
        PROVE  IndInv'
    <2>1. /\ cand # current
          /\ current' = cand
          /\ state' \in [Procs -> TaskStates]
          /\ state'[cand] = "RUNNING"
          /\ state'[current] = IF state[current] = "RUNNING" THEN "READY" ELSE state[current]
          /\ \A p \in Procs : p # cand /\ p # current => state'[p] = state[p]
      BY <1>0, <1>3 DEF perform_switch, Candidate, TypeOK, TaskStates
    <2>2. TypeOK'
      BY <1>0, <1>1, <1>3, <2>1 DEF TypeOK
    <2>3. RunningIsCurrent'
      BY <1>0, <2>1 DEF IndInv, RunningIsCurrent, TypeOK
    <2>4. HintIsFresh' /\ RequestsServed'
      BY <1>3 DEF HintIsFresh, RequestsServed
    <2>5. ParkedAtResumePoint'
      BY <1>2, <2>1 DEF ParkedAtResumePoint
    <2>6. SleepsInRead'
      <3> SUFFICES ASSUME NEW p \in Procs
                   PROVE  /\ state'[p] = "BLOCKED" => pc'[p] \in {"block_sched", "read"}
                          /\ pc'[p] = "block_sched" => state'[p] = "BLOCKED"
        BY DEF SleepsInRead
      <3>1. pc'[p] # "block_sched"
        BY <1>2 DEF ResumePoints
      <3>2. state'[p] = "BLOCKED" => state[p] = "BLOCKED"
        BY <2>1
      <3>3. state[p] = "BLOCKED" => pc'[p] = "read"
        BY <1>0, <1>1, <3>1 DEF IndInv, SleepsInRead, SchedSites, ParkedAtResumePoint, ResumePoints
      <3> QED
        BY <3>1, <3>2, <3>3
    <2>7. SwitchRequested' /\ SpinsOnEmptyRing'
      BY <2>1 DEF SwitchRequested, SpinsOnEmptyRing, Runnable
    <2>8. ReadersRead'
      BY <1>0, <1>1, <1>2 DEF IndInv, ReadersRead, ResumePoints
    <2>9. NoLostWakeup'
      <3> SUFFICES ASSUME SingleReader, NEW p \in Procs, state'[p] = "BLOCKED"
                   PROVE  blocked_reader' = p /\ rx' = 0
        BY DEF NoLostWakeup
      <3>1. state[p] = "BLOCKED"
        BY <2>1
      <3> QED
        BY <1>0, <3>1 DEF IndInv, NoLostWakeup
    <2>10. WokenHasInput'
      <3> SUFFICES ASSUME SingleReader, NEW p \in Procs,
                          p # cand, state'[p] = "READY", pc'[p] = "read"
                   PROVE  rx' > 0
        BY <2>1 DEF WokenHasInput
      <3>1. p # current
        BY <1>0, <1>1, <2>1 DEF IndInv, SleepsInRead, TypeOK
      <3> QED
        BY <1>0, <1>1, <2>1, <3>1 DEF IndInv, WokenHasInput
    <2> QED
      BY <2>2, <2>3, <2>4, <2>5, <2>6, <2>7, <2>8, <2>9, <2>10 DEF IndInv
  <1>4. ASSUME UNCHANGED <<state, current>>, need_reschedule' = FALSE, wake_hint' = NULL,
               Runnable(current) \/ \A q \in Procs : ~Runnable(q)
        PROVE  IndInv'
    <2>1. TypeOK'
      BY <1>0, <1>1, <1>4 DEF TypeOK
    <2>2. RunningIsCurrent' /\ HintIsFresh' /\ RequestsServed'
      BY <1>4 DEF IndInv, RunningIsCurrent, HintIsFresh, RequestsServed
    <2>3. ParkedAtResumePoint'
      BY <1>2 DEF ParkedAtResumePoint
    <2>4. SleepsInRead'
      BY <1>0, <1>1, <1>2, <1>4
      DEF IndInv, SleepsInRead, SchedSites, ParkedAtResumePoint, ResumePoints
    <2>5. SwitchRequested' /\ SpinsOnEmptyRing'
      BY <1>0, <1>4 DEF IndInv, SwitchRequested, SpinsOnEmptyRing, Runnable
    <2>6. ReadersRead'
      BY <1>0, <1>1, <1>2 DEF IndInv, ReadersRead, ResumePoints
    <2>7. NoLostWakeup'
      BY <1>0, <1>4 DEF IndInv, NoLostWakeup
    <2>8. WokenHasInput'
      BY <1>0, <1>1, <1>4 DEF IndInv, WokenHasInput
    <2> QED
      BY <2>1, <2>2, <2>3, <2>4, <2>5, <2>6, <2>7, <2>8 DEF IndInv
  <1>5. CASE ScheduleNotNeeded
    <2>1. Runnable(current) \/ \A q \in Procs : ~Runnable(q)
      BY <1>5 DEF IndInv, SwitchRequested, ScheduleNotNeeded
    <2>2. need_reschedule' = FALSE /\ wake_hint' = NULL
      BY <1>0, <1>5 DEF IndInv, HintIsFresh, ScheduleNotNeeded, TypeOK
    <2> QED
      BY <1>4, <1>5, <2>1, <2>2 DEF ScheduleNotNeeded
  <1>6. CASE ScheduleHint
    <2>1. wake_hint \in Procs
      BY <1>0, <1>6 DEF ScheduleHint, HintUsable, TypeOK
    <2> QED
      BY <1>3, <1>6, <2>1 DEF ScheduleHint, HintUsable
  <1>7. CASE ScheduleRing
    <2>1. CASE \E cand \in Procs : FirstInRing(current, cand) /\ perform_switch(current, cand)
      BY <1>3, <1>7, <2>1 DEF ScheduleRing, FirstInRing
    <2>2. CASE (\A q \in Procs : ~Candidate(current, q)) /\ UNCHANGED <<state, current>>
      <3>1. Runnable(current) \/ \A q \in Procs : ~Runnable(q)
        BY <2>2 DEF Candidate
      <3> QED
        BY <1>4, <1>7, <2>2, <3>1 DEF ScheduleRing
    <2> QED
      BY <1>7, <2>1, <2>2 DEF ScheduleRing
  <1> QED
    BY <1>5, <1>6, <1>7 DEF schedule

\* The interrupt handlers, taken in user mode.
LEMMA IrqInv == IndInv /\ Irq => IndInv'
  <1> SUFFICES ASSUME IndInv, Irq PROVE IndInv'
    OBVIOUS
  <1>0. /\ TypeOK
        /\ pc[current] = "user"
        /\ ~need_reschedule
        /\ wake_hint = NULL
    BY DEF IndInv, Irq, IrqTimer, IrqUart, IrqSpurious, InUserMode, HintIsFresh,
           RequestsServed, ResumePoints
  <1>1. /\ pc' = [pc EXCEPT ![current] = "irq_sched"]
        /\ UNCHANGED <<current, exc_frames>>
    BY DEF Irq, IrqTimer, IrqUart, IrqSpurious, GoTo
  <1>2. /\ pc' \in [Procs -> SchedSites \cup ResumePoints]
        /\ pc'[current] = "irq_sched"
        /\ \A p \in Procs : p # current => pc'[p] = pc[p]
    BY <1>0, <1>1 DEF TypeOK, SchedSites
  <1>3. ParkedAtResumePoint' /\ RequestsServed' /\ ReadersRead'
    BY <1>0, <1>1, <1>2 DEF IndInv, ParkedAtResumePoint, RequestsServed, ReadersRead, ResumePoints,
           TypeOK
  <1>4. ASSUME UNCHANGED <<state, blocked_reader, wake_hint>>,
               rx' = rx,
               need_reschedule' \in BOOLEAN,
               fifo' \in 0 .. FIFO_DEPTH, timer_pending' \in BOOLEAN
        PROVE  IndInv'
    <2>1. TypeOK'
      BY <1>0, <1>1, <1>2, <1>4 DEF TypeOK
    <2>2. RunningIsCurrent' /\ HintIsFresh'
      BY <1>0, <1>1, <1>4 DEF IndInv, RunningIsCurrent, HintIsFresh
    <2>3. SleepsInRead'
      BY <1>0, <1>2, <1>4 DEF IndInv, SleepsInRead
    <2>4. SwitchRequested' /\ SpinsOnEmptyRing'
      BY <1>0, <1>1, <1>4 DEF IndInv, SwitchRequested, SpinsOnEmptyRing, Runnable
    <2>5. NoLostWakeup'
      BY <1>4 DEF IndInv, NoLostWakeup
    <2>6. WokenHasInput'
      BY <1>1, <1>2, <1>4 DEF IndInv, WokenHasInput
    <2> QED
      BY <1>3, <2>1, <2>2, <2>3, <2>4, <2>5, <2>6 DEF IndInv
  <1>5. CASE IrqTimer
    BY <1>0, <1>4, <1>5 DEF IrqTimer, TypeOK
  <1>6. CASE IrqSpurious
    BY <1>0, <1>4, <1>6 DEF IrqSpurious, TypeOK
  <1>7. CASE IrqUart
    <2>1. /\ fifo' \in 0 .. FIFO_DEPTH
          /\ timer_pending' \in BOOLEAN
          /\ rx' \in 0 .. RX_CAPACITY
          /\ rx' > 0
      <3>1. rx + fifo \in Nat /\ rx + fifo > 0 /\ RX_CAPACITY \in Nat /\ RX_CAPACITY > 0
        BY <1>0, <1>7, ConstantsAssumption DEF IrqUart, TypeOK
      <3>2. rx' = Least(rx + fifo, RX_CAPACITY)
        BY <1>7 DEF IrqUart
      <3>3. rx' \in 0 .. RX_CAPACITY /\ rx' > 0
        BY <3>1, <3>2, LeastFacts
      <3> QED
        BY <1>0, <1>7, <3>3, ConstantsAssumption DEF IrqUart, TypeOK
    <2>2. CASE /\ blocked_reader # NULL
               /\ state[blocked_reader] = "BLOCKED"
               /\ state' = [state EXCEPT ![blocked_reader] = "READY"]
               /\ blocked_reader' = NULL
               /\ wake_hint' = blocked_reader
               /\ need_reschedule' = TRUE
      <3> DEFINE r == blocked_reader
      <3>1. /\ r \in Procs
            /\ r # current
            /\ pc[r] = "read"
        BY <1>0, <2>2 DEF TypeOK, IndInv, SleepsInRead, ParkedAtResumePoint, ResumePoints
      <3>2. /\ state' \in [Procs -> TaskStates]
            /\ state'[r] = "READY"
            /\ \A p \in Procs : p # r => state'[p] = state[p]
        BY <1>0, <2>2, <3>1 DEF TypeOK, TaskStates
      <3>3. TypeOK'
        BY <1>0, <1>1, <1>2, <2>1, <2>2, <3>1, <3>2 DEF TypeOK
      <3>4. RunningIsCurrent'
        BY <1>1, <3>1, <3>2 DEF IndInv, RunningIsCurrent
      <3>5. HintIsFresh'
        BY <1>1, <1>2, <2>2, <3>1, <3>2 DEF HintIsFresh
      <3>6. SleepsInRead'
        BY <1>0, <1>1, <1>2, <3>1, <3>2 DEF IndInv, SleepsInRead
      <3>7. SwitchRequested' /\ SpinsOnEmptyRing'
        BY <1>0, <1>1, <2>2, <3>1, <3>2
        DEF IndInv, SwitchRequested, SpinsOnEmptyRing, SleepsInRead, TypeOK
      <3>8. NoLostWakeup'
        BY <3>2 DEF IndInv, NoLostWakeup
      <3>9. WokenHasInput'
        BY <2>1 DEF WokenHasInput
      <3> QED
        BY <1>3, <3>3, <3>4, <3>5, <3>6, <3>7, <3>8, <3>9 DEF IndInv
    <2>3. CASE /\ ~(blocked_reader # NULL /\ state[blocked_reader] = "BLOCKED")
               /\ UNCHANGED <<state, blocked_reader, wake_hint, need_reschedule>>
      <3>1. TypeOK'
        BY <1>0, <1>1, <1>2, <2>1, <2>3 DEF TypeOK
      <3>2. RunningIsCurrent' /\ HintIsFresh'
        BY <1>0, <1>1, <2>3 DEF IndInv, RunningIsCurrent, HintIsFresh
      <3>3. SleepsInRead'
        BY <1>0, <1>2, <2>3 DEF IndInv, SleepsInRead
      <3>4. SwitchRequested' /\ SpinsOnEmptyRing'
        BY <1>0, <1>1, <2>3
        DEF IndInv, SwitchRequested, SpinsOnEmptyRing, Runnable, SleepsInRead, TypeOK
      <3>5. SingleReader => \A p \in Procs : state[p] # "BLOCKED"
        BY <2>3 DEF IndInv, NoLostWakeup, NULL, Procs
      <3>6. NoLostWakeup'
        BY <2>3, <3>5 DEF NoLostWakeup
      <3>7. WokenHasInput'
        BY <2>1 DEF WokenHasInput
      <3> QED
        BY <1>3, <3>1, <3>2, <3>3, <3>4, <3>6, <3>7 DEF IndInv
    <2> QED
      BY <1>7, <2>2, <2>3 DEF IrqUart, scheduler_wake_reader
  <1> QED
    BY <1>5, <1>6, <1>7 DEF Irq

\* The system calls, entered from user mode, which change no flag but
\* need_reschedule and no state but by killing.
LEMMA UserStepInv == IndInv /\ UserStep => IndInv'
  <1> SUFFICES ASSUME IndInv, UserStep PROVE IndInv'
    OBVIOUS
  <1>0. /\ TypeOK
        /\ pc[current] = "user"
        /\ ~need_reschedule
        /\ wake_hint = NULL
        /\ UNCHANGED <<current, blocked_reader, wake_hint, rx, fifo, timer_pending>>
    BY DEF IndInv, UserStep, SvcCall, sys_yield, sys_exit, sys_read, sys_kill, UserFault,
           Calls, InUserMode, HintIsFresh, RequestsServed, ResumePoints
  <1>1. ASSUME NEW point \in SchedSites \cup {"read"},
               pc' = [pc EXCEPT ![current] = point],
               point # "block_sched",
               point = "read" => ~need_reschedule' /\ "read" \in Program[current],
               exc_frames' \in [ExcModes -> Nat],
               need_reschedule' \in BOOLEAN,
               state' = state \/ need_reschedule',
               state' \in [Procs -> TaskStates],
               \A p \in Procs : state'[p] = state[p] \/ state'[p] = "DEAD"
        PROVE  IndInv'
    <2>1. /\ pc' \in [Procs -> SchedSites \cup ResumePoints]
          /\ pc'[current] = point
          /\ \A p \in Procs : p # current => pc'[p] = pc[p]
      BY <1>0, <1>1 DEF TypeOK, ResumePoints
    <2>2. TypeOK'
      BY <1>0, <1>1, <2>1 DEF TypeOK
    <2>3. RunningIsCurrent' /\ HintIsFresh'
      BY <1>0, <1>1 DEF IndInv, RunningIsCurrent, HintIsFresh
    <2>4. RequestsServed'
      BY <1>0, <1>1, <2>1 DEF RequestsServed, ResumePoints, SchedSites
    <2>5. ParkedAtResumePoint'
      BY <1>0, <2>1 DEF IndInv, ParkedAtResumePoint
    <2>6. SleepsInRead'
      BY <1>0, <1>1, <2>1 DEF IndInv, SleepsInRead, ParkedAtResumePoint, ResumePoints
    <2>7. SwitchRequested' /\ SpinsOnEmptyRing'
      BY <1>0, <1>1 DEF IndInv, SwitchRequested, SpinsOnEmptyRing, Runnable, TypeOK
    <2>8. ReadersRead'
      BY <1>0, <1>1, <2>1 DEF IndInv, ReadersRead, SchedSites
    <2>9. NoLostWakeup'
      BY <1>0, <1>1 DEF IndInv, NoLostWakeup
    <2>10. WokenHasInput'
      BY <1>0, <1>1, <2>1 DEF IndInv, WokenHasInput
    <2> QED
      BY <2>2, <2>3, <2>4, <2>5, <2>6, <2>7, <2>8, <2>9, <2>10 DEF IndInv
  <1> DEFINE Alive(S) == /\ S \in [Procs -> TaskStates]
                         /\ \A p \in Procs : S[p] = state[p] \/ S[p] = "DEAD"
  <1>2. /\ Alive(state)
        /\ \A p \in Procs : Alive([state EXCEPT ![p] = "DEAD"])
    BY <1>0 DEF TypeOK, TaskStates
  <1>3. \A mode \in ExcModes :
            [exc_frames EXCEPT ![mode] = @ + 1] \in [ExcModes -> Nat]
    BY <1>0 DEF TypeOK
  <1>4. /\ current \in Procs
        /\ exc_frames \in [ExcModes -> Nat]
        /\ need_reschedule \in BOOLEAN
    BY <1>0 DEF TypeOK
  <1>5. CASE SvcCall
    BY <1>0, <1>1, <1>2, <1>4, <1>5 DEF SvcCall, GoTo, SchedSites
  <1>6. CASE sys_yield
    BY <1>0, <1>1, <1>2, <1>4, <1>6 DEF sys_yield, GoTo, SchedSites, scheduler_request_resched
  <1>7. CASE sys_exit
    BY <1>0, <1>1, <1>2, <1>4, <1>7 DEF sys_exit, GoTo, SchedSites, scheduler_request_resched
  <1>8. CASE sys_read
    BY <1>0, <1>1, <1>2, <1>4, <1>8 DEF sys_read, GoTo, Calls
  <1>9. ASSUME NEW pid \in 0 .. NUM_PROCESSES, sys_kill(pid) PROVE IndInv'
    <2>1. CASE pid \in Procs /\ state' = [state EXCEPT ![pid] = "DEAD"] /\ need_reschedule' = TRUE
      BY <1>0, <1>1, <1>2, <1>4, <1>9, <2>1 DEF sys_kill, GoTo, SchedSites
    <2>2. CASE UNCHANGED <<state, need_reschedule>>
      BY <1>0, <1>1, <1>2, <1>4, <1>9, <2>2 DEF sys_kill, GoTo, SchedSites
    <2> QED
      BY <1>9, <2>1, <2>2 DEF sys_kill, scheduler_request_resched
  <1>10. ASSUME NEW mode \in ExcModes, UserFault(mode) PROVE IndInv'
    BY <1>0, <1>1, <1>2, <1>3, <1>4, <1>10
    DEF UserFault, GoTo, SchedSites, scheduler_request_resched
  <1> QED
    BY <1>5, <1>6, <1>7, <1>8, <1>9, <1>10 DEF UserStep

\* The copy loop of sys_read.
LEMMA ReadInv == IndInv /\ (ReadCopy \/ ReadBlock) => IndInv'
  <1> SUFFICES ASSUME IndInv, ReadCopy \/ ReadBlock PROVE IndInv'
    OBVIOUS
  <1>0. /\ TypeOK
        /\ pc[current] = "read"
        /\ ~need_reschedule
        /\ wake_hint = NULL
        /\ "read" \in Program[current]
        /\ UNCHANGED <<current, wake_hint, fifo, timer_pending, exc_frames>>
    BY DEF IndInv, ReadCopy, ReadBlock, HintIsFresh, RequestsServed, ResumePoints, ReadersRead,
           TypeOK
  <1>1. SingleReader => \A p \in Procs : pc[p] = "read" \/ state[p] = "BLOCKED" => p = current
    BY <1>0 DEF IndInv, ReadersRead, SleepsInRead, SingleReader, TypeOK
  <1>2. CASE ReadCopy
    <2>0. /\ pc' = [pc EXCEPT ![current] = "svc_sched"]
          /\ UNCHANGED <<state, need_reschedule, blocked_reader>>
          /\ rx > 0
      BY <1>2 DEF ReadCopy, GoTo
    <2>1. /\ pc' \in [Procs -> SchedSites \cup ResumePoints]
          /\ pc'[current] = "svc_sched"
          /\ \A p \in Procs : p # current => pc'[p] = pc[p]
      BY <1>0, <2>0 DEF TypeOK, SchedSites
    <2>2. rx' \in 0 .. RX_CAPACITY
      <3>1. PICK len \in ReadLens : rx' = rx - Least(len, rx)
        BY <1>2 DEF ReadCopy
      <3> QED
        BY <1>0, <3>1, ConstantsAssumption DEF TypeOK, Least
    <2>3. TypeOK'
      BY <1>0, <2>0, <2>1, <2>2 DEF TypeOK
    <2>4. RunningIsCurrent' /\ HintIsFresh' /\ RequestsServed'
      BY <1>0, <2>0, <2>1 DEF IndInv, RunningIsCurrent, HintIsFresh, RequestsServed
    <2>5. ParkedAtResumePoint' /\ ReadersRead'
      BY <1>0, <2>1 DEF IndInv, ParkedAtResumePoint, ReadersRead
    <2>6. SleepsInRead'
      BY <1>0, <2>0, <2>1 DEF IndInv, SleepsInRead, SpinsOnEmptyRing
    <2>7. SwitchRequested' /\ SpinsOnEmptyRing'
      BY <1>0, <2>0 DEF IndInv, SwitchRequested, SpinsOnEmptyRing, Runnable
    <2>8. NoLostWakeup'
      BY <1>1, <2>0 DEF IndInv, NoLostWakeup, SpinsOnEmptyRing
    <2>9. WokenHasInput'
      BY <1>0, <1>1, <2>1 DEF WokenHasInput
    <2> QED
      BY <2>3, <2>4, <2>5, <2>6, <2>7, <2>8, <2>9 DEF IndInv
  <1>3. CASE ReadBlock
    <2>0. /\ pc' = [pc EXCEPT ![current] = "block_sched"]
          /\ state' = [state EXCEPT ![current] = "BLOCKED"]
          /\ need_reschedule' = TRUE
          /\ blocked_reader' = current
          /\ rx = 0
          /\ rx' = rx
      BY <1>3 DEF ReadBlock, GoTo
    <2>1. /\ pc' \in [Procs -> SchedSites \cup ResumePoints]
          /\ pc'[current] = "block_sched"
          /\ state' \in [Procs -> TaskStates]
          /\ state'[current] = "BLOCKED"
          /\ \A p \in Procs : p # current => pc'[p] = pc[p] /\ state'[p] = state[p]
      BY <1>0, <2>0 DEF TypeOK, SchedSites, TaskStates
    <2>2. TypeOK'
      BY <1>0, <2>0, <2>1 DEF TypeOK
    <2>3. RunningIsCurrent' /\ HintIsFresh' /\ RequestsServed'
      BY <1>0, <2>0, <2>1
      DEF IndInv, RunningIsCurrent, HintIsFresh, RequestsServed, ResumePoints
    <2>4. ParkedAtResumePoint' /\ ReadersRead' /\ SleepsInRead'
      BY <1>0, <2>1 DEF IndInv, ParkedAtResumePoint, ReadersRead, SleepsInRead
    <2>5. SwitchRequested' /\ SpinsOnEmptyRing'
      BY <2>0 DEF SwitchRequested, SpinsOnEmptyRing
    <2>6. NoLostWakeup'
      BY <1>1, <2>0, <2>1 DEF NoLostWakeup
    <2>7. WokenHasInput'
      BY <1>0, <1>1, <2>1 DEF WokenHasInput
    <2> QED
      BY <2>2, <2>3, <2>4, <2>5, <2>6, <2>7 DEF IndInv
  <1> QED
    BY <1>2, <1>3

\* A byte arriving in the FIFO or the timer expiring disturbs the hardware
\* lines only.
LEMMA HardwareInv == IndInv /\ Hardware => IndInv'
  <1> SUFFICES ASSUME IndInv, Hardware PROVE IndInv'
    OBVIOUS
  <1>1. UNCHANGED <<state, current, need_reschedule, blocked_reader, wake_hint, pc, rx, exc_frames>>
    BY DEF Hardware, TimerExpire, UartReceive
  <1>2. TypeOK'
    <2>1. fifo' \in 0 .. FIFO_DEPTH
      BY ConstantsAssumption DEF IndInv, TypeOK, Hardware, TimerExpire, UartReceive, Least
    <2>2. timer_pending' \in BOOLEAN
      BY DEF IndInv, TypeOK, Hardware, TimerExpire, UartReceive
    <2> QED
      BY <1>1, <2>1, <2>2 DEF IndInv, TypeOK
  <1> QED
    BY <1>1, <1>2
    DEF IndInv, RunningIsCurrent, HintIsFresh, RequestsServed, ParkedAtResumePoint,
        SleepsInRead, SwitchRequested, SpinsOnEmptyRing, ReadersRead, NoLostWakeup,
        WokenHasInput, Runnable

\* The invariant holds throughout every behaviour of the kernel.
THEOREM Invariance == Spec => []IndInv
  <1>1. IndInv /\ UNCHANGED vars => IndInv'
    BY DEF vars, IndInv, TypeOK, RunningIsCurrent, HintIsFresh, RequestsServed,
           ParkedAtResumePoint, SleepsInRead, SwitchRequested, SpinsOnEmptyRing, ReadersRead,
           NoLostWakeup, WokenHasInput, Runnable
  <1>2. IndInv /\ [Next]_vars => IndInv'
    BY <1>1, ScheduleInv, ReadInv, IrqInv, UserStepInv, HardwareInv DEF Next, Kernel
  <1> QED
    BY <1>2, InitInv, PTL DEF Spec

-----------------------------------------------------------------------------
(* What the invariant gives.                                               *)

\* Every variable keeps the type its C declaration and its uses give it.
THEOREM TypeCorrectness == Spec => []TypeOK
  BY Invariance, PTL DEF IndInv

\* Two processes are never RUNNING at once, and RUNNING means on the CPU:
\* perform_switch demotes the one it leaves.
THEOREM RunningUnique == Spec => []RunningIsCurrent
  BY Invariance, PTL DEF IndInv

\* A wake-up hint never outlives the interrupt that set it.
THEOREM HintFreshness == Spec => []HintIsFresh
  BY Invariance, PTL DEF IndInv

\* The CPU is left to a process that must not run, or halted by a fault, only
\* when no process is runnable.
THEOREM NoWastedCpu == Spec => []CpuNotWasted
  <1>1. IndInv => CpuNotWasted
    BY DEF IndInv, CpuNotWasted, SwitchRequested, RequestsServed
  <1> QED
    BY <1>1, Invariance, PTL

\* With one reader, no wake-up is lost and none is spurious.
THEOREM WakeupSafety == Spec => []WakeupsExact
  BY Invariance, PTL DEF IndInv, WakeupsExact

\* Death is final for a process off the CPU, whatever the wait slot and the
\* hint still say.
THEOREM DeathIsFinal == Spec => DeadStaysDown
  <1> DEFINE Final == \A p \in Procs : state[p] = "DEAD" /\ p # current
                                          => state'[p] = "DEAD" /\ p # current'
  <1>1. IndInv /\ [Next]_vars => [Final]_vars
    <2> SUFFICES ASSUME IndInv, Next, NEW p \in Procs, state[p] = "DEAD", p # current
                 PROVE  state'[p] = "DEAD" /\ p # current'
      OBVIOUS
    <2>1. state \in [Procs -> TaskStates] /\ current \in Procs
      BY DEF IndInv, TypeOK
    <2>2. ASSUME NEW cand \in Procs, Candidate(current, cand), perform_switch(current, cand)
          PROVE  state'[p] = "DEAD" /\ p # current'
      BY <2>1, <2>2 DEF Candidate, perform_switch, Runnable
    <2>3. CASE schedule
      <3>1. CASE ScheduleNotNeeded
        BY <3>1 DEF ScheduleNotNeeded
      <3>2. CASE ScheduleHint
        BY <2>2, <3>2 DEF IndInv, TypeOK, ScheduleHint, HintUsable
      <3>3. CASE ScheduleRing
        BY <2>2, <3>3 DEF ScheduleRing, FirstInRing
      <3> QED
        BY <2>3, <3>1, <3>2, <3>3 DEF schedule
    <2>4. CASE ReadCopy \/ ReadBlock
      BY <2>1, <2>4 DEF ReadCopy, ReadBlock
    <2>5. CASE Irq
      BY <2>1, <2>5 DEF Irq, IrqTimer, IrqUart, IrqSpurious, scheduler_wake_reader
    <2>6. CASE UserStep
      BY <2>1, <2>6 DEF UserStep, SvcCall, sys_yield, sys_exit, sys_read, sys_kill, UserFault
    <2>7. CASE Hardware
      BY <2>7 DEF Hardware, TimerExpire, UartReceive
    <2> QED
      BY <2>3, <2>4, <2>5, <2>6, <2>7 DEF Next, Kernel
  <1> QED
    BY <1>1, Invariance, PTL DEF Spec, DeadStaysDown

\* With one reader, the step that puts a byte into the ring makes whoever sleeps
\* READY and hints at it; and a hint is kept until the switch, which goes to the
\* process it names.
InputServedNext ==
    [][/\ SingleReader /\ rx' > 0 =>
             \A p \in Procs : state[p] = "BLOCKED" => state'[p] = "READY" /\ wake_hint' = p
       /\ wake_hint # NULL =>
             \/ current' = current /\ wake_hint' = wake_hint
             \/ current' = wake_hint /\ wake_hint' = NULL /\ state'[current'] = "RUNNING"]_vars

\* Input that finds a sleeper wakes it at once: only the interrupt fills the ring,
\* the slot names the sleeper, and a sleeper is never interrupted on the CPU.
LEMMA SleeperWoken ==
    ASSUME IndInv, Next, SingleReader, rx' > 0, NEW p \in Procs, state[p] = "BLOCKED"
    PROVE  state'[p] = "READY" /\ wake_hint' = p
<1>1. blocked_reader = p /\ rx = 0 /\ state \in [Procs -> TaskStates] /\ p # NULL
  BY ConstantsAssumption DEF IndInv, NoLostWakeup, TypeOK, Procs, NULL
<1>2. IrqUart
  <2>1. CASE Kernel
    BY <1>1, <2>1 DEF Kernel, schedule, ReadCopy, ReadBlock
  <2>2. CASE Irq
    BY <1>1, <2>2 DEF Irq, IrqTimer, IrqSpurious
  <2>3. CASE UserStep
    BY <1>1, <2>3 DEF UserStep, SvcCall, sys_yield, sys_exit, sys_read, sys_kill, UserFault
  <2>4. CASE Hardware
    BY <1>1, <2>4 DEF Hardware, TimerExpire, UartReceive
  <2> QED
    BY <2>1, <2>2, <2>3, <2>4 DEF Next
<1> QED
  BY <1>1, <1>2 DEF IrqUart, scheduler_wake_reader

\* Until its interrupt reaches schedule() a hint is left alone, and schedule()
\* finds the process it names READY.
LEMMA HintFollowed ==
    ASSUME IndInv, Next, wake_hint # NULL
    PROVE  \/ current' = current /\ wake_hint' = wake_hint
           \/ current' = wake_hint /\ wake_hint' = NULL /\ state'[current'] = "RUNNING"
<1>1. /\ need_reschedule /\ pc[current] = "irq_sched" /\ wake_hint # current
      /\ state[wake_hint] = "READY" /\ wake_hint \in Procs /\ state \in [Procs -> TaskStates]
  BY DEF IndInv, HintIsFresh, TypeOK
<1>2. HintUsable
  BY <1>1 DEF HintUsable, Candidate, Runnable
<1>3. CASE Kernel
  BY <1>1, <1>2, <1>3 DEF Kernel, schedule, ReadCopy, ReadBlock, ScheduleNotNeeded,
     ScheduleHint, ScheduleRing, perform_switch
<1>4. CASE Irq \/ UserStep
  BY <1>1, <1>4 DEF Irq, IrqTimer, IrqUart, IrqSpurious, UserStep, SvcCall, sys_yield,
     sys_exit, sys_read, sys_kill, UserFault, Calls, InUserMode
<1>5. CASE Hardware
  BY <1>5 DEF Hardware, TimerExpire, UartReceive
<1> QED
  BY <1>3, <1>4, <1>5 DEF Next

\* Input gives the CPU to the sleeping reader: no other process runs in between,
\* for every number of processes.  This is the safety half of SleeperGetsInput.
THEOREM ReaderRunsNext == Spec => InputServedNext
<1> DEFINE Served == /\ SingleReader /\ rx' > 0 =>
                          \A p \in Procs : state[p] = "BLOCKED" =>
                                             state'[p] = "READY" /\ wake_hint' = p
                     /\ wake_hint # NULL =>
                          \/ current' = current /\ wake_hint' = wake_hint
                          \/ /\ current' = wake_hint /\ wake_hint' = NULL
                             /\ state'[current'] = "RUNNING"
<1>1. IndInv /\ [Next]_vars => [Served]_vars
  BY SleeperWoken, HintFollowed
<1> QED
  BY <1>1, Invariance, PTL DEF Spec, InputServedNext

-----------------------------------------------------------------------------
(* The kernel implements ProcessLife.                                      *)

\* The abstract life of every process; Promise reads it where it has life.
Lives == [p \in Procs |-> Life(p)]

\* A step that leaves a process as runnable, asleep or dead as it was leaves its
\* life alone.
LEMMA SameLife ==
    ASSUME TypeOK, \A p \in Procs : Runnable(p)' = Runnable(p)
                                    /\ (state'[p] = "BLOCKED" <=> state[p] = "BLOCKED")
    PROVE  Lives' = Lives
  BY DEF Lives, Life

\* A switch hands the CPU to a live process and changes nobody's life.
LEMMA SwitchIsSwitch ==
    ASSUME TypeOK, rx' = rx, NEW cand \in Procs,
           Candidate(current, cand), perform_switch(current, cand)
    PROVE  Promise!Switch
  <1>1. \A p \in Procs : Runnable(p)' = Runnable(p)
                         /\ (state'[p] = "BLOCKED" <=> state[p] = "BLOCKED")
    BY DEF perform_switch, Candidate, Runnable, TypeOK
  <1>2. Lives' = Lives
    BY <1>1, SameLife
  <1>3. Lives[cand] = "live" /\ current' = cand
    BY DEF Lives, Life, Candidate, perform_switch
  <1> QED
    BY <1>2, <1>3 DEF Promise!Switch, Lives

\* A process in user mode does not sleep.
LEMMA AwakeInUserMode ==
    ASSUME IndInv, InUserMode
    PROVE  state[current] # "BLOCKED" /\ Lives[current] # "asleep"
  <1>1. current \in Procs /\ state[current] # "BLOCKED"
    BY DEF IndInv, TypeOK, InUserMode, SleepsInRead
  <1> QED
    BY <1>1 DEF Lives, Life

\* Killing, exiting and faulting retire one process.
LEMMA DeathIsRetire ==
    ASSUME IndInv, InUserMode, UNCHANGED <<current, rx>>, NEW pid \in Procs,
           state' = [state EXCEPT ![pid] = "DEAD"]
    PROVE  Promise!Retire
  <1>1. state \in [Procs -> TaskStates]
    BY DEF IndInv, TypeOK
  <1>2. Lives' = [Lives EXCEPT ![pid] = "gone"]
    <2>1. \A p \in Procs : Life(p)' = IF p = pid THEN "gone" ELSE Life(p)
      BY <1>1 DEF Life, Runnable
    <2> QED
      BY <2>1 DEF Lives
  <1> QED
    BY <1>2, AwakeInUserMode DEF Promise!Retire, Lives

\* Every step of the kernel is a step of ProcessLife or leaves it unchanged.
LEMMA StepRefines ==
    ASSUME IndInv, [Next]_vars
    PROVE  [Promise!Next]_(Promise!lifeVars)
  <1> DEFINE Stutter == UNCHANGED Promise!lifeVars
  <1>0. TypeOK /\ current \in Procs
    BY DEF IndInv, TypeOK
  <1>1. ASSUME UNCHANGED <<state, current, rx>> PROVE Stutter
    BY <1>1 DEF Promise!lifeVars, Life, Runnable
  <1>2. CASE schedule
    <2>0. rx' = rx
      BY <1>2 DEF schedule
    <2>1. CASE ScheduleNotNeeded
      BY <1>1, <2>0, <2>1 DEF ScheduleNotNeeded
    <2>2. CASE ScheduleHint
      <3>1. wake_hint \in Procs /\ Candidate(current, wake_hint)
            /\ perform_switch(current, wake_hint)
        BY <1>0, <2>2 DEF ScheduleHint, HintUsable, TypeOK
      <3> QED
        BY <1>0, <2>0, <3>1, SwitchIsSwitch DEF Promise!Next
    <2>3. CASE ScheduleRing
      <3>1. CASE UNCHANGED <<state, current>>
        BY <1>1, <2>0, <3>1
      <3>2. ASSUME NEW cand \in Procs, FirstInRing(current, cand),
                   perform_switch(current, cand)
            PROVE  Promise!Switch
        BY <1>0, <2>0, <3>2, SwitchIsSwitch DEF FirstInRing
      <3> QED
        BY <2>3, <3>1, <3>2 DEF ScheduleRing, Promise!Next
    <2> QED
      BY <1>2, <2>1, <2>2, <2>3 DEF schedule
  <1>3. CASE ReadCopy
    <2>1. UNCHANGED <<state, current>> /\ rx' \in 0 .. rx
      BY <1>0, <1>3, ConstantsAssumption DEF ReadCopy, Least, TypeOK
    <2>2. Lives' = Lives
      BY <2>1 DEF Lives, Life, Runnable
    <2>3. Lives[current] # "asleep"
      BY <1>0, <1>3 DEF ReadCopy, IndInv, SpinsOnEmptyRing, Lives, Life, TypeOK
    <2> QED
      BY <2>1, <2>2, <2>3 DEF Promise!Next, Promise!Take, Lives
  <1>4. CASE ReadBlock
    <2>1. UNCHANGED <<current, rx>> /\ rx = 0
          /\ state' = [state EXCEPT ![current] = "BLOCKED"]
      BY <1>4 DEF ReadBlock
    <2>2. Lives' = [Lives EXCEPT ![current] = "asleep"]
      <3>1. \A p \in Procs : Life(p)' = IF p = current THEN "asleep" ELSE Life(p)
        BY <1>0, <2>1 DEF Life, Runnable, TypeOK
      <3> QED
        BY <3>1 DEF Lives
    <2>3. Lives[current] = "gone" => \A p \in Procs : Lives[p] # "live"
      <3>1. ~need_reschedule
        BY <1>4 DEF ReadBlock, IndInv, RequestsServed, ResumePoints
      <3> QED
        BY <1>0, <3>1 DEF IndInv, SwitchRequested, Lives, Life
    <2> QED
      BY <2>1, <2>2, <2>3 DEF Promise!Next, Promise!Sleep, Lives
  <1>5. CASE IrqTimer \/ IrqSpurious \/ Hardware \/ SvcCall \/ sys_yield \/ sys_read
    BY <1>1, <1>5 DEF IrqTimer, IrqSpurious, Hardware, TimerExpire, UartReceive,
                      SvcCall, sys_yield, sys_read
  <1>6. CASE IrqUart
    <2>1. current' = current /\ rx' \in rx .. RX_CAPACITY /\ rx' > 0
      BY <1>0, <1>6, ConstantsAssumption DEF IrqUart, Least, TypeOK
    <2>2. CASE state' = state
      <3>1. Lives' = Lives
        BY <2>2 DEF Lives, Life, Runnable
      <3> QED
        BY <2>1, <3>1 DEF Promise!Next, Promise!Deliver, Lives
    <2>3. CASE /\ blocked_reader # NULL /\ state[blocked_reader] = "BLOCKED"
               /\ state' = [state EXCEPT ![blocked_reader] = "READY"]
      <3>1. blocked_reader \in Procs \ {current}
        BY <1>0, <1>6, <2>3, AwakeInUserMode DEF TypeOK, IrqUart
      <3>2. Lives[blocked_reader] = "asleep"
        BY <2>3, <3>1 DEF Lives, Life, Runnable
      <3>3. Lives' = [Lives EXCEPT ![blocked_reader] = "live"]
        <4>1. \A p \in Procs : Life(p)' = IF p = blocked_reader THEN "live" ELSE Life(p)
          BY <1>0, <2>3, <3>1 DEF Life, Runnable, TypeOK
        <4> QED
          BY <4>1 DEF Lives
      <3> QED
        BY <2>1, <3>1, <3>2, <3>3 DEF Promise!Next, Promise!Deliver, Lives
    <2> QED
      BY <1>6, <2>2, <2>3 DEF IrqUart, scheduler_wake_reader
  <1>7. CASE sys_exit
    BY <1>0, <1>7, DeathIsRetire DEF sys_exit, Calls, Promise!Next
  <1>8. ASSUME NEW pid \in 0 .. NUM_PROCESSES, sys_kill(pid)
        PROVE  Promise!Next \/ Stutter
    <2>1. CASE pid \in Procs /\ state' = [state EXCEPT ![pid] = "DEAD"]
      BY <1>8, <2>1, DeathIsRetire DEF sys_kill, Calls, Promise!Next
    <2>2. CASE UNCHANGED state
      BY <1>1, <1>8, <2>2 DEF sys_kill
    <2> QED
      BY <1>8, <2>1, <2>2 DEF sys_kill
  <1>9. ASSUME NEW mode \in ExcModes, UserFault(mode)
        PROVE  Promise!Next
    BY <1>0, <1>9, DeathIsRetire DEF UserFault, Calls, Promise!Next
  <1>10. CASE UNCHANGED vars
    BY <1>1, <1>10 DEF vars
  <1> QED
    BY <1>2, <1>3, <1>4, <1>5, <1>6, <1>7, <1>8, <1>9, <1>10
    DEF Next, Kernel, Irq, UserStep

\* The kernel implements the life cycle it promises its processes, for every
\* number of processes and every choice of programs.
THEOREM Refinement == Spec => ImplementsLife
  <1>1. Init => Promise!Init
    <2> SUFFICES ASSUME Init PROVE Promise!Init
      OBVIOUS
    <2>1. current \in Procs
      BY ConstantsAssumption DEF Init, Procs
    <2> QED
      BY <2>1 DEF Init, Promise!Init, Life, Runnable
  <1>2. IndInv /\ [Next]_vars => [Promise!Next]_(Promise!lifeVars)
    BY StepRefines
  <1> QED
    BY <1>1, <1>2, Invariance, PTL DEF Spec, ImplementsLife, Promise!Spec

-----------------------------------------------------------------------------
(* The exception stacks.                                                   *)

\* The set of faulted processes is finite and no larger than processes[].
LEMMA FaultedFinite ==
    /\ IsFiniteSet(Faulted)
    /\ Cardinality(Faulted) \in Nat
    /\ Cardinality(Faulted) <= NUM_PROCESSES
  <1>1. IsFiniteSet(Procs) /\ Cardinality(Procs) = NUM_PROCESSES
    BY FS_Interval, ConstantsAssumption DEF Procs
  <1>2. Faulted \subseteq Procs
    BY DEF Faulted
  <1>3. IsFiniteSet(Faulted) /\ Cardinality(Faulted) <= NUM_PROCESSES
    BY <1>1, <1>2, FS_Subset
  <1> QED
    BY <1>3, FS_CardinalityType

\* A step that leaves exc_frames alone leaves the set of faulted processes alone.
LEMMA FaultedUnchanged ==
    ASSUME TypeOK, [Next]_vars, exc_frames' = exc_frames
    PROVE  Faulted' = Faulted
  <1>1. CASE UNCHANGED vars
    BY <1>1 DEF vars, Faulted
  <1>2. CASE schedule
    <2>1. pc[current] \in SchedSites /\ pc' = [pc EXCEPT ![current] = After[pc[current]]]
      BY <1>2 DEF schedule, GoTo
    <2>2. pc'[current] \in {"fault_sched", "panic"} <=> pc[current] \in {"fault_sched", "panic"}
      BY <2>1 DEF TypeOK, SchedSites, After
    <2>3. \A p \in Procs : p # current => pc'[p] = pc[p]
      BY <2>1 DEF TypeOK
    <2> QED
      BY <2>2, <2>3 DEF Faulted
  <1>3. CASE ReadCopy \/ ReadBlock
    BY <1>3 DEF ReadCopy, ReadBlock, GoTo, Faulted, TypeOK
  <1>4. CASE Irq
    BY <1>4 DEF Irq, IrqTimer, IrqUart, IrqSpurious, InUserMode, GoTo, Faulted, TypeOK
  <1>5. CASE SvcCall \/ sys_yield \/ sys_exit \/ sys_read
             \/ \E pid \in 0 .. NUM_PROCESSES : sys_kill(pid)
    BY <1>5 DEF SvcCall, sys_yield, sys_exit, sys_read, sys_kill, Calls, InUserMode, GoTo,
                Faulted, TypeOK
  <1>6. ASSUME NEW mode \in ExcModes, UserFault(mode) PROVE FALSE
    <2>1. exc_frames[mode] \in Nat /\ exc_frames'[mode] = exc_frames[mode] + 1
      BY <1>6 DEF UserFault, TypeOK
    <2> QED
      BY <2>1
  <1>7. CASE Hardware
    BY <1>7 DEF Hardware, TimerExpire, UartReceive, Faulted
  <1> QED
    BY <1>1, <1>2, <1>3, <1>4, <1>5, <1>6, <1>7 DEF Next, Kernel, UserStep

\* The exception stacks hold one frame per faulted process, hence never more
\* frames than there are processes.
THEOREM ExceptionStacks == Spec => []ExceptionStacksBounded
  <1>1. Init => FramesOwned
    <2> SUFFICES ASSUME Init PROVE FramesOwned
      OBVIOUS
    <2>1. Faulted = {}
      BY DEF Init, Faulted
    <2>2. exc_frames["abt"] + exc_frames["und"] = 0
      BY DEF Init, ExcModes
    <2> QED
      BY <2>1, <2>2, FS_EmptySet DEF FramesOwned
  <1>2. TypeOK /\ FramesOwned /\ [Next]_vars => FramesOwned'
    <2> SUFFICES ASSUME TypeOK, FramesOwned, [Next]_vars PROVE FramesOwned'
      OBVIOUS
    <2>1. CASE exc_frames' = exc_frames
      BY <2>1, FaultedUnchanged DEF FramesOwned
    <2>2. ASSUME NEW mode \in ExcModes, UserFault(mode) PROVE FramesOwned'
      <3>1. Faulted' = Faulted \cup {current} /\ current \notin Faulted
        BY <2>2 DEF UserFault, Calls, InUserMode, GoTo, Faulted, TypeOK
      <3>2. Cardinality(Faulted') = Cardinality(Faulted) + 1
        BY <3>1, FaultedFinite, FS_AddElement
      <3>3. exc_frames'["abt"] + exc_frames'["und"] = exc_frames["abt"] + exc_frames["und"] + 1
        BY <2>2 DEF UserFault, TypeOK, ExcModes
      <3> QED
        BY <3>2, <3>3 DEF FramesOwned
    <2> QED
      BY <2>1, <2>2
      DEF Next, Kernel, Irq, UserStep, Hardware, vars, schedule, ReadCopy, ReadBlock, IrqTimer,
          IrqUart, IrqSpurious, SvcCall, sys_yield, sys_exit, sys_read, sys_kill, TimerExpire,
          UartReceive
  <1>3. FramesOwned => ExceptionStacksBounded
    BY FaultedFinite DEF FramesOwned, ExceptionStacksBounded
  <1> QED
    BY <1>1, <1>2, <1>3, TypeCorrectness, PTL DEF Spec
=============================================================================
