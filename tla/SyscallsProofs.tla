--------------------------- MODULE SyscallsProofs ---------------------------
(***************************************************************************)
(* For every word size, user window, number of processes and set of        *)
(* arguments: valid_user_ptr decides the interval in which a buffer has to *)
(* lie, no call ever touches a byte outside the user window, every         *)
(* variable keeps its type, and every call returns what it promises.  The  *)
(* last of these rests on the first two.                                   *)
(***************************************************************************)
EXTENDS Syscalls, SequenceTheorems, WellFoundedInduction, TLAPS

Registers == [r0 : Words, r1 : Words, r2 : Words, r7 : Nat]

\* Types of the variables that the argument uses.
BufferTypes ==
    /\ current \in Procs
    /\ pc \in [Procs -> Points]
    /\ regs \in [Procs -> Registers]
    /\ buf \in [Procs -> Words]
    /\ n \in [Procs -> Nat]

\* What a handler knows of p's buffer at each point: nothing is moved before the
\* check, the loops stay within the length that was checked, also when the process
\* slept in between, and at the return the bytes moved are in the window.
BufferKnown(p) ==
    /\ pc[p] \in {"user", "svc"} => n[p] = 0
    /\ pc[p] \in {"write", "read"} =>
          InWindow(buf[p], regs[p].r2) /\ n[p] <= regs[p].r2
    /\ pc[p] = "ps" =>
          InWindow(buf[p], regs[p].r1) /\ (n[p] = 0 \/ n[p] < regs[p].r1)
    /\ pc[p] = "ret" => n[p] = 0 \/ InWindow(buf[p], n[p])

WindowInv == BufferTypes /\ \A p \in Procs : BufferKnown(p)

-----------------------------------------------------------------------------
(* Arithmetic of words.                                                    *)

\* A sum of two words wraps at most once.
LEMMA SumWraps ==
    ASSUME NEW a \in Words, NEW b \in Words
    PROVE  (a + b) % WORD = IF a + b < WORD THEN a + b ELSE a + b - WORD
<1>1. WORD \in Nat /\ WORD > 0 /\ a \in Nat /\ b \in Nat /\ a < WORD /\ b < WORD
  BY SyscallsAssumption DEF Words
<1>2. CASE a + b < WORD
  BY <1>1, <1>2, SMT
<1>3. CASE a + b >= WORD
  BY <1>1, <1>3, SMT
<1> QED
  BY <1>1, <1>2, <1>3

\* valid_user_ptr, in the arithmetic of uint32_t, accepts exactly the buffers that
\* lie in the user window in unbounded arithmetic: the test end < addr catches
\* every length that wraps, and no good buffer is refused.
THEOREM ValidatorExact ==
    ASSUME NEW addr \in Words, NEW len \in Words
    PROVE  valid_user_ptr(addr, len) <=> InWindow(addr, len)
<1>1. (addr + len) % WORD =
         IF addr + len < WORD THEN addr + len ELSE addr + len - WORD
  BY SumWraps
<1>2. /\ WORD \in Nat /\ addr \in Nat /\ len \in Nat
      /\ addr < WORD /\ len < WORD
      /\ USER_VIRT_BASE \in Nat /\ USER_REGION_SIZE \in Nat
      /\ USER_VIRT_BASE + USER_REGION_SIZE < WORD
  BY SyscallsAssumption DEF Words
<1> QED
  BY <1>1, <1>2 DEF valid_user_ptr, InWindow

-----------------------------------------------------------------------------
(* Safety.                                                                 *)

\* The numbers of the memory layout.
LEMMA Layout ==
    /\ WORD \in Nat /\ USER_VIRT_BASE \in Nat /\ USER_REGION_SIZE \in Nat
    /\ USER_VIRT_BASE + USER_REGION_SIZE < WORD
BY SyscallsAssumption

\* No process is in a call at the start.
LEMMA WindowInit == Init => WindowInv
<1> SUFFICES ASSUME Init PROVE WindowInv
  OBVIOUS
<1>1. 0 \in Words /\ 0 \in Procs
  BY SyscallsAssumption DEF Words, Procs
<1>2. BufferTypes
  BY <1>1 DEF Init, BufferTypes, NoRegs, Points
<1>3. \A p \in Procs : BufferKnown(p)
  BY DEF Init, BufferKnown
<1> QED
  BY <1>2, <1>3 DEF WindowInv

\* The errors and the arguments fit a register.
LEMMA RegisterValues ==
    /\ 0 \in Words /\ E_BADCALL \in Words /\ E_FAULT \in Words
    /\ Args \subseteq Words /\ Procs \subseteq Words
BY SyscallsAssumption DEF Words, Procs, E_BADCALL, E_FAULT

\* schedule() hands the CPU to a process of the table.
LEMMA ScheduleCurrent ==
    ASSUME NEW st, current \in Procs, Schedule(st)
    PROVE  current' \in Procs
BY DEF Schedule

\* Entering the kernel moves nothing.
LEMMA TrapInv ==
    ASSUME WindowInv, NEW fn, NEW a, NEW b, NEW r \in Registers, Trap(fn, a, b, r)
    PROVE  WindowInv'
<1>1. BufferTypes'
  BY DEF Trap, WindowInv, BufferTypes, Points, Registers
<1>2. \A p \in Procs : BufferKnown(p)'
  BY DEF Trap, WindowInv, BufferTypes, BufferKnown
<1> QED
  BY <1>1, <1>2 DEF WindowInv

\* A wrapper loads words.
LEMMA LoadTypes ==
    ASSUME NEW fn \in Wrappers, NEW a0 \in Words, NEW a1 \in Words, NEW a2 \in Words
    PROVE  Load(fn, a0, a1, a2) \in Registers
<1>1. SYS[fn] \in Nat
  BY DEF SYS, Wrappers
<1> QED
  BY <1>1 DEF Load, Registers

\* Every wrapper, and svc with a bad number.
LEMMA UserCallInv ==
    ASSUME WindowInv, UserCall \/ UserBadCall
    PROVE  WindowInv'
<1> USE RegisterValues, LoadTypes DEF Wrappers
<1>1. ASSUME NEW ptr \in Args, NEW len \in Args,
             \/ Trap("write", ptr, len, write_stub(ptr, len))
             \/ Trap("read", ptr, len, read_stub(ptr, len))
             \/ Trap("ps", ptr, len, ps_stub(ptr, len))
      PROVE  WindowInv'
  <2>1. /\ write_stub(ptr, len) \in Registers /\ read_stub(ptr, len) \in Registers
        /\ ps_stub(ptr, len) \in Registers
    BY DEF write_stub, read_stub, ps_stub
  <2> QED
    BY <1>1, <2>1, TrapInv
<1>2. ASSUME NEW pid \in Args, Trap("kill", pid, 0, kill_stub(pid))
      PROVE  WindowInv'
  <2>1. kill_stub(pid) \in Registers
    BY DEF kill_stub
  <2> QED
    BY <1>2, <2>1, TrapInv
<1>3. CASE \/ Trap("getpid", 0, 0, getpid_stub) \/ Trap("ticks", 0, 0, ticks_stub)
           \/ Trap("yield", 0, 0, yield_stub) \/ Trap("exit", 0, 0, exit_stub)
  <2>1. /\ getpid_stub \in Registers /\ ticks_stub \in Registers
        /\ yield_stub \in Registers /\ exit_stub \in Registers
    BY DEF getpid_stub, ticks_stub, yield_stub, exit_stub
  <2> QED
    BY <1>3, <2>1, TrapInv
<1>4. CASE UserBadCall
  <2>1. [NoRegs EXCEPT !.r7 = NR_SYSCALLS] \in Registers
    BY DEF NoRegs, NR_SYSCALLS, Registers
  <2> QED
    BY <1>4, <2>1, TrapInv DEF UserBadCall
<1> QED
  BY <1>1, <1>2, <1>3, <1>4 DEF UserCall

\* A handler that returns without moving a byte.
LEMMA ReturnInv ==
    ASSUME WindowInv, NEW v \in Words, pc[current] = "svc", Return(v),
           UNCHANGED <<current, buf, n>>
    PROVE  WindowInv'
<1>1. BufferTypes'
  BY DEF WindowInv, BufferTypes, Registers, Return, Go, Points
<1>2. \A p \in Procs : BufferKnown(p)'
  BY DEF WindowInv, BufferTypes, BufferKnown, Return, Go
<1> QED
  BY <1>1, <1>2 DEF WindowInv

\* The check of a buffer, and the start of the loop over it.
LEMMA CheckedInv ==
    ASSUME WindowInv, NEW ptr \in Words, NEW len \in Words,
           NEW loop \in {"write", "read", "ps"},
           pc[current] = "svc", Checked(ptr, len, loop),
           len = IF loop = "ps" THEN regs[current].r1 ELSE regs[current].r2
    PROVE  WindowInv'
<1>1. CASE ~valid_user_ptr(ptr, len)
  BY <1>1, ReturnInv, RegisterValues DEF Checked
<1>2. CASE valid_user_ptr(ptr, len)
  <2>1. InWindow(ptr, len)
    BY <1>2, ValidatorExact
  <2>2. /\ buf' = [buf EXCEPT ![current] = ptr]
        /\ pc' = [pc EXCEPT ![current] = loop]
        /\ UNCHANGED <<current, regs, n>>
    BY <1>2 DEF Checked, Go
  <2>3. BufferTypes'
    BY <2>2 DEF WindowInv, BufferTypes, Points
  <2>4. ASSUME NEW p \in Procs PROVE BufferKnown(p)'
    <3>1. CASE p = current
      <4>1. n[p] = 0 /\ n'[p] = 0 /\ pc'[p] = loop /\ buf'[p] = ptr /\ regs'[p] = regs[p]
        BY <2>2, <3>1 DEF WindowInv, BufferTypes, BufferKnown
      <4>2. regs[p].r2 \in Nat /\ regs[p].r2 >= 0
        BY SyscallsAssumption DEF WindowInv, BufferTypes, Registers, Words
      <4> QED
        BY <2>1, <3>1, <4>1, <4>2 DEF BufferKnown, InWindow
    <3>2. CASE p # current
      BY <2>2, <3>2 DEF WindowInv, BufferTypes, BufferKnown, InWindow
    <3> QED
      BY <3>1, <3>2
  <2> QED
    BY <2>3, <2>4 DEF WindowInv
<1> QED
  BY <1>1, <1>2

\* Dispatch and the heads of the handlers.
LEMMA HandlersInv ==
    ASSUME WindowInv, Handlers
    PROVE  WindowInv'
<1>1. /\ regs[current].r0 \in Words /\ regs[current].r1 \in Words
      /\ regs[current].r2 \in Words /\ current \in Words
  BY RegisterValues DEF WindowInv, BufferTypes, Registers
<1>2. CASE BadCall
  BY <1>2, ReturnInv, RegisterValues DEF BadCall, Simple
<1>3. CASE sys_getpid
  BY <1>1, <1>3, ReturnInv DEF sys_getpid, Dispatches, Simple
<1>4. CASE sys_yield
  BY <1>4, ReturnInv, RegisterValues DEF sys_yield, Dispatches, Simple
<1>5. CASE sys_exit
  BY <1>5, ReturnInv, RegisterValues DEF sys_exit, Dispatches, Simple
<1>6. CASE sys_ticks
  BY <1>6, ReturnInv, RegisterValues DEF sys_ticks, Dispatches, Simple
<1>7. CASE sys_kill
  BY <1>7, ReturnInv, RegisterValues DEF sys_kill, Dispatches, Simple
<1>8. CASE sys_write
  BY <1>1, <1>8, CheckedInv DEF sys_write, Dispatches
<1>9. CASE sys_ps
  BY <1>1, <1>9, CheckedInv DEF sys_ps, Dispatches
<1>10. CASE sys_read
  <2>1. CASE regs[current].r2 = 0
    BY <1>10, <2>1, ReturnInv, RegisterValues, CheckedInv, <1>1
    DEF sys_read, Dispatches, Simple
  <2>2. CASE regs[current].r2 # 0
    BY <1>1, <1>10, <2>2, CheckedInv DEF sys_read, Dispatches
  <2> QED
    BY <2>1, <2>2
<1> QED
  BY <1>2, <1>3, <1>4, <1>5, <1>6, <1>7, <1>8, <1>9, <1>10 DEF Handlers

\* A byte is moved only while there is room for it in what was checked.
LEMMA MoveInv ==
    ASSUME WindowInv, NEW byte, Move(byte), UNCHANGED <<current, pc, regs, buf>>,
           \/ pc[current] \in {"write", "read"} /\ n[current] < regs[current].r2
           \/ pc[current] = "ps" /\ n[current] + 1 < regs[current].r1
    PROVE  WindowInv'
<1>1. n' = [n EXCEPT ![current] = @ + 1]
  BY DEF Move
<1>2. BufferTypes'
  BY <1>1 DEF WindowInv, BufferTypes
<1>3. ASSUME NEW p \in Procs PROVE BufferKnown(p)'
  <2>1. regs[p].r1 \in Nat /\ regs[p].r2 \in Nat /\ n[p] \in Nat
    BY SyscallsAssumption, SMTT(30) DEF WindowInv, BufferTypes, Registers, Words
  <2>2. CASE p = current
    <3>1. n'[p] = n[p] + 1
      BY <1>1, <2>2 DEF WindowInv, BufferTypes
    <3> QED
      BY <2>1, <2>2, <3>1 DEF WindowInv, BufferKnown, InWindow
  <2>3. CASE p # current
    BY <1>1, <2>3 DEF WindowInv, BufferTypes, BufferKnown, InWindow
  <2> QED
    BY <2>2, <2>3
<1> QED
  BY <1>2, <1>3 DEF WindowInv

\* The end of a loop: the bytes moved are in the window.
LEMMA LoopEndsInv ==
    ASSUME WindowInv, LoopEnds, pc[current] \in {"write", "read", "ps"}
    PROVE  WindowInv'
<1>1. current \in Procs
  BY DEF WindowInv, BufferTypes
<1>2. /\ buf[current] \in Nat /\ n[current] \in Nat
      /\ regs[current].r1 \in Nat /\ regs[current].r2 \in Nat
      /\ regs[current].r1 < WORD /\ regs[current].r2 < WORD
  BY <1>1, SyscallsAssumption DEF WindowInv, BufferTypes, Registers, Words
<1>3. BufferKnown(current)
  BY <1>1 DEF WindowInv
<1>4. n[current] = 0 \/ InWindow(buf[current], n[current])
  BY <1>2, <1>3, Layout DEF BufferKnown, InWindow
<1>5. n[current] \in Words
  BY <1>2, <1>3, Layout DEF BufferKnown, Words
<1>6. /\ regs' = [regs EXCEPT ![current].r0 = n[current]]
      /\ pc' = [pc EXCEPT ![current] = "ret"]
      /\ UNCHANGED <<current, buf, n>>
  BY DEF LoopEnds, Return, Go, Moved
<1>7. BufferTypes'
  BY <1>5, <1>6 DEF WindowInv, BufferTypes, Registers, Points
<1>8. ASSUME NEW p \in Procs PROVE BufferKnown(p)'
  <2>1. CASE p = current
    BY <1>4, <1>6, <2>1 DEF WindowInv, BufferTypes, BufferKnown, InWindow
  <2>2. CASE p # current
    BY <1>6, <2>2 DEF WindowInv, BufferTypes, BufferKnown, InWindow
  <2> QED
    BY <2>1, <2>2
<1> QED
  BY <1>7, <1>8 DEF WindowInv

\* A switch of processes leaves every buffer as it is.
LEMMA SwitchInv ==
    ASSUME WindowInv, NEW st, Schedule(st), UNCHANGED <<pc, regs, buf, n>>
    PROVE  WindowInv'
<1>1. BufferTypes'
  BY ScheduleCurrent DEF WindowInv, BufferTypes
<1>2. \A p \in Procs : BufferKnown(p)'
  BY DEF WindowInv, BufferKnown, InWindow
<1> QED
  BY <1>1, <1>2 DEF WindowInv

\* The bodies and ends of the byte loops.
LEMMA LoopsInv ==
    ASSUME WindowInv, Loops
    PROVE  WindowInv'
<1>1. CASE WriteByte
  BY <1>1, MoveInv DEF WriteByte, InLoop, Moved
<1>2. CASE WriteDone
  BY <1>2, LoopEndsInv DEF WriteDone, InLoop
<1>3. CASE PsByte
  BY <1>3, MoveInv DEF PsByte, PsRoom, InLoop, Moved
<1>4. CASE PsDone
  BY <1>4, LoopEndsInv DEF PsDone, InLoop
<1>5. CASE ReadByte
  BY <1>5, MoveInv DEF ReadByte, InLoop, Moved
<1>6. CASE ReadDone
  BY <1>6, LoopEndsInv DEF ReadDone, InLoop
<1>7. CASE ReadBlock
  BY <1>7, SwitchInv DEF ReadBlock
<1> QED
  BY <1>1, <1>2, <1>3, <1>4, <1>5, <1>6, <1>7 DEF Loops

\* The way back to user mode forgets the buffer.
LEMMA ReturnToUserInv ==
    ASSUME WindowInv, ReturnToUser
    PROVE  WindowInv'
<1>1. current' \in Procs
  BY ScheduleCurrent DEF ReturnToUser, WindowInv, BufferTypes
<1>2. BufferTypes'
  BY <1>1, RegisterValues
  DEF ReturnToUser, Go, WindowInv, BufferTypes, Registers, NoRegs, Points
<1>3. \A p \in Procs : BufferKnown(p)'
  BY DEF ReturnToUser, Go, WindowInv, BufferTypes, BufferKnown, InWindow
<1> QED
  BY <1>2, <1>3 DEF WindowInv

\* The invariant is inductive.
LEMMA WindowNext == WindowInv /\ [Next]_vars => WindowInv'
<1> SUFFICES ASSUME WindowInv, [Next]_vars PROVE WindowInv'
  OBVIOUS
<1>1. CASE UserCall \/ UserBadCall
  BY <1>1, UserCallInv
<1>2. CASE Handlers
  BY <1>2, HandlersInv
<1>3. CASE Loops
  BY <1>3, LoopsInv
<1>4. CASE ReturnToUser
  BY <1>4, ReturnToUserInv
<1>5. CASE Preempt
  BY <1>5, SwitchInv DEF Preempt
<1>6. CASE RxIrq
  BY <1>6, SwitchInv DEF RxIrq
<1>7. CASE UNCHANGED vars
  BY <1>7 DEF vars, WindowInv, BufferTypes, BufferKnown, InWindow
<1> QED
  BY <1>1, <1>2, <1>3, <1>4, <1>5, <1>6, <1>7 DEF Next

\* What the handlers know of the buffers is so in every reachable state.
LEMMA WindowInvariance == Spec => []WindowInv
BY WindowInit, WindowNext, PTL DEF Spec

\* What the handlers know of the buffers keeps the bytes they moved in the window.
LEMMA WindowFollows == WindowInv => WindowRespected
<1> SUFFICES ASSUME WindowInv, NEW p \in Procs, NEW i \in 0 .. n[p] - 1
             PROVE  /\ (buf[p] + i) % WORD >= USER_VIRT_BASE
                    /\ (buf[p] + i) % WORD < USER_VIRT_BASE + USER_REGION_SIZE
  BY DEF WindowRespected
<1>1. /\ buf[p] \in Nat /\ n[p] \in Nat /\ i \in Nat /\ i < n[p]
      /\ regs[p].r1 \in Nat /\ regs[p].r2 \in Nat /\ pc[p] \in Points
  BY Layout DEF WindowInv, BufferTypes, Registers, Words
<1>2. BufferKnown(p)
  BY DEF WindowInv
<1>3. InWindow(buf[p], n[p])
  BY <1>1, <1>2, Layout DEF BufferKnown, InWindow, Points
<1>4. buf[p] \in Words /\ i \in Words /\ buf[p] + i < WORD
  BY <1>1, <1>3, Layout DEF InWindow, Words
<1>5. (buf[p] + i) % WORD = buf[p] + i
  BY <1>4, SumWraps
<1> QED
  BY <1>1, <1>3, <1>5, Layout DEF InWindow

\* Whatever pointers, lengths and numbers user code passes and however calls of
\* different processes interleave around a sleeping reader, sys_write, sys_read and
\* sys_ps only touch bytes of the user window.
THEOREM WindowSafety == Spec => []WindowRespected
BY WindowInvariance, WindowFollows, PTL

-----------------------------------------------------------------------------
(* The listing of sys_ps.                                                  *)

\* A nonempty set of numbers has a smallest one: induction, as proof by the smallest
\* counterexample.
LEMMA SmallestMember ==
    ASSUME NEW T, T \subseteq Nat, T # {}
    PROVE  \E x \in T : \A y \in T : x <= y
<1>1. PICK x \in T : \A y \in T : ~ (<<y, x>> \in OpToRel(<, Nat))
  BY WFMin, NatLessThanWellFounded
<1>2. ASSUME NEW y \in T PROVE x <= y
  <2>1. x \in Nat /\ y \in Nat
    OBVIOUS
  <2>2. ~(y < x)
    BY <1>1, <2>1 DEF OpToRel
  <2> QED
    BY <2>1, <2>2
<1> QED
  BY <1>2

\* A line of the listing is a sequence of characters.
LEMMA LineType ==
    ASSUME NEW st \in [Procs -> TaskStates], NEW p \in Procs
    PROVE  Line(st, p) \in Seq(Nat)
<1>1. Name[p] \in Seq(Nat) /\ StateName[st[p]] \in Seq(Nat)
  BY SyscallsAssumption
<1>2. <<48 + p, 32>> \in Seq(Nat) /\ <<32>> \in Seq(Nat) /\ <<10>> \in Seq(Nat)
  BY SyscallsAssumption DEF Procs
<1> QED
  BY <1>1, <1>2, ConcatProperties DEF Line

\* The listing after one more round of the loop of sys_ps.
Extended(st, text, p) == text \o Line(st, p)

\* ... is text, if it was before.
LEMMA ExtendedType ==
    ASSUME NEW st \in [Procs -> TaskStates], NEW p \in Procs, NEW text \in Seq(Nat)
    PROVE  Extended(st, text, p) \in Seq(Nat)
BY LineType, ConcatProperties DEF Extended

\* g holds the listings of the first 0, 1, ..., m processes.
Rows(st, m, g) ==
    /\ g \in [0 .. m -> Seq(Nat)]
    /\ g[0] = <<>>
    /\ \A k \in 1 .. m : g[k] = Extended(st, g[k - 1], k - 1)

\* There are such listings: the recursion of ListingOf has a solution.
LEMMA RowsExist ==
    ASSUME NEW st \in [Procs -> TaskStates]
    PROVE  \A m \in 0 .. NUM_PROCESSES : \E g : Rows(st, m, g)
<1> DEFINE T == {m \in Nat : m <= NUM_PROCESSES /\ ~ \E g : Rows(st, m, g)}
<1>0. NUM_PROCESSES \in Nat
  BY SyscallsAssumption
<1> SUFFICES ASSUME T # {} PROVE FALSE
  BY <1>0
<1>1. PICK x \in T : \A y \in T : x <= y
  BY SmallestMember
<1>2. x \in Nat /\ x <= NUM_PROCESSES /\ ~ \E g : Rows(st, x, g)
  BY <1>1
<1>3. CASE x = 0
  <2>1. Rows(st, 0, [k \in 0 .. 0 |-> <<>>])
    BY EmptySeq DEF Rows
  <2> QED
    BY <1>2, <1>3, <2>1
<1>4. CASE x # 0
  <2>1. x - 1 \in Nat /\ x - 1 <= NUM_PROCESSES /\ x - 1 \notin T
    BY <1>0, <1>1, <1>2, <1>4
  <2>2. PICK g : Rows(st, x - 1, g)
    BY <2>1
  <2>3. g[x - 1] \in Seq(Nat) /\ x - 1 \in Procs
    BY <1>0, <1>2, <2>1, <2>2 DEF Rows, Procs
  <2>4. Extended(st, g[x - 1], x - 1) \in Seq(Nat)
    BY <2>3, ExtendedType
  <2> DEFINE h == [k \in 0 .. x |-> IF k < x THEN g[k] ELSE Extended(st, g[x - 1], x - 1)]
  <2>5. Rows(st, x, h)
    <3>1. h \in [0 .. x -> Seq(Nat)]
      <4>1. ASSUME NEW k \in 0 .. x PROVE h[k] \in Seq(Nat)
        <5>1. CASE k < x
          BY <1>2, <2>2, <5>1 DEF Rows
        <5>2. CASE ~(k < x)
          BY <2>4, <5>2
        <5> QED
          BY <5>1, <5>2
      <4> QED
        BY <4>1
    <3>2. h[0] = <<>>
      BY <1>2, <1>4, <2>2 DEF Rows
    <3>3. ASSUME NEW k \in 1 .. x PROVE h[k] = Extended(st, h[k - 1], k - 1)
      <4>1. h[k - 1] = g[k - 1] /\ k - 1 \in 0 .. x
        BY <1>2
      <4>2. CASE k < x
        <5>1. g[k] = Extended(st, g[k - 1], k - 1) /\ h[k] = g[k]
          BY <1>2, <2>2, <4>2 DEF Rows
        <5> QED
          BY <4>1, <5>1
      <4>3. CASE k = x
        <5>1. h[k] = Extended(st, g[x - 1], x - 1)
          BY <1>2, <4>3
        <5> QED
          BY <4>1, <4>3, <5>1
      <4> QED
        BY <1>2, <4>2, <4>3
    <3> QED
      BY <3>1, <3>2, <3>3 DEF Rows
  <2> QED
    BY <1>2, <2>5
<1> QED
  BY <1>3, <1>4

\* The listing is a sequence of characters, however many processes it has.
LEMMA ListingType ==
    ASSUME NEW st \in [Procs -> TaskStates]
    PROVE  ListingOf(st) \in Seq(Nat)
<1> DEFINE Is(g) == g = [k \in 0 .. NUM_PROCESSES |->
                            IF k = 0 THEN <<>> ELSE Extended(st, g[k - 1], k - 1)]
           G == CHOOSE g : Is(g)
<1>0. NUM_PROCESSES \in Nat
  BY SyscallsAssumption
<1>1. PICK f : Rows(st, NUM_PROCESSES, f)
  BY <1>0, RowsExist
<1>2. Is(f)
  <2>1. f = [k \in 0 .. NUM_PROCESSES |-> f[k]]
    BY <1>1 DEF Rows
  <2>2. \A k \in 0 .. NUM_PROCESSES :
           f[k] = IF k = 0 THEN <<>> ELSE Extended(st, f[k - 1], k - 1)
    BY <1>0, <1>1 DEF Rows
  <2> QED
    BY <2>1, <2>2, Zenon
<1>3. Is(G)
  BY <1>2, Zenon
<1>4. ListingOf(st) = G[NUM_PROCESSES]
  BY DEF ListingOf, Extended
<1> HIDE DEF G
<1>5. \A k \in 0 .. NUM_PROCESSES :
           G[k] = IF k = 0 THEN <<>> ELSE Extended(st, G[k - 1], k - 1)
  BY <1>3, Zenon
<1> HIDE DEF Is
<1> DEFINE T == {k \in Nat : k <= NUM_PROCESSES /\ G[k] \notin Seq(Nat)}
<1>6. CASE T = {}
  BY <1>0, <1>4, <1>6
<1>7. CASE T # {}
  <2>1. PICK x \in T : \A y \in T : x <= y
    BY <1>7, SmallestMember
  <2>2. x \in Nat /\ x <= NUM_PROCESSES /\ G[x] \notin Seq(Nat)
    BY <2>1
  <2>3. x # 0
    <3>1. G[0] = <<>> /\ <<>> \in Seq(Nat)
      BY <1>0, <1>5, EmptySeq
    <3> QED
      BY <2>2, <3>1
  <2>4. x - 1 \in Nat /\ x - 1 \in Procs /\ x - 1 \notin T
    BY <1>0, <2>1, <2>2, <2>3 DEF Procs
  <2>5. G[x - 1] \in Seq(Nat)
    BY <1>0, <2>2, <2>4
  <2>6. G[x] = Extended(st, G[x - 1], x - 1)
    BY <1>0, <1>5, <2>2, <2>3
  <2> QED
    BY <2>2, <2>4, <2>5, <2>6, ExtendedType
<1> QED
  BY <1>6, <1>7

-----------------------------------------------------------------------------
(* Types.                                                                  *)

\* The registers as TypeOK has them.
CallRegisters == [r0 : Words, r1 : Words, r2 : Words, r7 : 0 .. NR_SYSCALLS]

\* No loop moves more bytes than a register can count.
LEMMA CountsFit == WindowInv => n \in [Procs -> Words]
<1> SUFFICES ASSUME WindowInv, NEW p \in Procs PROVE n[p] \in Words
  BY DEF WindowInv, BufferTypes
<1>1. /\ buf[p] \in Nat /\ n[p] \in Nat /\ pc[p] \in Points
      /\ regs[p].r1 \in Nat /\ regs[p].r2 \in Nat
      /\ regs[p].r1 < WORD /\ regs[p].r2 < WORD
  BY Layout DEF WindowInv, BufferTypes, Registers, Words
<1>2. BufferKnown(p)
  BY DEF WindowInv
<1> QED
  BY <1>1, <1>2, Layout, RegisterValues DEF BufferKnown, InWindow, Points, Words

\* schedule() leaves a table of states.
LEMMA ScheduleTypes ==
    ASSUME current \in Procs, NEW st \in [Procs -> TaskStates], Schedule(st)
    PROVE  current' \in Procs /\ state' \in [Procs -> TaskStates]
BY DEF Schedule, TaskStates

\* A wrapper traps with words in its registers.
LEMMA TrapTypes ==
    ASSUME TypeOK, NEW fn \in Wrappers \cup {"bad"}, NEW a \in Words, NEW b \in Words,
           NEW r \in CallRegisters, Trap(fn, a, b, r)
    PROVE  TypeOK'
BY DEF TypeOK, Trap, Points, CallRegisters

\* What each wrapper loads.
LEMMA StubTypes ==
    ASSUME NEW a \in Words, NEW b \in Words
    PROVE  /\ write_stub(a, b) \in CallRegisters /\ read_stub(a, b) \in CallRegisters
           /\ ps_stub(a, b) \in CallRegisters /\ kill_stub(a) \in CallRegisters
           /\ getpid_stub \in CallRegisters /\ ticks_stub \in CallRegisters
           /\ yield_stub \in CallRegisters /\ exit_stub \in CallRegisters
           /\ [NoRegs EXCEPT !.r7 = NR_SYSCALLS] \in CallRegisters
           /\ NoRegs \in CallRegisters
BY RegisterValues DEF write_stub, read_stub, ps_stub, kill_stub, getpid_stub, ticks_stub,
   yield_stub, exit_stub, Load, SYS, NoRegs, NR_SYSCALLS, CallRegisters

\* A handler that returns a word.
LEMMA ReturnTypes ==
    ASSUME TypeOK, NEW v \in Words, Return(v), state' \in [Procs -> TaskStates],
           UNCHANGED <<current, call, buf, n, data, blocked_reader, ring, received>>
    PROVE  TypeOK'
BY ZenonT(60) DEF TypeOK, Return, Go, Points

\* The check of a buffer.
LEMMA CheckedTypes ==
    ASSUME TypeOK, NEW ptr \in Words, NEW len \in Words,
           NEW loop \in {"write", "read", "ps"}, Checked(ptr, len, loop)
    PROVE  TypeOK'
<1>1. CASE valid_user_ptr(ptr, len)
  <2>1. /\ pc' = [pc EXCEPT ![current] = loop] /\ buf' = [buf EXCEPT ![current] = ptr]
        /\ UNCHANGED <<state, current, call, regs, n, data, blocked_reader, ring, received>>
    BY <1>1 DEF Checked, Go
  <2> QED
    BY <2>1 DEF TypeOK, Points
<1>2. CASE ~valid_user_ptr(ptr, len)
  <2>1. state' \in [Procs -> TaskStates]
    BY DEF Checked, TypeOK
  <2> QED
    BY <1>2, <2>1, ReturnTypes, RegisterValues DEF Checked
<1> QED
  BY <1>1, <1>2

\* A pid that passed the check of sys_kill is one of the table.
LEMMA HandlersTypes ==
    ASSUME TypeOK, Handlers
    PROVE  TypeOK'
<1> USE RegisterValues
<1>1. /\ regs[current].r0 \in Words /\ regs[current].r1 \in Words
      /\ regs[current].r2 \in Words /\ current \in Words
      /\ state \in [Procs -> TaskStates]
  BY DEF TypeOK
<1>2. CASE BadCall \/ sys_getpid \/ sys_yield \/ sys_ticks
  BY <1>1, <1>2, ReturnTypes DEF BadCall, sys_getpid, sys_yield, sys_ticks, Simple
<1>3. CASE sys_exit
  <2>1. state' \in [Procs -> TaskStates]
    BY <1>1, <1>3 DEF sys_exit, TaskStates
  <2> QED
    BY <1>3, <2>1, ReturnTypes DEF sys_exit, Simple
<1>4. CASE sys_kill
  <2>1. state' \in [Procs -> TaskStates]
    BY <1>1, <1>4 DEF sys_kill, TaskStates
  <2> QED
    BY <1>4, <2>1, ReturnTypes DEF sys_kill, Simple
<1>5. CASE sys_write
  BY <1>1, <1>5, CheckedTypes DEF sys_write
<1>6. CASE sys_ps
  BY <1>1, <1>6, CheckedTypes DEF sys_ps
<1>7. CASE sys_read
  BY <1>1, <1>7, CheckedTypes, ReturnTypes DEF sys_read, Simple
<1> QED
  BY <1>2, <1>3, <1>4, <1>5, <1>6, <1>7 DEF Handlers

\* A byte moved is a byte counted.
LEMMA MoveTypes ==
    ASSUME TypeOK, n' \in [Procs -> Words], NEW byte \in Nat, Move(byte),
           UNCHANGED <<state, current, pc, call, regs, buf, blocked_reader, received>>,
           ring' \in Seq(Nat), Len(ring') <= RX_CAPACITY
    PROVE  TypeOK'
<1>1. data' = [data EXCEPT ![current] = Append(data[current], byte)]
  BY DEF Move, TypeOK
<1>2. \A p \in Procs : data'[p] \in Seq(Nat) /\ Len(data'[p]) = n'[p]
  <2>1. n' = [n EXCEPT ![current] = n[current] + 1]
    BY DEF Move, TypeOK
  <2>2. Append(data[current], byte) \in Seq(Nat)
        /\ Len(Append(data[current], byte)) = n[current] + 1
    BY AppendProperties DEF TypeOK
  <2> QED
    BY <1>1, <2>1, <2>2 DEF TypeOK
<1>3. data' \in [Procs -> Seq(Nat)]
  BY <1>1, <1>2 DEF TypeOK
<1> QED
  BY <1>2, <1>3 DEF TypeOK

\* What the loops move are addresses, characters and received bytes.
LEMMA LoopsTypes ==
    ASSUME TypeOK, n \in [Procs -> Words], n' \in [Procs -> Words], Loops
    PROVE  TypeOK'
<1>1. CASE WriteByte
  <2>1. (buf[current] + Moved) % WORD \in Nat
    <3>1. buf[current] \in Words /\ Moved \in Words
      BY DEF TypeOK, Moved
    <3> QED
      BY <3>1, SumWraps, Layout DEF Words
  <2> QED
    BY <1>1, <2>1, MoveTypes DEF WriteByte, TypeOK
<1>2. CASE PsByte
  <2>1. Listing \in Seq(Nat) /\ Moved \in Nat /\ Moved < Len(Listing)
    BY <1>2, ListingType DEF PsByte, Listing, TypeOK, Moved, Words
  <2>2. Listing[Moved + 1] \in Nat
    BY <2>1, ElementOfSeq, LenProperties
  <2> QED
    BY <1>2, <2>2, MoveTypes DEF PsByte, TypeOK
<1>3. CASE ReadByte
  <2>1. /\ Head(ring) \in Nat /\ ring' \in Seq(Nat) /\ Len(ring') = Len(ring) - 1
        /\ Len(ring) \in Nat /\ RX_CAPACITY \in Nat /\ Len(ring) <= RX_CAPACITY
    BY <1>3, HeadTailProperties, LenProperties, SyscallsAssumption DEF ReadByte, TypeOK
  <2>2. Len(ring') <= RX_CAPACITY
    BY <2>1
  <2> QED
    BY <1>3, <2>1, <2>2, MoveTypes DEF ReadByte
<1>4. CASE WriteDone \/ PsDone \/ ReadDone
  <2>1. Moved \in Words /\ state \in [Procs -> TaskStates]
    BY DEF TypeOK, Moved
  <2> QED
    BY <1>4, <2>1, ReturnTypes DEF WriteDone, PsDone, ReadDone, LoopEnds
<1>5. CASE ReadBlock
  <2>1. [state EXCEPT ![current] = "BLOCKED"] \in [Procs -> TaskStates]
    BY DEF TypeOK, TaskStates
  <2>2. current' \in Procs /\ state' \in [Procs -> TaskStates]
    BY <1>5, <2>1, ScheduleTypes DEF ReadBlock, TypeOK
  <2> QED
    BY <1>5, <2>2 DEF ReadBlock, TypeOK
<1> QED
  BY <1>1, <1>2, <1>3, <1>4, <1>5 DEF Loops

\* The call is forgotten.
LEMMA ReturnToUserTypes ==
    ASSUME TypeOK, ReturnToUser
    PROVE  TypeOK'
<1>1. current' \in Procs /\ state' \in [Procs -> TaskStates]
  BY ScheduleTypes DEF ReturnToUser, TypeOK
<1>2. /\ 0 \in Words /\ NoCall \in [fn : Wrappers \cup {"none", "bad"}, a : Words, b : Words]
      /\ NoRegs \in CallRegisters
  BY RegisterValues, StubTypes DEF NoCall
<1>3. <<>> \in Seq(Nat) /\ Len(<<>>) = 0
  BY EmptySeq
<1>4. /\ n' = [n EXCEPT ![current] = 0] /\ data' = [data EXCEPT ![current] = <<>>]
  BY DEF ReturnToUser
<1>5. data' \in [Procs -> Seq(Nat)] /\ \A p \in Procs : Len(data'[p]) = n'[p]
  BY <1>3, <1>4 DEF TypeOK
<1> QED
  BY <1>1, <1>2, <1>5 DEF ReturnToUser, Go, TypeOK, Points, CallRegisters

\* A full ring drops the byte; a stale wait slot wakes nobody.
LEMMA RxIrqTypes ==
    ASSUME TypeOK, RxIrq
    PROVE  TypeOK'
<1>1. /\ received' \in 0 .. MAX_BYTES /\ received + 1 \in Nat
      /\ received' = received + 1
  BY SyscallsAssumption DEF RxIrq, TypeOK
<1>2. ring' \in Seq(Nat) /\ Len(ring') <= RX_CAPACITY
  <2>1. CASE Len(ring) < RX_CAPACITY
    <3>1. /\ ring' = Append(ring, received + 1) /\ Len(ring) \in Nat /\ RX_CAPACITY \in Nat
          /\ Append(ring, received + 1) \in Seq(Nat)
          /\ Len(Append(ring, received + 1)) = Len(ring) + 1
      BY <1>1, <2>1, AppendProperties, LenProperties, SyscallsAssumption DEF RxIrq, TypeOK
    <3> QED
      BY <2>1, <3>1
  <2>2. CASE ~(Len(ring) < RX_CAPACITY)
    BY <2>2 DEF RxIrq, TypeOK
  <2> QED
    BY <2>1, <2>2
<1>3. /\ [state EXCEPT ![blocked_reader] = "READY"] \in [Procs -> TaskStates]
      /\ state \in [Procs -> TaskStates]
  <2>1. state \in [Procs -> TaskStates] /\ "READY" \in TaskStates
    BY DEF TypeOK, TaskStates
  <2> QED
    BY <2>1
<1>4. current' \in Procs /\ state' \in [Procs -> TaskStates]
  <2>1. Schedule(state) \/ Schedule([state EXCEPT ![blocked_reader] = "READY"])
    BY DEF RxIrq
  <2>2. current \in Procs
    BY DEF TypeOK
  <2> QED
    BY <1>3, <2>1, <2>2, ScheduleTypes
<1>5. blocked_reader' \in Procs \cup {NULL}
  BY DEF RxIrq, TypeOK
<1> QED
  BY <1>1, <1>2, <1>4, <1>5 DEF RxIrq, TypeOK

\* Types are kept, given that the counts fit a word.
LEMMA TypeStep ==
    ASSUME TypeOK, n' \in [Procs -> Words], [Next]_vars
    PROVE  TypeOK'
<1>0. n \in [Procs -> Words]
  BY DEF TypeOK
<1>1. CASE UserCall \/ UserBadCall
  <2>1. 0 \in Words /\ Args \subseteq Words
    BY RegisterValues
  <2>2. ASSUME NEW ptr \in Args, NEW len \in Args,
               \/ Trap("write", ptr, len, write_stub(ptr, len))
               \/ Trap("read", ptr, len, read_stub(ptr, len))
               \/ Trap("ps", ptr, len, ps_stub(ptr, len))
        PROVE  TypeOK'
    BY <2>1, <2>2, StubTypes, TrapTypes DEF Wrappers
  <2>3. ASSUME NEW pid \in Args, Trap("kill", pid, 0, kill_stub(pid))
        PROVE  TypeOK'
    BY <2>1, <2>3, StubTypes, TrapTypes DEF Wrappers
  <2>4. CASE \/ Trap("getpid", 0, 0, getpid_stub) \/ Trap("ticks", 0, 0, ticks_stub)
             \/ Trap("yield", 0, 0, yield_stub) \/ Trap("exit", 0, 0, exit_stub)
    BY <2>1, <2>4, StubTypes, TrapTypes DEF Wrappers
  <2>5. CASE UserBadCall
    BY <2>1, <2>5, StubTypes, TrapTypes DEF UserBadCall
  <2> QED
    BY <1>1, <2>2, <2>3, <2>4, <2>5 DEF UserCall
<1>2. CASE Handlers
  BY <1>2, HandlersTypes
<1>3. CASE Loops
  BY <1>0, <1>3, LoopsTypes
<1>4. CASE ReturnToUser
  BY <1>4, ReturnToUserTypes
<1>5. CASE Preempt
  <2>1. current' \in Procs /\ state' \in [Procs -> TaskStates]
    BY <1>5, ScheduleTypes DEF Preempt, TypeOK
  <2> QED
    BY <1>5, <2>1 DEF Preempt, TypeOK
<1>6. CASE RxIrq
  BY <1>6, RxIrqTypes
<1>7. CASE UNCHANGED vars
  BY <1>7 DEF vars, TypeOK
<1> QED
  BY <1>1, <1>2, <1>3, <1>4, <1>5, <1>6, <1>7 DEF Next

\* Types at the start.
LEMMA TypeInit == Init => TypeOK
<1> SUFFICES ASSUME Init PROVE TypeOK
  OBVIOUS
<1>1. /\ 0 \in Words /\ 0 \in Procs /\ NoRegs \in CallRegisters
      /\ RX_CAPACITY \in Nat /\ MAX_BYTES \in Nat
  BY RegisterValues, StubTypes, SyscallsAssumption, SMTT(30) DEF Procs
<1>2. <<>> \in Seq(Nat) /\ Len(<<>>) = 0
  BY EmptySeq
<1> QED
  BY <1>1, <1>2 DEF Init, TypeOK, TaskStates, Points, NoCall, CallRegisters

\* Every variable keeps its type for every table, window and set of arguments: no
\* pid reaches beyond processes[], no count beyond a word, no byte beyond the ring.
THEOREM TypeCorrectness == Spec => []TypeOK
<1>1. WindowInv' => (n \in [Procs -> Words])'
  BY CountsFit, PTL
<1>2. WindowInv' /\ TypeOK /\ [Next]_vars => TypeOK'
  BY <1>1, TypeStep
<1> QED
  BY <1>2, TypeInit, WindowInvariance, PTL DEF Spec

-----------------------------------------------------------------------------
(* What a call has done so far.                                            *)

\* The registers r are the ones the wrapper of call c loads.
Asks(c, r) ==
    \/ c.fn = "write" /\ r = write_stub(c.a, c.b)
    \/ c.fn = "read" /\ r = read_stub(c.a, c.b)
    \/ c.fn = "ps" /\ r = ps_stub(c.a, c.b)
    \/ c.fn = "kill" /\ r = kill_stub(c.a)
    \/ c.fn = "getpid" /\ r = getpid_stub
    \/ c.fn = "ticks" /\ r = ticks_stub
    \/ c.fn = "yield" /\ r = yield_stub
    \/ c.fn = "exit" /\ r = exit_stub
    \/ c.fn = "bad" /\ r = [NoRegs EXCEPT !.r7 = NR_SYSCALLS]

\* The loop of fn works on the buffer that the caller passed, which is good.
Works(p, fn) ==
    /\ call[p].fn = fn /\ buf[p] = call[p].a
    /\ InWindow(call[p].a, call[p].b)

\* What the kernel has done of p's call when it is at pc[p].
Progress(p) ==
    /\ pc[p] = "svc" => Asks(call[p], regs[p])
    /\ pc[p] = "write" => /\ Works(p, "write") /\ regs[p].r2 = call[p].b
                          /\ data[p] = [i \in 1 .. n[p] |-> call[p].a + i - 1]
    /\ pc[p] = "read" => /\ Works(p, "read") /\ regs[p].r2 = call[p].b
                         /\ call[p].b # 0
    /\ pc[p] = "ps" => /\ Works(p, "ps") /\ regs[p].r1 = call[p].b
                       /\ n[p] <= Len(Listing)
                       /\ data[p] = SubSeq(Listing, 1, n[p])
    /\ pc[p] = "ret" => Promise(p)

\* A process without the CPU is in user mode or at the head of sys_read's loop,
\* and has received nothing yet.
Suspended == \A p \in Procs : p # current => pc[p] \in {"user", "read"} /\ n[p] = 0

\* Bytes wait in the order of arrival, behind those that a reader has taken.
Arrivals ==
    /\ Increasing(ring)
    /\ \A i \in 1 .. Len(ring) : ring[i] <= received
    /\ pc[current] = "read" => Increasing(data[current] \o ring)

CallInv == TypeOK /\ Suspended /\ Arrivals /\ \A p \in Procs : Progress(p)

\* What concerns process p is as it was.
Same(p) ==
    /\ pc'[p] = pc[p] /\ call'[p] = call[p] /\ regs'[p] = regs[p]
    /\ buf'[p] = buf[p] /\ n'[p] = n[p]

OthersSame == \A p \in Procs : p # current => Same(p)

\* Nothing counted, nothing moved.
LEMMA NoBytes ==
    ASSUME TypeOK, NEW p \in Procs, n[p] = 0
    PROVE  data[p] = <<>>
<1>1. data[p] \in Seq(Nat) /\ Len(data[p]) = 0
  BY DEF TypeOK
<1> QED
  BY <1>1, EmptySeq

\* A step of one process leaves the calls of the others where they are.
LEMMA OthersProgress ==
    ASSUME Suspended, NEW p \in Procs, Progress(p), p # current, Same(p)
    PROVE  Progress(p)'
BY DEF Suspended, Progress, Same, Works, InWindow

\* A step of the process on the CPU that keeps the CPU.
LEMMA OwnStep ==
    ASSUME CallInv, TypeOK', current' = current, OthersSame, Arrivals',
           \A p \in Procs : p = current => Progress(p)'
    PROVE  CallInv'
<1>1. Suspended'
  BY DEF CallInv, Suspended, OthersSame, Same
<1>2. ASSUME NEW p \in Procs PROVE Progress(p)'
  BY OthersProgress DEF CallInv, OthersSame
<1> QED
  BY <1>1, <1>2 DEF CallInv

\* Arrivals are not disturbed where no byte moves and no loop is entered.
LEMMA RingKept ==
    ASSUME CallInv, ring' = ring, received' = received, current' = current,
           pc'[current] # "read"
    PROVE  Arrivals'
BY DEF CallInv, Arrivals, Increasing

\* A step after which every process is in user mode or about to look at the ring.
LEMMA SwitchStep ==
    ASSUME TypeOK', Increasing(ring'), \A i \in 1 .. Len(ring') : ring'[i] <= received',
           \A p \in Procs : pc'[p] \in {"user", "read"} /\ n'[p] = 0 /\ Progress(p)'
    PROVE  CallInv'
<1>1. Suspended'
  BY DEF Suspended
<1>2. Arrivals'
  <2>1. current' \in Procs /\ ring' \in Seq(Nat)
    BY DEF TypeOK
  <2>2. data'[current'] = <<>>
    <3>1. data'[current'] \in Seq(Nat) /\ Len(data'[current']) = 0
      BY <2>1 DEF TypeOK
    <3> QED
      BY <3>1, EmptySeq
  <2>3. data'[current'] \o ring' = ring'
    BY <2>1, <2>2, ConcatEmptySeq
  <2> QED
    BY <2>3 DEF Arrivals
<1> QED
  BY <1>1, <1>2 DEF CallInv

\* Every process is idle: ready for SwitchStep.
LEMMA Idle ==
    ASSUME CallInv, WindowInv, pc[current] = "user" \/ (pc[current] = "read" /\ n[current] = 0),
           NEW p \in Procs
    PROVE  pc[p] \in {"user", "read"} /\ n[p] = 0
<1>1. BufferKnown(p)
  BY DEF WindowInv
<1> QED
  BY <1>1 DEF CallInv, Suspended, BufferKnown

-----------------------------------------------------------------------------
(* Calls and their registers.                                              *)

\* The registers of a wrapper are what its call asks for.
LEMMA TrapExact ==
    ASSUME CallInv, TypeOK', NEW fn, NEW a, NEW b, NEW r, Trap(fn, a, b, r),
           Asks([fn |-> fn, a |-> a, b |-> b], r)
    PROVE  CallInv'
<1>1. /\ pc' = [pc EXCEPT ![current] = "svc"]
      /\ call' = [call EXCEPT ![current] = [fn |-> fn, a |-> a, b |-> b]]
      /\ regs' = [regs EXCEPT ![current] = r]
      /\ UNCHANGED <<current, buf, n, ring, received>>
  BY DEF Trap
<1>2. OthersSame /\ current \in Procs /\ pc'[current] = "svc"
  BY <1>1 DEF CallInv, TypeOK, OthersSame, Same
<1>3. Arrivals'
  BY <1>1, <1>2, RingKept
<1>4. ASSUME NEW p \in Procs, p = current PROVE Progress(p)'
  <2>1. pc'[p] = "svc" /\ call'[p] = [fn |-> fn, a |-> a, b |-> b] /\ regs'[p] = r
    BY <1>1, <1>4 DEF CallInv, TypeOK
  <2>2. Asks(call'[p], regs'[p])
    BY <2>1
  <2> QED
    BY <2>1, <2>2 DEF Progress
<1> QED
  BY <1>1, <1>2, <1>3, <1>4, OwnStep

\* Every wrapper loads the registers its call asks for.
LEMMA UserCallExact ==
    ASSUME CallInv, TypeOK', UserCall \/ UserBadCall
    PROVE  CallInv'
<1>1. ASSUME NEW ptr \in Args, NEW len \in Args,
             \/ Trap("write", ptr, len, write_stub(ptr, len))
             \/ Trap("read", ptr, len, read_stub(ptr, len))
             \/ Trap("ps", ptr, len, ps_stub(ptr, len))
      PROVE  CallInv'
  <2>1. /\ Asks([fn |-> "write", a |-> ptr, b |-> len], write_stub(ptr, len))
        /\ Asks([fn |-> "read", a |-> ptr, b |-> len], read_stub(ptr, len))
        /\ Asks([fn |-> "ps", a |-> ptr, b |-> len], ps_stub(ptr, len))
    BY DEF Asks
  <2> QED
    BY <1>1, <2>1, TrapExact
<1>2. ASSUME NEW pid \in Args, Trap("kill", pid, 0, kill_stub(pid))
      PROVE  CallInv'
  <2>1. Asks([fn |-> "kill", a |-> pid, b |-> 0], kill_stub(pid))
    BY DEF Asks
  <2> QED
    BY <1>2, <2>1, TrapExact
<1>3. CASE \/ Trap("getpid", 0, 0, getpid_stub) \/ Trap("ticks", 0, 0, ticks_stub)
           \/ Trap("yield", 0, 0, yield_stub) \/ Trap("exit", 0, 0, exit_stub)
  <2>1. /\ Asks([fn |-> "getpid", a |-> 0, b |-> 0], getpid_stub)
        /\ Asks([fn |-> "ticks", a |-> 0, b |-> 0], ticks_stub)
        /\ Asks([fn |-> "yield", a |-> 0, b |-> 0], yield_stub)
        /\ Asks([fn |-> "exit", a |-> 0, b |-> 0], exit_stub)
    BY DEF Asks
  <2> QED
    BY <1>3, <2>1, TrapExact
<1>4. CASE UserBadCall
  <2>1. Asks([fn |-> "bad", a |-> 0, b |-> 0], [NoRegs EXCEPT !.r7 = NR_SYSCALLS])
    BY DEF Asks
  <2> QED
    BY <1>4, <2>1, TrapExact DEF UserBadCall
<1> QED
  BY <1>1, <1>2, <1>3, <1>4 DEF UserCall

\* syscall_dispatch calls the handler of the wrapper the caller used: the numbers
\* of user/libc/syscall.h and the kernel's table agree.
LEMMA DispatchesCaller ==
    ASSUME NEW c, Asks(c, regs[current])
    PROVE  /\ \A fn \in Wrappers : Dispatches(fn) => c.fn = fn
           /\ regs[current].r7 >= NR_SYSCALLS => c.fn = "bad"
<1>1. \/ c.fn = "bad" /\ regs[current].r7 = NR_SYSCALLS
      \/ c.fn \in Wrappers /\ regs[current].r7 = SYS[c.fn]
  BY DEF Asks, write_stub, read_stub, ps_stub, kill_stub, getpid_stub, ticks_stub,
     yield_stub, exit_stub, Load, NoRegs, Wrappers
<1>2. \A fn \in Wrappers : /\ SYS[fn] \in Nat /\ SYS[fn] < NR_SYSCALLS
                           /\ syscall_table[SYS[fn] + 1] = fn
  BY DEF SYS, Wrappers, syscall_table, NR_SYSCALLS
<1>3. NR_SYSCALLS \in Nat
  BY DEF NR_SYSCALLS
<1> QED
  BY <1>1, <1>2, <1>3 DEF Dispatches

\* A handler that returns at once.
LEMMA ReturnExact ==
    ASSUME CallInv, TypeOK', NEW v \in Words, Return(v),
           UNCHANGED <<current, call, buf, n, data, ring, received>>,
           Promise(current)'
    PROVE  CallInv'
<1>1. /\ pc' = [pc EXCEPT ![current] = "ret"]
      /\ regs' = [regs EXCEPT ![current].r0 = v]
  BY DEF Return, Go
<1>2. OthersSame /\ current \in Procs /\ pc'[current] = "ret"
  BY <1>1 DEF CallInv, TypeOK, OthersSame, Same
<1>3. Arrivals'
  BY <1>1, <1>2, RingKept
<1>4. ASSUME NEW p \in Procs, p = current PROVE Progress(p)'
  <2>1. Promise(p)' /\ pc'[p] = "ret"
    BY <1>2, <1>4
  <2> QED
    BY <2>1 DEF Progress
<1> QED
  BY <1>2, <1>3, <1>4, OwnStep

-----------------------------------------------------------------------------
(* The handlers.                                                           *)

\* At dispatch nothing has been moved.
LEMMA AtDispatch ==
    ASSUME CallInv, WindowInv, pc[current] = "svc"
    PROVE  /\ current \in Procs /\ Asks(call[current], regs[current])
           /\ n[current] = 0 /\ data[current] = <<>>
           /\ call[current].a \in Words /\ call[current].b \in Words
<1>1. current \in Procs
  BY DEF CallInv, TypeOK
<1>2. BufferKnown(current) /\ Progress(current)
  BY <1>1 DEF CallInv, WindowInv
<1>3. n[current] = 0
  BY <1>2 DEF BufferKnown
<1> QED
  BY <1>1, <1>2, <1>3, NoBytes DEF CallInv, Progress, TypeOK

\* The registers after a return.
LEMMA Returned ==
    ASSUME TypeOK, NEW v, Return(v)
    PROVE  regs'[current].r0 = v
BY DEF TypeOK, Return

\* The calls without a buffer.
LEMMA SimpleExact ==
    ASSUME CallInv, WindowInv, TypeOK',
           BadCall \/ sys_getpid \/ sys_yield \/ sys_ticks \/ sys_exit \/ sys_kill
    PROVE  CallInv'
<1>0. pc[current] = "svc" /\ TypeOK /\ Simple
  BY DEF BadCall, sys_getpid, sys_yield, sys_ticks, sys_exit, sys_kill, Dispatches, CallInv
<1>1. /\ current \in Procs /\ Asks(call[current], regs[current])
      /\ call[current].a \in Words
  BY <1>0, AtDispatch
<1>2. current' = current /\ call' = call
  BY <1>0 DEF Simple
<1>3. \A v \in Words : Return(v) /\ Promise(current)' => CallInv'
  BY <1>0, ReturnExact DEF Simple
<1>4. current \in Words /\ 0 \in Words /\ E_BADCALL \in Words /\ Args \subseteq Words
  BY <1>1, RegisterValues
<1>5. CASE BadCall
  <2>1. call[current].fn = "bad" /\ Return(E_BADCALL)
    BY <1>1, <1>5, DispatchesCaller DEF BadCall
  <2>2. Promise(current)'
    BY <1>0, <1>2, <2>1, Returned DEF Promise
  <2> QED
    BY <1>3, <1>4, <2>1, <2>2
<1>6. CASE sys_getpid
  <2>1. call[current].fn = "getpid" /\ Return(current)
    BY <1>1, <1>6, DispatchesCaller DEF sys_getpid, Wrappers
  <2>2. Promise(current)'
    BY <1>0, <1>2, <2>1, Returned DEF Promise
  <2> QED
    BY <1>3, <1>4, <2>1, <2>2
<1>7. CASE sys_yield \/ sys_ticks \/ sys_exit
  <2>1. /\ call[current].fn \in {"yield", "ticks", "exit"}
        /\ \E v \in Words : Return(v)
    BY <1>1, <1>4, <1>7, DispatchesCaller DEF sys_yield, sys_ticks, sys_exit, Wrappers
  <2>2. Promise(current)'
    BY <1>2, <2>1 DEF Promise
  <2> QED
    BY <1>3, <2>1, <2>2
<1>8. CASE sys_kill
  <2>1. call[current].fn = "kill" /\ regs[current].r0 = call[current].a
    <3>1. call[current].fn = "kill"
      BY <1>1, <1>8, DispatchesCaller DEF sys_kill, Wrappers
    <3> QED
      BY <1>1, <3>1 DEF Asks, kill_stub, Load
  <2> DEFINE pid == call[current].a
  <2>2. pid \in Nat /\ NUM_PROCESSES \in Nat
    BY <1>1, SyscallsAssumption DEF Words
  <2>3. pid \in Procs <=> pid < NUM_PROCESSES
    BY <2>2 DEF Procs
  <2>4. CASE pid < NUM_PROCESSES
    <3>1. Return(0) /\ state' = [state EXCEPT ![pid] = "DEAD"]
      BY <1>8, <2>1, <2>2, <2>4 DEF sys_kill
    <3>2. state'[pid] = "DEAD"
      BY <1>0, <2>3, <2>4, <3>1 DEF TypeOK
    <3>3. Promise(current)'
      BY <1>0, <1>2, <2>1, <2>3, <2>4, <3>1, <3>2, Returned DEF Promise
    <3> QED
      BY <1>3, <1>4, <3>1, <3>3
  <2>5. CASE ~(pid < NUM_PROCESSES)
    <3>1. Return(E_BADCALL)
      BY <1>8, <2>1, <2>2, <2>5 DEF sys_kill
    <3>2. Promise(current)'
      BY <1>0, <1>2, <2>1, <2>3, <2>5, <3>1, Returned DEF Promise
    <3> QED
      BY <1>3, <1>4, <3>1, <3>2
  <2> QED
    BY <2>4, <2>5
<1> QED
  BY <1>5, <1>6, <1>7, <1>8

\* The entry of a loop, or the fault.
LEMMA CheckedExact ==
    ASSUME CallInv, WindowInv, TypeOK', pc[current] = "svc",
           NEW loop \in {"write", "read", "ps"},
           Checked(call[current].a, call[current].b, loop),
           call[current].fn = loop,
           loop = "ps" => regs[current].r1 = call[current].b,
           loop # "ps" => regs[current].r2 = call[current].b,
           loop = "read" => call[current].b # 0
    PROVE  CallInv'
<1> DEFINE a == call[current].a
           b == call[current].b
<1>0. TypeOK
  BY DEF CallInv
<1>1. /\ current \in Procs /\ n[current] = 0 /\ data[current] = <<>>
      /\ a \in Words /\ b \in Words
  BY AtDispatch
<1>2. UNCHANGED <<state, current, call, n, data, ring, received>>
  BY DEF Checked
<1>3. CASE ~valid_user_ptr(a, b)
  <2>1. ~InWindow(a, b)
    BY <1>1, <1>3, ValidatorExact
  <2>2. Return(E_FAULT) /\ UNCHANGED buf
    BY <1>3 DEF Checked
  <2>3. regs'[current].r0 = E_FAULT
    BY <1>0, <2>2, Returned
  <2>4. Promise(current)'
    BY <1>1, <1>2, <2>1, <2>3 DEF Promise, InWindow
  <2> QED
    BY <1>2, <2>2, <2>4, ReturnExact, RegisterValues
<1>4. CASE valid_user_ptr(a, b)
  <2>1. InWindow(a, b)
    BY <1>1, <1>4, ValidatorExact
  <2>2. /\ pc' = [pc EXCEPT ![current] = loop] /\ buf' = [buf EXCEPT ![current] = a]
        /\ UNCHANGED regs
    BY <1>4 DEF Checked, Go
  <2>3. OthersSame /\ pc'[current] = loop /\ buf'[current] = a
    BY <1>0, <1>1, <1>2, <2>2 DEF TypeOK, OthersSame, Same
  <2>4. Arrivals'
    <3>1. ring \in Seq(Nat)
      BY <1>0 DEF TypeOK
    <3>2. data'[current'] \o ring' = ring
      BY <1>1, <1>2, <3>1, ConcatEmptySeq
    <3> QED
      BY <1>2, <3>2 DEF CallInv, Arrivals, Increasing
  <2>5. ASSUME NEW p \in Procs, p = current PROVE Progress(p)'
    <3>1. /\ pc'[p] = loop /\ call'[p].fn = loop /\ buf'[p] = call'[p].a
          /\ n'[p] = 0 /\ data'[p] = <<>>
          /\ InWindow(call'[p].a, call'[p].b) /\ regs'[p] = regs[p] /\ call'[p] = call[p]
      BY <1>1, <1>2, <2>1, <2>2, <2>3, <2>5
    <3>2. Works(p, loop)'
      BY <3>1 DEF Works, InWindow
    <3>3. <<>> = [i \in 1 .. 0 |-> call'[p].a + i - 1]
      OBVIOUS
    <3>4. Listing' \in Seq(Nat) /\ SubSeq(Listing', 1, 0) = <<>> /\ 0 <= Len(Listing')
      <4>1. Listing' \in Seq(Nat)
        BY ListingType DEF Listing, TypeOK
      <4> QED
        BY <4>1, SubSeqEmpty, LenProperties
    <3> QED
      BY <2>5, <3>1, <3>2, <3>3, <3>4 DEF Progress
  <2> QED
    BY <1>2, <2>3, <2>4, <2>5, OwnStep
<1> QED
  BY <1>3, <1>4

\* The heads of the handlers.
LEMMA HandlersExact ==
    ASSUME CallInv, WindowInv, TypeOK', Handlers
    PROVE  CallInv'
<1>1. CASE sys_write
  <2>1. pc[current] = "svc" /\ Dispatches("write")
    BY <1>1 DEF sys_write, Dispatches
  <2>2. Asks(call[current], regs[current])
    BY <2>1, AtDispatch
  <2>3. call[current].fn = "write"
    BY <2>1, <2>2, DispatchesCaller DEF Wrappers
  <2>4. regs[current].r1 = call[current].a /\ regs[current].r2 = call[current].b
    BY <2>2, <2>3 DEF Asks, write_stub, Load
  <2> QED
    BY <1>1, <2>1, <2>3, <2>4, CheckedExact DEF sys_write
<1>2. CASE sys_ps
  <2>1. pc[current] = "svc" /\ Dispatches("ps")
    BY <1>2 DEF sys_ps, Dispatches
  <2>2. Asks(call[current], regs[current])
    BY <2>1, AtDispatch
  <2>3. call[current].fn = "ps"
    BY <2>1, <2>2, DispatchesCaller DEF Wrappers
  <2>4. regs[current].r0 = call[current].a /\ regs[current].r1 = call[current].b
    BY <2>2, <2>3 DEF Asks, ps_stub, Load
  <2> QED
    BY <1>2, <2>1, <2>3, <2>4, CheckedExact DEF sys_ps
<1>3. CASE sys_read
  <2>1. pc[current] = "svc" /\ Dispatches("read")
    BY <1>3 DEF sys_read, Dispatches
  <2>2. Asks(call[current], regs[current]) /\ data[current] = <<>>
    BY <2>1, AtDispatch
  <2>3. call[current].fn = "read"
    BY <2>1, <2>2, DispatchesCaller DEF Wrappers
  <2>4. regs[current].r1 = call[current].a /\ regs[current].r2 = call[current].b
    BY <2>2, <2>3 DEF Asks, read_stub, Load
  <2>5. CASE regs[current].r2 # 0
    BY <1>3, <2>1, <2>3, <2>4, <2>5, CheckedExact DEF sys_read
  <2>6. CASE regs[current].r2 = 0
    <3>1. Return(0) /\ Simple
      BY <1>3, <2>6 DEF sys_read
    <3>2. regs'[current].r0 = 0
      BY <3>1, Returned DEF CallInv
    <3>3. Promise(current)'
      BY <2>2, <2>3, <2>4, <2>6, <3>1, <3>2 DEF Promise, Simple
    <3> QED
      BY <3>1, <3>3, ReturnExact, RegisterValues DEF Simple
  <2> QED
    BY <2>5, <2>6
<1> QED
  BY <1>1, <1>2, <1>3, SimpleExact DEF Handlers

-----------------------------------------------------------------------------
(* The loops.                                                              *)

\* Moving the head of t to the end of s leaves the concatenation as it is.
LEMMA MoveHead ==
    ASSUME NEW s \in Seq(Nat), NEW t \in Seq(Nat), t # <<>>
    PROVE  Append(s, Head(t)) \o Tail(t) = s \o t
<1>1. /\ Head(t) \in Nat /\ Tail(t) \in Seq(Nat) /\ <<Head(t)>> \in Seq(Nat)
      /\ t = <<Head(t)>> \o Tail(t)
  <2>1. /\ Head(t) \in Nat /\ Tail(t) \in Seq(Nat) /\ Len(Tail(t)) = Len(t) - 1
        /\ \A i \in 1 .. Len(Tail(t)) : Tail(t)[i] = t[i + 1]
        /\ Len(t) \in Nat \ {0} /\ Head(t) = t[1]
    BY HeadTailProperties, EmptySeq
  <2>2. <<Head(t)>> \in Seq(Nat) /\ Len(<<Head(t)>>) = 1 /\ <<Head(t)>>[1] = Head(t)
    BY <2>1
  <2> DEFINE u == <<Head(t)>>
             v == Tail(t)
             w == u \o v
  <2>3. /\ w \in Seq(Nat) /\ Len(w) = 1 + Len(v)
        /\ \A i \in 1 .. 1 + Len(v) : w[i] = IF i <= 1 THEN u[i] ELSE v[i - 1]
    BY <2>1, <2>2, ConcatProperties
  <2> HIDE DEF u, v, w
  <2>4. Len(w) = Len(t)
    BY <2>1, <2>3 DEF v
  <2>5. ASSUME NEW i \in 1 .. Len(w) PROVE w[i] = t[i]
    <3>1. CASE i = 1
      BY <2>1, <2>2, <2>3, <2>4, <3>1 DEF u
    <3>2. CASE i > 1
      BY <2>1, <2>3, <2>4, <3>2 DEF v
    <3> QED
      BY <2>1, <2>4, <3>1, <3>2
  <2>6. w = t
    BY <2>3, <2>4, <2>5, SeqEqual
  <2> QED
    BY <2>1, <2>2, <2>6 DEF u, v, w
<1>2. Append(s, Head(t)) = s \o <<Head(t)>>
  BY <1>1, AppendIsConcat
<1>3. (s \o <<Head(t)>>) \o Tail(t) = s \o (<<Head(t)>> \o Tail(t))
  BY <1>1, ConcatAssociative, SMTT(30)
<1> QED
  BY <1>1, <1>2, <1>3, Zenon

\* Types of what concerns the process on the CPU.
LEMMA OwnTypes ==
    ASSUME TypeOK
    PROVE  /\ current \in Procs /\ n[current] \in Words /\ n[current] \in Nat
           /\ call[current].a \in Words /\ call[current].a \in Nat
           /\ call[current].b \in Words /\ call[current].b \in Nat
           /\ data[current] \in Seq(Nat) /\ Len(data[current]) = n[current]
           /\ ring \in Seq(Nat) /\ received \in Nat
           /\ Listing \in Seq(Nat) /\ Len(Listing) \in Nat
<1>1. \A w \in Words : w \in Nat
  BY Layout DEF Words
<1>2. /\ current \in Procs /\ n[current] \in Words
      /\ call[current].a \in Words /\ call[current].b \in Words
      /\ data[current] \in Seq(Nat) /\ Len(data[current]) = n[current]
      /\ ring \in Seq(Nat) /\ state \in [Procs -> TaskStates]
  BY DEF TypeOK
<1>3. received \in Nat
  BY SyscallsAssumption DEF TypeOK
<1>4. Listing \in Seq(Nat) /\ Len(Listing) \in Nat
  BY <1>2, ListingType, LenProperties DEF Listing
<1> QED
  BY <1>1, <1>2, <1>3, <1>4

\* A byte moved: the others are as they were.
LEMMA MovedBytes ==
    ASSUME TypeOK, NEW byte, Move(byte), UNCHANGED <<current, pc, call, regs, buf>>
    PROVE  /\ OthersSame /\ n'[current] = n[current] + 1
           /\ data'[current] = Append(data[current], byte)
BY DEF TypeOK, Move, OthersSame, Same

\* sys_write sends the bytes of the buffer in order; no address wraps.
LEMMA WriteByteExact ==
    ASSUME CallInv, WindowInv, TypeOK', WriteByte
    PROVE  CallInv'
<1>0. TypeOK /\ current \in Procs /\ pc[current] = "write" /\ pc' = pc
  BY DEF CallInv, TypeOK, WriteByte, InLoop
<1> DEFINE a == call[current].a
           k == n[current]
           byte == (buf[current] + Moved) % WORD
<1>1. /\ OthersSame /\ n'[current] = k + 1
      /\ data'[current] = Append(data[current], byte)
  BY <1>0, MovedBytes DEF WriteByte
<1>2. /\ Works(current, "write") /\ regs[current].r2 = call[current].b
      /\ data[current] = [i \in 1 .. k |-> a + i - 1]
  BY <1>0 DEF CallInv, Progress
<1>3. /\ k \in Nat /\ a \in Nat /\ a \in Words /\ k < call[current].b
      /\ call[current].b \in Nat /\ k \in Words
  BY <1>0, <1>2, OwnTypes DEF WriteByte, Moved
<1>4. byte = a + k
  <2>1. a + k < WORD /\ buf[current] = a
    BY <1>2, <1>3, Layout DEF Works, InWindow
  <2> QED
    BY <1>3, <2>1, SumWraps DEF Moved
<1> HIDE DEF byte, a, k
<1>5. data'[current] = [i \in 1 .. k + 1 |-> a + i - 1]
  <2> DEFINE s == data[current]
             t == [i \in 1 .. k + 1 |-> a + i - 1]
  <2>1. s \in Seq(Nat) /\ Len(s) = k
    BY <1>0 DEF TypeOK, k
  <2>2. t \in Seq(Nat) /\ Len(t) = k + 1
    BY <1>3, SMTT(30)
  <2>3. byte \in Nat
    BY <1>3, <1>4
  <2>4. /\ Append(s, byte) \in Seq(Nat) /\ Len(Append(s, byte)) = k + 1
        /\ \A i \in 1 .. k : Append(s, byte)[i] = s[i]
        /\ Append(s, byte)[k + 1] = byte
    BY <2>1, <2>3, AppendProperties
  <2>5. ASSUME NEW i \in 1 .. k + 1 PROVE Append(s, byte)[i] = t[i]
    <3>1. CASE i \in 1 .. k
      BY <1>2, <2>4, <3>1
    <3>2. CASE i = k + 1
      BY <1>3, <1>4, <2>4, <3>2
    <3>3. i \in 1 .. k \/ i = k + 1
      BY <1>3
    <3> QED
      BY <3>1, <3>2, <3>3
  <2> HIDE DEF s, t
  <2>6. Append(s, byte) = t
    BY <2>2, <2>4, <2>5, SeqEqual
  <2> QED
    BY <1>1, <2>6 DEF s, t
<1>6. UNCHANGED <<state, current, pc, call, regs, buf, ring, received>>
  BY DEF WriteByte
<1>7. Arrivals'
  BY <1>0, <1>6, RingKept
<1>8. ASSUME NEW p \in Procs, p = current PROVE Progress(p)'
  BY <1>0, <1>1, <1>2, <1>5, <1>6, <1>8 DEF Progress, Works, InWindow, a
<1> QED
  BY <1>1, <1>6, <1>7, <1>8, OwnStep

\* sys_ps stores the next character of the listing, which does not change meanwhile.
LEMMA PsByteExact ==
    ASSUME CallInv, WindowInv, TypeOK', PsByte
    PROVE  CallInv'
<1>0. TypeOK /\ current \in Procs /\ pc[current] = "ps" /\ pc' = pc
  BY DEF CallInv, TypeOK, PsByte, InLoop
<1> DEFINE k == n[current]
           L == Listing
<1>1. /\ OthersSame /\ n'[current] = k + 1
      /\ data'[current] = Append(data[current], L[k + 1])
  BY <1>0, MovedBytes DEF PsByte, Moved
<1>2. /\ Works(current, "ps") /\ regs[current].r1 = call[current].b
      /\ data[current] = SubSeq(L, 1, k)
  BY <1>0 DEF CallInv, Progress
<1>3. L \in Seq(Nat) /\ k \in Nat /\ k < Len(L) /\ Len(L) \in Nat
  BY <1>0, OwnTypes DEF PsByte, Moved
<1>4. Listing' = L
  BY DEF PsByte, Listing
<1> HIDE DEF k, L
<1>5. data'[current] = SubSeq(L, 1, k + 1)
  <2>1. SubSeq(L, 1, k + 1) = SubSeq(L, 1, k) \o <<L[k + 1]>>
    <3>1. 1 \in 1 .. Len(L) /\ k + 1 \in 1 .. Len(L) /\ (k + 1) - 1 = k
      BY <1>3
    <3> QED
      BY <1>3, <3>1, SubSeqRecursiveSecond
  <2>2. L[k + 1] \in Nat /\ SubSeq(L, 1, k) \in Seq(Nat)
    <3>1. L[k + 1] \in Nat
      BY <1>3, ElementOfSeq
    <3> QED
      BY <1>0, <1>2, <3>1, OwnTypes
  <2> QED
    BY <1>1, <1>2, <2>1, <2>2, AppendIsConcat
<1>6. UNCHANGED <<state, current, pc, call, regs, buf, ring, received>>
  BY DEF PsByte
<1>7. Arrivals'
  BY <1>0, <1>6, RingKept
<1>8. ASSUME NEW p \in Procs, p = current PROVE Progress(p)'
  <2>1. k + 1 <= Len(L)
    BY <1>3
  <2> QED
    BY <1>0, <1>1, <1>2, <1>4, <1>5, <1>6, <1>8, <2>1 DEF Progress, Works, InWindow
<1> QED
  BY <1>1, <1>6, <1>7, <1>8, OwnStep

\* sys_read takes the oldest byte.
LEMMA ReadByteExact ==
    ASSUME CallInv, WindowInv, TypeOK', ReadByte
    PROVE  CallInv'
<1>0. TypeOK /\ current \in Procs /\ pc[current] = "read" /\ pc' = pc
  BY DEF CallInv, TypeOK, ReadByte, InLoop
<1>1. OthersSame /\ data'[current] = Append(data[current], Head(ring))
  BY <1>0, MovedBytes DEF ReadByte
<1>2. UNCHANGED <<state, current, pc, call, regs, buf, received>> /\ ring' = Tail(ring)
  BY DEF ReadByte
<1>3. Arrivals'
  <2>1. ring \in Seq(Nat) /\ ring # <<>> /\ data[current] \in Seq(Nat)
    BY <1>0 DEF TypeOK, ReadByte
  <2>2. /\ Len(ring') = Len(ring) - 1 /\ Len(ring) \in Nat
        /\ \A i \in 1 .. Len(ring') : ring'[i] = ring[i + 1]
    BY <1>2, <2>1, HeadTailProperties, LenProperties
  <2>3. data'[current'] \o ring' = data[current] \o ring
    BY <1>1, <1>2, <2>1, MoveHead
  <2>4. Increasing(data[current] \o ring)
    BY <1>0 DEF CallInv, Arrivals
  <2>5. Increasing(ring')
    BY <2>2 DEF CallInv, Arrivals, Increasing
  <2>6. \A i \in 1 .. Len(ring') : ring'[i] <= received'
    BY <1>2, <2>2 DEF CallInv, Arrivals
  <2> QED
    BY <2>3, <2>4, <2>5, <2>6 DEF Arrivals
<1>4. ASSUME NEW p \in Procs, p = current PROVE Progress(p)'
  BY <1>0, <1>2, <1>4 DEF CallInv, Progress, Works, InWindow
<1> QED
  BY <1>1, <1>2, <1>3, <1>4, OwnStep

\* The end of a loop: what the caller was promised has been done.
LEMMA LoopsEndExact ==
    ASSUME CallInv, WindowInv, TypeOK', WriteDone \/ PsDone \/ ReadDone
    PROVE  CallInv'
<1> DEFINE k == n[current]
           c == call[current]
<1>0. /\ TypeOK /\ current \in Procs /\ k \in Words /\ LoopEnds
      /\ UNCHANGED <<state, current, call, buf, n, data, ring, received>>
  BY DEF CallInv, TypeOK, WriteDone, PsDone, ReadDone, LoopEnds
<1>1. Return(k) /\ regs'[current].r0 = k
  BY <1>0, Returned DEF LoopEnds, Moved
<1>2. Progress(current) /\ BufferKnown(current)
  BY <1>0 DEF CallInv, WindowInv
<1>3. /\ k \in Nat /\ c.a \in Nat /\ c.b \in Nat
      /\ data[current] \in Seq(Nat) /\ Len(data[current]) = k
  BY <1>0, OwnTypes
<1>4. CASE WriteDone
  <2>1. /\ Works(current, "write") /\ regs[current].r2 = c.b
        /\ data[current] = [i \in 1 .. k |-> c.a + i - 1] /\ k <= c.b /\ k >= c.b
    BY <1>2, <1>4 DEF Progress, BufferKnown, WriteDone, InLoop, Moved
  <2>2. k = c.b
    BY <1>3, <2>1
  <2>3. Promise(current)'
    BY <1>0, <1>1, <2>1, <2>2 DEF Promise, Works, InWindow
  <2> QED
    BY <1>0, <1>1, <2>3, ReturnExact
<1>5. CASE ReadDone
  <2>1. /\ Works(current, "read") /\ regs[current].r2 = c.b /\ k <= c.b /\ c.b # 0
        /\ k >= c.b \/ (ring = <<>> /\ k > 0)
    BY <1>2, <1>5 DEF Progress, BufferKnown, ReadDone, InLoop, Moved
  <2>2. k \in 1 .. c.b /\ (k < c.b => ring = <<>>)
    BY <1>3, <2>1
  <2>3. Increasing(data[current] \o ring)
    BY <1>5 DEF ReadDone, InLoop, CallInv, Arrivals
  <2>4. Promise(current)'
    BY <1>0, <1>1, <1>3, <2>1, <2>2, <2>3 DEF Promise, Works, InWindow
  <2> QED
    BY <1>0, <1>1, <2>4, ReturnExact
<1>6. CASE PsDone
  <2>1. /\ Works(current, "ps") /\ regs[current].r1 = c.b /\ k <= Len(Listing)
        /\ data[current] = SubSeq(Listing, 1, k)
        /\ k = 0 \/ k < c.b
        /\ k + 1 >= c.b \/ k >= Len(Listing)
    BY <1>2, <1>3, <1>6 DEF Progress, BufferKnown, PsDone, PsRoom, InLoop, Moved
  <2>2. Listing \in Seq(Nat) /\ Len(Listing) \in Nat
    BY <1>0, OwnTypes
  <2>3. ASSUME k < c.b - 1 PROVE data[current] = Listing
    <3>1. k = Len(Listing)
      BY <1>3, <2>1, <2>2, <2>3
    <3>2. SubSeq(Listing, 1, Len(Listing)) = Listing
      BY <2>2, SubSeqFull
    <3> QED
      BY <2>1, <3>1, <3>2, Zenon
  <2>4. /\ c.b = 0 => k = 0
        /\ c.b > 0 => k <= c.b - 1
    BY <1>3, <2>1
  <2>5. Listing' = Listing
    BY <1>0 DEF Listing
  <2>6. /\ data[current] = SubSeq(Listing, 1, Len(data[current]))
        /\ c.fn = "ps" /\ buf[current] = c.a /\ InWindow(c.a, c.b)
    BY <1>3, <2>1 DEF Works
  <2>7. /\ call'[current'] = c /\ regs'[current'].r0 = k /\ data'[current'] = data[current]
        /\ buf'[current'] = buf[current]
    BY <1>0, <1>1
  <2> HIDE DEF k, c
  <2>8. Promise(current)'
    BY <1>3, <2>3, <2>4, <2>5, <2>6, <2>7 DEF Promise, InWindow
  <2> QED
    BY <1>0, <1>1, <2>8, ReturnExact
<1> QED
  BY <1>4, <1>5, <1>6

-----------------------------------------------------------------------------
(* Switches.                                                               *)

\* An idle process stays where it is when others are switched.
LEMMA KeptProgress ==
    ASSUME NEW p \in Procs, Progress(p), pc[p] \in {"user", "read"}, Same(p)
    PROVE  Progress(p)'
BY DEF Progress, Same, Works, InWindow

\* Switches and interrupts happen only where every call is idle.
LEMMA SwitchExact ==
    ASSUME CallInv, WindowInv, TypeOK',
           ReadBlock \/ ReturnToUser \/ Preempt \/ RxIrq
    PROVE  CallInv'
<1>0. TypeOK /\ current \in Procs /\ ring \in Seq(Nat) /\ received \in Nat
  BY OwnTypes DEF CallInv
<1>1. CASE ReadBlock \/ Preempt
  <2>1. /\ UNCHANGED <<pc, call, regs, buf, n, ring, received>>
        /\ pc[current] = "user" \/ (pc[current] = "read" /\ n[current] = 0)
    BY <1>1 DEF ReadBlock, Preempt, InLoop, Moved
  <2>2. \A p \in Procs : pc[p] \in {"user", "read"} /\ n[p] = 0
    BY <2>1, Idle
  <2>3. \A p \in Procs : Progress(p)'
    BY <2>1, <2>2, KeptProgress DEF Same, CallInv
  <2> QED
    BY <2>1, <2>2, <2>3, SwitchStep DEF CallInv, Arrivals
<1>2. CASE ReturnToUser
  <2>1. /\ pc' = [pc EXCEPT ![current] = "user"] /\ n' = [n EXCEPT ![current] = 0]
        /\ OthersSame /\ ring' = ring /\ received' = received
    BY <1>0, <1>2 DEF ReturnToUser, Go, OthersSame, Same, TypeOK
  <2>2. ASSUME NEW p \in Procs
        PROVE  pc'[p] \in {"user", "read"} /\ n'[p] = 0 /\ Progress(p)'
    <3>1. CASE p = current
      BY <1>0, <2>1, <3>1 DEF TypeOK, Progress
    <3>2. CASE p # current
      <4>1. pc[p] \in {"user", "read"} /\ n[p] = 0 /\ Same(p) /\ Progress(p)
        BY <2>1, <3>2 DEF CallInv, Suspended, OthersSame
      <4> QED
        BY <4>1, KeptProgress DEF Same
    <3> QED
      BY <3>1, <3>2
  <2> QED
    BY <2>1, <2>2, SwitchStep DEF CallInv, Arrivals
<1>3. CASE RxIrq
  <2>1. /\ UNCHANGED <<pc, call, regs, buf, n>> /\ pc[current] = "user"
        /\ received' = received + 1
        /\ ring' = IF Len(ring) < RX_CAPACITY THEN Append(ring, received + 1) ELSE ring
    BY <1>3 DEF RxIrq
  <2>2. \A p \in Procs : pc[p] \in {"user", "read"} /\ n[p] = 0
    BY <2>1, Idle
  <2>3. \A p \in Procs : Progress(p)'
    BY <2>1, <2>2, KeptProgress DEF Same, CallInv
  <2>4. /\ Increasing(ring) /\ Len(ring) \in Nat
        /\ \A i \in 1 .. Len(ring) : ring[i] \in Nat /\ ring[i] <= received
    BY <1>0, ElementOfSeq, LenProperties DEF CallInv, Arrivals
  <2>5. Increasing(ring') /\ \A i \in 1 .. Len(ring') : ring'[i] <= received'
    <3>1. CASE ring' = ring
      BY <1>0, <2>1, <2>4, <3>1
    <3>2. CASE ring' = Append(ring, received + 1)
      <4>1. /\ Len(ring') = Len(ring) + 1
            /\ \A i \in 1 .. Len(ring) : ring'[i] = ring[i]
            /\ ring'[Len(ring) + 1] = received + 1
        BY <1>0, <3>2, AppendProperties
      <4>2. ASSUME NEW i \in 1 .. Len(ring') - 1 PROVE ring'[i] < ring'[i + 1]
        <5>1. CASE i = Len(ring)
          BY <1>0, <2>4, <4>1, <5>1
        <5>2. CASE i < Len(ring)
          BY <2>4, <4>1, <5>2 DEF Increasing
        <5> QED
          BY <2>4, <4>1, <5>1, <5>2
      <4>3. ASSUME NEW i \in 1 .. Len(ring') PROVE ring'[i] <= received'
        <5>1. CASE i = Len(ring) + 1
          BY <1>0, <2>1, <4>1, <5>1
        <5>2. CASE i \in 1 .. Len(ring)
          BY <1>0, <2>1, <2>4, <4>1, <5>2
        <5> QED
          BY <2>4, <4>1, <5>1, <5>2
      <4> QED
        BY <4>2, <4>3 DEF Increasing
    <3> QED
      BY <2>1, <3>1, <3>2
  <2> QED
    BY <2>1, <2>2, <2>3, <2>5, SwitchStep
<1> QED
  BY <1>1, <1>2, <1>3

\* The invariant is inductive, on top of types and buffers.
LEMMA CallStep ==
    ASSUME CallInv, WindowInv, TypeOK', [Next]_vars
    PROVE  CallInv'
<1>1. CASE UserCall \/ UserBadCall
  BY <1>1, UserCallExact
<1>2. CASE Handlers
  BY <1>2, HandlersExact
<1>3. CASE Loops
  BY <1>3, WriteByteExact, PsByteExact, ReadByteExact, LoopsEndExact, SwitchExact DEF Loops
<1>4. CASE ReturnToUser \/ Preempt \/ RxIrq
  BY <1>4, SwitchExact
<1>5. CASE UNCHANGED vars
  <2>1. Suspended'
    BY <1>5 DEF vars, CallInv, Suspended
  <2>2. Arrivals'
    BY <1>5 DEF vars, CallInv, Arrivals, Increasing
  <2>3. ASSUME NEW p \in Procs PROVE Progress(p)'
    <3>1. Listing' = Listing
      BY <1>5 DEF vars, Listing
    <3>2. Promise(p) => Promise(p)'
      BY <1>5, <3>1 DEF vars, Promise, InWindow, Increasing
    <3> QED
      BY <1>5, <3>1, <3>2 DEF vars, CallInv, Progress, Works, InWindow
  <2> QED
    BY <2>1, <2>2, <2>3 DEF CallInv
<1> QED
  BY <1>1, <1>2, <1>3, <1>4, <1>5 DEF Next

\* No call is under way at the start.
LEMMA CallInit == Init => CallInv
<1> SUFFICES ASSUME Init PROVE CallInv
  OBVIOUS
<1>1. TypeOK
  BY TypeInit
<1>2. Suspended /\ \A p \in Procs : Progress(p)
  BY DEF Init, Suspended, Progress
<1>3. Arrivals
  <2>1. ring = <<>> /\ Len(<<>>) = 0 /\ current \in Procs /\ pc[current] = "user"
    BY <1>1, EmptySeq DEF Init, TypeOK
  <2> QED
    BY <2>1 DEF Arrivals, Increasing
<1> QED
  BY <1>1, <1>2, <1>3 DEF CallInv

\* When a call returns its caller has what the call promises, whatever the other
\* processes did while it slept: E_FAULT for precisely the buffers outside the
\* window, the bytes of the buffer, the oldest input in order, the listing cut where
\* the buffer ends, and the state it asked for in the table.
THEOREM CallExactness == Spec => []CallsExact
<1>1. CallInv /\ WindowInv /\ TypeOK' /\ [Next]_vars => CallInv'
  BY CallStep
<1>2. CallInv => CallsExact
  BY DEF CallInv, CallsExact, Progress
<1> QED
  BY <1>1, <1>2, CallInit, WindowInvariance, TypeCorrectness, PTL DEF Spec
=============================================================================
