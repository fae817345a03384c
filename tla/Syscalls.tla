------------------------------ MODULE Syscalls ------------------------------
(***************************************************************************)
(* The system call boundary with its data: the registers that the wrappers *)
(* of user/libc/syscall.h load, syscall_dispatch and its table, the check  *)
(* of user pointers, and the byte loops of sys_write, sys_read and sys_ps  *)
(* over the caller's memory.  Words are unsigned and wrap at WORD.         *)
(*                                                                         *)
(* System calls run with IRQs masked; a process leaves one half-way only   *)
(* when sys_read sleeps.  When schedule() switches and to whom is the      *)
(* subject of module Kernel: here any process that can run may come next.  *)
(* Characters are their codes, received bytes are numbered in the order of *)
(* arrival, and a byte that sys_write sends is identified by the address   *)
(* it was loaded from.                                                     *)
(***************************************************************************)
EXTENDS Integers, Sequences

CONSTANTS
    NUM_PROCESSES,      \* size of processes[]
    WORD,               \* 2^32: the values of a register
    USER_VIRT_BASE,     \* first address of the user window
    USER_REGION_SIZE,   \* its size
    Args,               \* what user code passes as pointer, length or pid
    Name,               \* Name[p]: processes[p].name as character codes
    StateName,          \* StateName[s]: the text sys_ps prints for state s
    RX_CAPACITY,        \* bytes the receive ring holds
    MAX_BYTES           \* bound: bytes received in a behaviour

Procs == 0 .. NUM_PROCESSES - 1
Words == 0 .. WORD - 1
TaskStates == {"READY", "RUNNING", "BLOCKED", "DEAD"}

ASSUME SyscallsAssumption ==
    /\ NUM_PROCESSES \in 1 .. 10
    /\ WORD \in Nat /\ WORD > 10
    /\ USER_VIRT_BASE \in Nat /\ USER_REGION_SIZE \in Nat
    /\ USER_VIRT_BASE + USER_REGION_SIZE < WORD - 2
    /\ Args \subseteq Words
    /\ Name \in [Procs -> Seq(Nat)]
    /\ StateName \in [TaskStates -> Seq(Nat)]
    /\ RX_CAPACITY \in Nat /\ MAX_BYTES \in Nat

NR_SYSCALLS == 8

\* Errors as they arrive in a register.
E_BADCALL == WORD - 1
E_FAULT   == WORD - 2

NULL == -1

VARIABLES
    state,              \* processes[p].state
    current,            \* the process on the CPU
    pc,                 \* where each process executes or resumes
    call,               \* history: the wrapper p called, with its arguments
    regs,               \* r0, r1, r2 and r7 in p's saved user context
    buf,                \* the pointer a handler works on
    n,                  \* how many bytes it has moved (n, or i in sys_write)
    data,               \* the bytes it has moved
    blocked_reader,     \* the wait slot for input
    ring,               \* received bytes, oldest first
    received            \* number of bytes received so far

vars == <<state, current, pc, call, regs, buf, n, data, blocked_reader, ring,
          received>>

-----------------------------------------------------------------------------
(* User side: the wrappers.  Registers a wrapper does not load hold        *)
(* whatever they held; the kernel ignores them.                            *)

Wrappers == {"write", "getpid", "yield", "exit", "read", "ps", "kill", "ticks"}

\* The numbers of user/libc/syscall.h.
SYS == [write |-> 0, getpid |-> 1, yield |-> 2, exit |-> 3,
        read |-> 4, ps |-> 5, kill |-> 6, ticks |-> 7]

NoRegs == [r0 |-> 0, r1 |-> 0, r2 |-> 0, r7 |-> 0]
NoCall == [fn |-> "none", a |-> 0, b |-> 0]

\* A wrapper loads the number and its arguments.
Load(fn, a0, a1, a2) == [r0 |-> a0, r1 |-> a1, r2 |-> a2, r7 |-> SYS[fn]]

\* write and read pass the descriptor, which is ignored, in r0; ps has none.
write_stub(buffer, len) == Load("write", 0, buffer, len)
read_stub(buffer, len)  == Load("read", 0, buffer, len)
ps_stub(buffer, size)   == Load("ps", buffer, size, 0)
kill_stub(pid)          == Load("kill", pid, 0, 0)
getpid_stub             == Load("getpid", 0, 0, 0)
ticks_stub              == Load("ticks", 0, 0, 0)
yield_stub              == Load("yield", 0, 0, 0)
exit_stub               == Load("exit", 0, 0, 0)

Trap(fn, a, b, r) ==
    /\ pc[current] = "user"
    /\ pc' = [pc EXCEPT ![current] = "svc"]
    /\ call' = [call EXCEPT ![current] = [fn |-> fn, a |-> a, b |-> b]]
    /\ regs' = [regs EXCEPT ![current] = r]
    /\ UNCHANGED <<state, current, buf, n, data, blocked_reader, ring, received>>

UserCall ==
    \/ \E ptr, len \in Args :
          \/ Trap("write", ptr, len, write_stub(ptr, len))
          \/ Trap("read", ptr, len, read_stub(ptr, len))
          \/ Trap("ps", ptr, len, ps_stub(ptr, len))
    \/ \E pid \in Args : Trap("kill", pid, 0, kill_stub(pid))
    \/ Trap("getpid", 0, 0, getpid_stub)
    \/ Trap("ticks", 0, 0, ticks_stub)
    \/ Trap("yield", 0, 0, yield_stub)
    \/ Trap("exit", 0, 0, exit_stub)

\* svc with a number the kernel does not know.
UserBadCall == Trap("bad", 0, 0, [NoRegs EXCEPT !.r7 = NR_SYSCALLS])

-----------------------------------------------------------------------------
(* Dispatch.                                                               *)

syscall_table ==
    <<"write", "getpid", "yield", "exit", "read", "ps", "kill", "ticks">>

Dispatches(fn) ==
    /\ pc[current] = "svc"
    /\ regs[current].r7 < NR_SYSCALLS
    /\ syscall_table[regs[current].r7 + 1] = fn

Go(point) == pc' = [pc EXCEPT ![current] = point]

\* ctx->r[0] = ret
Return(value) ==
    /\ regs' = [regs EXCEPT ![current].r0 = value]
    /\ Go("ret")

\* A handler that moves no bytes.
Simple == UNCHANGED <<current, call, buf, n, data, blocked_reader, ring, received>>

BadCall ==
    /\ pc[current] = "svc"
    /\ regs[current].r7 >= NR_SYSCALLS
    /\ Return(E_BADCALL)
    /\ UNCHANGED state /\ Simple

-----------------------------------------------------------------------------
(* The check of user pointers, in the arithmetic of uint32_t.              *)

valid_user_ptr_NoWrapCheck(addr, len) ==
    LET end == (addr + len) % WORD
    IN  /\ ~(addr < USER_VIRT_BASE)
        /\ ~(end > USER_VIRT_BASE + USER_REGION_SIZE)
valid_user_ptr(addr, len) ==
    LET end == (addr + len) % WORD
    IN  /\ ~(end < addr)
        /\ ~(addr < USER_VIRT_BASE)
        /\ ~(end > USER_VIRT_BASE + USER_REGION_SIZE)

\* A handler whose buffer passed the check starts its loop at ptr; nothing has
\* been moved yet.
Checked(ptr, len, loop) ==
    /\ \/ /\ valid_user_ptr(ptr, len)
          /\ buf' = [buf EXCEPT ![current] = ptr]
          /\ Go(loop)
          /\ UNCHANGED regs
       \/ /\ ~valid_user_ptr(ptr, len)
          /\ Return(E_FAULT)
          /\ UNCHANGED buf
    /\ UNCHANGED <<state, current, call, n, data, blocked_reader, ring, received>>

InLoop(loop) == pc[current] = loop

Moved == n[current]

Move(byte) ==
    /\ data' = [data EXCEPT ![current] = Append(@, byte)]
    /\ n' = [n EXCEPT ![current] = @ + 1]

LoopEnds ==
    /\ Return(Moved)
    /\ UNCHANGED <<state, current, call, buf, n, data, blocked_reader, ring, received>>

-----------------------------------------------------------------------------
(* sys_write: r1 is the buffer, r2 its length.                             *)

sys_write ==
    /\ Dispatches("write")
    /\ Checked(regs[current].r1, regs[current].r2, "write")

WriteByte ==
    /\ InLoop("write")
    /\ Moved < regs[current].r2
    /\ Move((buf[current] + Moved) % WORD)
    /\ UNCHANGED <<state, current, pc, call, regs, buf, blocked_reader, ring, received>>

WriteDone == InLoop("write") /\ Moved >= regs[current].r2 /\ LoopEnds

-----------------------------------------------------------------------------
(* sys_ps: r0 is the buffer, r1 its size.                                  *)

\* The listing of a table of states st, line by line.
Line(st, p) == <<48 + p, 32>> \o Name[p] \o <<32>> \o StateName[st[p]] \o <<10>>

ListingOf(st) ==
    LET upTo[k \in 0 .. NUM_PROCESSES] ==
            IF k = 0 THEN <<>> ELSE upTo[k - 1] \o Line(st, k - 1)
    IN  upTo[NUM_PROCESSES]

Listing == ListingOf(state)

sys_ps == Dispatches("ps") /\ Checked(regs[current].r0, regs[current].r1, "ps")

\* Every store is guarded by n + 1 < size: the last byte is never used.
PsRoom_Last == Moved < regs[current].r1
PsRoom == Moved + 1 < regs[current].r1

PsByte ==
    /\ InLoop("ps")
    /\ PsRoom
    /\ Moved < Len(Listing)
    /\ Move(Listing[Moved + 1])
    /\ UNCHANGED <<state, current, pc, call, regs, buf, blocked_reader, ring, received>>

PsDone == InLoop("ps") /\ (~PsRoom \/ Moved >= Len(Listing)) /\ LoopEnds

-----------------------------------------------------------------------------
(* The scheduler as the calls see it.                                      *)

Runs(st, p) == st[p] \in {"READY", "RUNNING"}

\* schedule() after a handler left the table as st: another process that can run
\* gets the CPU, or the current one keeps it; it has to give way if it cannot run
\* and another one can.
Schedule(st) ==
    \/ \E q \in Procs \ {current} :
          /\ Runs(st, q)
          /\ current' = q
          /\ state' = [st EXCEPT ![current] = IF @ = "RUNNING" THEN "READY" ELSE @,
                                 ![q] = "RUNNING"]
    \/ /\ Runs(st, current) \/ \A q \in Procs \ {current} : ~Runs(st, q)
       /\ current' = current
       /\ state' = st

\* The tail of handle_svc and the return to user mode.
ReturnToUser ==
    /\ pc[current] = "ret"
    /\ Go("user")
    /\ call' = [call EXCEPT ![current] = NoCall]
    /\ regs' = [regs EXCEPT ![current] = NoRegs]
    /\ buf' = [buf EXCEPT ![current] = 0]
    /\ n' = [n EXCEPT ![current] = 0]
    /\ data' = [data EXCEPT ![current] = <<>>]
    /\ Schedule(state)
    /\ UNCHANGED <<blocked_reader, ring, received>>

\* The timer interrupt.
Preempt ==
    /\ pc[current] = "user"
    /\ Schedule(state)
    /\ UNCHANGED <<pc, call, regs, buf, n, data, blocked_reader, ring, received>>

\* The UART interrupt: the byte goes to the ring, which drops it when it is
\* full, and scheduler_wake_reader wakes the process in the slot.
RxIrq ==
    /\ pc[current] = "user"
    /\ received < MAX_BYTES
    /\ received' = received + 1
    /\ ring' = IF Len(ring) < RX_CAPACITY THEN Append(ring, received + 1) ELSE ring
    /\ LET sleeping == blocked_reader # NULL /\ state[blocked_reader] = "BLOCKED"
       IN  \/ /\ sleeping
              /\ blocked_reader' = NULL
              /\ Schedule([state EXCEPT ![blocked_reader] = "READY"])
           \/ /\ ~sleeping
              /\ UNCHANGED blocked_reader
              /\ Schedule(state)
    /\ UNCHANGED <<pc, call, regs, buf, n, data>>

-----------------------------------------------------------------------------
(* sys_read: r1 is the buffer, r2 its length.                              *)

sys_read ==
    /\ Dispatches("read")
    /\ \/ regs[current].r2 = 0 /\ Return(0) /\ UNCHANGED state /\ Simple
       \/ regs[current].r2 # 0 /\ Checked(regs[current].r1, regs[current].r2, "read")

ReadByte ==
    /\ InLoop("read")
    /\ Moved < regs[current].r2
    /\ ring # <<>>
    /\ Move(Head(ring))
    /\ ring' = Tail(ring)
    /\ UNCHANGED <<state, current, pc, call, regs, buf, blocked_reader, received>>

\* The buffer is full, or the ring is empty and something was read.
ReadDone ==
    /\ InLoop("read")
    /\ Moved >= regs[current].r2 \/ (ring = <<>> /\ Moved > 0)
    /\ LoopEnds

\* scheduler_block_on_input; the process resumes at the head of the loop.
ReadBlock ==
    /\ InLoop("read")
    /\ ring = <<>> /\ Moved = 0
    /\ blocked_reader' = current
    /\ Schedule([state EXCEPT ![current] = "BLOCKED"])
    /\ UNCHANGED <<pc, call, regs, buf, n, data, ring, received>>

-----------------------------------------------------------------------------
(* The calls without a buffer.                                             *)

sys_getpid == Dispatches("getpid") /\ Return(current) /\ UNCHANGED state /\ Simple

sys_yield == Dispatches("yield") /\ Return(0) /\ UNCHANGED state /\ Simple

\* tick_count may have any value.
sys_ticks ==
    /\ Dispatches("ticks")
    /\ \E tick_count \in Args : Return(tick_count)
    /\ UNCHANGED state /\ Simple

sys_exit ==
    /\ Dispatches("exit")
    /\ state' = [state EXCEPT ![current] = "DEAD"]
    /\ Return(0) /\ Simple

\* The pid is compared unsigned.
sys_kill_OffByOne ==
    /\ Dispatches("kill")
    /\ LET pid == regs[current].r0
       IN  IF pid > NUM_PROCESSES
             THEN Return(E_BADCALL) /\ UNCHANGED state
             ELSE Return(0) /\ state' = [p \in Procs \cup {pid} |->
                                            IF p = pid THEN "DEAD" ELSE state[p]]
    /\ Simple
sys_kill ==
    /\ Dispatches("kill")
    /\ LET pid == regs[current].r0
       IN  \/ /\ pid >= NUM_PROCESSES
              /\ Return(E_BADCALL) /\ UNCHANGED state
           \/ /\ pid < NUM_PROCESSES
              /\ Return(0)
              /\ state' = [state EXCEPT ![pid] = "DEAD"]
    /\ Simple

-----------------------------------------------------------------------------

Init ==
    /\ state = [p \in Procs |-> "READY"]
    /\ current = 0
    /\ pc = [p \in Procs |-> "user"]
    /\ call = [p \in Procs |-> NoCall]
    /\ regs = [p \in Procs |-> NoRegs]
    /\ buf = [p \in Procs |-> 0]
    /\ n = [p \in Procs |-> 0]
    /\ data = [p \in Procs |-> <<>>]
    /\ blocked_reader = NULL
    /\ ring = <<>>
    /\ received = 0

Handlers ==
    \/ BadCall \/ sys_write \/ sys_getpid \/ sys_yield \/ sys_exit
    \/ sys_read \/ sys_ps \/ sys_kill \/ sys_ticks

Loops ==
    \/ WriteByte \/ WriteDone \/ PsByte \/ PsDone
    \/ ReadByte \/ ReadDone \/ ReadBlock

Next == UserCall \/ UserBadCall \/ Handlers \/ Loops \/ ReturnToUser \/ Preempt \/ RxIrq

Spec == Init /\ [][Next]_vars

-----------------------------------------------------------------------------
(* Properties.                                                             *)

Points == {"user", "svc", "write", "ps", "read", "ret"}

\* Types; a pid from user code never reaches beyond processes[].
TypeOK ==
    /\ state \in [Procs -> TaskStates]
    /\ current \in Procs
    /\ pc \in [Procs -> Points]
    /\ call \in [Procs -> [fn : Wrappers \cup {"none", "bad"}, a : Words, b : Words]]
    /\ regs \in [Procs -> [r0 : Words, r1 : Words, r2 : Words, r7 : 0 .. NR_SYSCALLS]]
    /\ buf \in [Procs -> Words]
    /\ n \in [Procs -> Words]
    /\ data \in [Procs -> Seq(Nat)] /\ \A p \in Procs : Len(data[p]) = n[p]
    /\ blocked_reader \in Procs \cup {NULL}
    /\ ring \in Seq(Nat) /\ Len(ring) <= RX_CAPACITY
    /\ received \in 0 .. MAX_BYTES

\* The interval definition of a good buffer, in unbounded arithmetic.
InWindow(addr, len) ==
    /\ addr >= USER_VIRT_BASE
    /\ addr + len <= USER_VIRT_BASE + USER_REGION_SIZE

\* Whatever pointer and length user code passed, and however often a reader slept
\* in between, every byte the kernel loads or stores on a caller's behalf lies in
\* the user window: valid_user_ptr together with the loops keeps the kernel's own
\* memory out of reach.
WindowRespected ==
    \A p \in Procs : \A i \in 0 .. n[p] - 1 :
        /\ (buf[p] + i) % WORD >= USER_VIRT_BASE
        /\ (buf[p] + i) % WORD < USER_VIRT_BASE + USER_REGION_SIZE

Increasing(s) == \A i \in 1 .. Len(s) - 1 : s[i] < s[i + 1]

\* What each call promises its caller, in terms of the arguments it passed.
Promise(p) ==
    LET c      == call[p]
        result == regs[p].r0
        good   == InWindow(c.a, c.b)
        faults == result = E_FAULT /\ data[p] = <<>>
    IN  CASE c.fn = "write" ->
               IF good THEN /\ result = c.b
                            /\ data[p] = [i \in 1 .. c.b |-> c.a + i - 1]
                       ELSE faults
          [] c.fn = "read" ->
               IF c.b = 0 THEN result = 0 /\ data[p] = <<>>
               ELSE IF good THEN /\ result = Len(data[p]) /\ result \in 1 .. c.b
                                 /\ buf[p] = c.a
                                 /\ Increasing(data[p] \o ring)
                                 /\ result < c.b => ring = <<>>
                            ELSE faults
          [] c.fn = "ps" ->
               IF good THEN /\ result = Len(data[p])
                            /\ buf[p] = c.a
                            /\ data[p] = SubSeq(Listing, 1, Len(data[p]))
                            /\ c.b = 0 => result = 0
                            /\ c.b > 0 => /\ result <= c.b - 1
                                          /\ result < c.b - 1 => data[p] = Listing
                       ELSE faults
          [] c.fn = "kill" ->
               IF c.a \in Procs THEN result = 0 /\ state[c.a] = "DEAD"
                                ELSE result = E_BADCALL
          [] c.fn = "getpid" -> result = p
          [] c.fn = "bad" -> result = E_BADCALL
          [] OTHER -> TRUE

\* When a call is about to return, its caller gets exactly what the call promises:
\* a fault for precisely the buffers that leave the window, the count of bytes
\* really moved, the oldest received bytes in order, as many as there were, and a
\* process listing cut only where the buffer ends, one byte short of its size.
CallsExact == \A p \in Procs : pc[p] = "ret" => Promise(p)
=============================================================================
