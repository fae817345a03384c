--------------------------- MODULE ContextSwitch ---------------------------
(***************************************************************************)
(* How the CPU moves between processes at the level of registers, stacks   *)
(* and translation state: the exception entry and exit stubs, the save and *)
(* load sides of context_switch, the frames process_build_initial_frame    *)
(* lays down, and the swap of the address space.  Which process runs next  *)
(* is module Kernel's business: here any process that has not been retired *)
(* by a fault may be chosen.                                               *)
(*                                                                         *)
(* Register contents are abstract values <<owner, tag>>: tags 0 and 1 are  *)
(* values user code computed, 2 is a system call's result, 3 the locals a  *)
(* C handler keeps in callee-saved registers; owner NOBODY is anything a   *)
(* C function may leave behind.  A kernel stack is a sequence of frames    *)
(* and a stack pointer names the stack and the number of frames below it.  *)
(* IRQs are masked except at "user", so only the speculative fills of the  *)
(* TLB and the instruction cache interleave with kernel code.              *)
(***************************************************************************)
EXTENDS Integers, Sequences

CONSTANT NUM_PROCESSES

ASSUME ProcessesAssumption == NUM_PROCESSES \in Nat \ {0}

Procs == 0 .. NUM_PROCESSES - 1
NOBODY == -1

VARIABLES
    at,         \* what the CPU executes
    current,    \* the scheduler's current process
    reg,        \* the register file as user mode sees it
    sp,         \* SP_svc: <<stack owner, frames>>
    kstack,     \* the frames on each process's kernel stack
    ctx,        \* processes[p].ctx: sp_svc, sp_usr, lr_usr
    ttbr0,      \* owner of the page table TTBR0 points at
    tlb,        \* owners of user translations the TLB may hold
    icache,     \* owners of user code the instruction cache may hold
    retired,    \* processes killed by a fault
    view        \* ghost: the registers p's program must find when it next runs

vars == <<at, current, reg, sp, kstack, ctx, ttbr0, tlb, icache, retired, view>>

\* caller: r1-r3, r12; callee: r4-r11; pc: the user pc and cpsr.
RegNames == {"r0", "caller", "callee", "sp_usr", "lr_usr", "pc"}

\* Whether a step of kernel code leaves the CPU in a handler or its exit stub.
InHandler == {"irq", "svc", "fault"}
Tails == {"irq_tail", "svc_tail"}

Junk == <<NOBODY, 3>>
Locals(p) == <<p, 3>>

-----------------------------------------------------------------------------
(* Frames.                                                                 *)

\* What an exception entry stub pushes on the kernel stack: r0-r12, pc, cpsr.
UserFrame(r) ==
    [r0 |-> r["r0"], caller |-> r["caller"], callee |-> r["callee"],
     pc |-> r["pc"], ret |-> "user"]

\* What context_switch pushes: r4-r11 and the return address.
ResumeFrame(r, point) ==
    [r0 |-> Junk, caller |-> Junk, callee |-> r["callee"], pc |-> Junk, ret |-> point]

Fresh(p) == [r \in RegNames |-> <<p, 0>>]

\* process_build_initial_frame: a resume frame that returns to
\* ret_from_first_entry above a frame that enters the program.
InitialStack(p) == <<UserFrame(Fresh(p)), ResumeFrame(Fresh(p), "irq_tail")>>

Pushed(f) == [kstack EXCEPT ![sp[1]] = Append(SubSeq(@, 1, sp[2]), f)]
TopFrame == kstack[sp[1]][sp[2]]

-----------------------------------------------------------------------------
(* kmain is about to call process_first_run: nothing runs in user mode yet *)
(* and TTBR0 holds the boot page table.                                    *)

Init ==
    /\ at = "swap_ttbr0"
    /\ current = 0
    /\ reg = [r \in RegNames |-> Junk]
    /\ sp = <<NOBODY, 0>>
    /\ kstack = [p \in Procs |-> InitialStack(p)]
    /\ ctx = [p \in Procs |-> [sp_svc |-> <<p, 2>>, sp_usr |-> <<p, 0>>, lr_usr |-> <<p, 0>>]]
    /\ ttbr0 = NOBODY
    /\ tlb = {}
    /\ icache = {}
    /\ retired = {}
    /\ view = [p \in Procs |-> Fresh(p)]

-----------------------------------------------------------------------------
(* User code, and the hardware's speculation.                              *)

\* The program computes: every register it owns changes.
UserStep ==
    /\ at = "user"
    /\ \E tag \in {0, 1} :
          /\ reg' = [r \in RegNames |-> <<current, tag>>]
          /\ view' = [view EXCEPT ![current] = [r \in RegNames |-> <<current, tag>>]]
    /\ UNCHANGED <<at, current, sp, kstack, ctx, ttbr0, tlb, icache, retired>>

TlbFill ==
    /\ ttbr0 # NOBODY
    /\ tlb' = tlb \cup {ttbr0}
    /\ UNCHANGED <<at, current, reg, sp, kstack, ctx, ttbr0, icache, retired, view>>

IcacheFill ==
    /\ tlb # {}
    /\ icache' = icache \cup tlb
    /\ UNCHANGED <<at, current, reg, sp, kstack, ctx, ttbr0, tlb, retired, view>>

-----------------------------------------------------------------------------
(* Exception entry.  The C handler then uses the registers as it likes.    *)

HandlerRegs == [reg EXCEPT !["r0"] = Junk, !["caller"] = Junk, !["pc"] = Junk,
                           !["callee"] = Locals(current)]

\* exception_entry_irq: srsdb and stmfd onto the SVC stack.
EntryIrq ==
    /\ at = "user"
    /\ kstack' = Pushed(UserFrame(reg))
    /\ sp' = <<sp[1], sp[2] + 1>>
    /\ reg' = HandlerRegs
    /\ at' = "irq"
    /\ UNCHANGED <<current, ctx, ttbr0, tlb, icache, retired, view>>

\* exception_entry_svc.  The program expects the result in r0.
EntrySvc ==
    /\ at = "user"
    /\ kstack' = Pushed(UserFrame(reg))
    /\ sp' = <<sp[1], sp[2] + 1>>
    /\ reg' = HandlerRegs
    /\ view' = [view EXCEPT ![current]["r0"] = <<current, 2>>]
    /\ at' = "svc"
    /\ UNCHANGED <<current, ctx, ttbr0, tlb, icache, retired>>

\* The abort and undefined entries save on their own mode's stack, then run
\* user_fault_kill on the process's kernel stack.
EntryFault ==
    /\ at = "user"
    /\ retired' = retired \cup {current}
    /\ reg' = HandlerRegs
    /\ at' = "fault"
    /\ UNCHANGED <<current, sp, kstack, ctx, ttbr0, tlb, icache, view>>

-----------------------------------------------------------------------------
(* Handlers.                                                               *)

\* syscall_dispatch stores the result through ctx, the frame at the bottom of
\* the kernel stack, and handle_svc goes on to schedule().
StoreResult ==
    /\ at = "svc"
    /\ kstack' = [kstack EXCEPT ![current][1].r0 = <<current, 2>>]
    /\ at' = "svc_result"
    /\ UNCHANGED <<current, reg, sp, ctx, ttbr0, tlb, icache, retired, view>>

\* schedule() keeps the current process: back to the exit stub.
NoSwitch ==
    /\ at \in {"irq", "svc_result"}
    /\ at' = IF at = "irq" THEN "irq_tail" ELSE "svc_tail"
    /\ UNCHANGED <<current, reg, sp, kstack, ctx, ttbr0, tlb, icache, retired, view>>

\* Where the caller of context_switch continues: the exit stub of its entry, or
\* the loop of sys_read if it blocked.  user_fault_kill never continues.
ReturnPoint == [irq |-> "irq_tail", svc |-> "svc", svc_result |-> "svc_tail", fault |-> "fault"]

\* schedule() picks next: perform_switch, then the save side of context_switch.
Switch_NoUsr(next) ==
    /\ at \in DOMAIN ReturnPoint
    /\ next # current /\ next \notin retired
    /\ kstack' = Pushed(ResumeFrame(reg, ReturnPoint[at]))
    /\ ctx' = [ctx EXCEPT ![current].sp_svc = <<sp[1], sp[2] + 1>>]
    /\ sp' = <<sp[1], sp[2] + 1>>
    /\ current' = next
    /\ at' = "swap_ttbr0"
    /\ UNCHANGED <<reg, ttbr0, tlb, icache, retired, view>>
Switch(next) ==
    /\ at \in DOMAIN ReturnPoint
    /\ next # current /\ next \notin retired
    /\ kstack' = Pushed(ResumeFrame(reg, ReturnPoint[at]))
    /\ ctx' = [ctx EXCEPT ![current] = [sp_svc |-> <<sp[1], sp[2] + 1>>,
                                         sp_usr |-> reg["sp_usr"],
                                         lr_usr |-> reg["lr_usr"]]]
    /\ sp' = <<sp[1], sp[2] + 1>>
    /\ current' = next
    /\ at' = "swap_ttbr0"
    /\ UNCHANGED <<reg, ttbr0, tlb, icache, retired, view>>

-----------------------------------------------------------------------------
(* The load side of context_switch.                                        *)

\* Every table walk from here on uses the new table.  The code has its barriers
\* only after the invalidations; that the CPU may still walk the old table until
\* then is left out of the model.
SwapTtbr0 ==
    /\ at = "swap_ttbr0"
    /\ ttbr0' = current
    /\ at' = "tlbiall"
    /\ UNCHANGED <<current, reg, sp, kstack, ctx, tlb, icache, retired, view>>

InvalidateTlb_Skip ==
    /\ at = "tlbiall"
    /\ at' = "iciallu"
    /\ UNCHANGED <<current, reg, sp, kstack, ctx, ttbr0, tlb, icache, retired, view>>
InvalidateTlb ==
    /\ at = "tlbiall"
    /\ tlb' = {}
    /\ at' = "iciallu"
    /\ UNCHANGED <<current, reg, sp, kstack, ctx, ttbr0, icache, retired, view>>

InvalidateIcache ==
    /\ at = "iciallu"
    /\ icache' = {}
    /\ at' = "load_usr"
    /\ UNCHANGED <<current, reg, sp, kstack, ctx, ttbr0, tlb, retired, view>>

\* SYS mode: the banked user registers of next.
LoadUsr ==
    /\ at = "load_usr"
    /\ reg' = [reg EXCEPT !["sp_usr"] = ctx[current].sp_usr, !["lr_usr"] = ctx[current].lr_usr]
    /\ at' = "load_svc"
    /\ UNCHANGED <<current, sp, kstack, ctx, ttbr0, tlb, icache, retired, view>>

\* ldr sp; pop {r4-r11, lr}; bx lr.
LoadSvc_NoCallee ==
    /\ at = "load_svc"
    /\ LET top == ctx[current].sp_svc
           f   == kstack[top[1]][top[2]]
       IN  /\ sp' = <<top[1], top[2] - 1>>
           /\ at' = f.ret
    /\ UNCHANGED <<current, reg, kstack, ctx, ttbr0, tlb, icache, retired, view>>
LoadSvc ==
    /\ at = "load_svc"
    /\ LET top == ctx[current].sp_svc
           f   == kstack[top[1]][top[2]]
       IN  /\ sp' = <<top[1], top[2] - 1>>
           /\ reg' = [reg EXCEPT !["callee"] = f.callee]
           /\ at' = f.ret
    /\ UNCHANGED <<current, kstack, ctx, ttbr0, tlb, icache, retired, view>>

-----------------------------------------------------------------------------
(* Exception exit: the stub pops the user frame and enters user mode.      *)

ReturnToUser_PopsTwice ==
    /\ at \in Tails
    /\ reg' = [reg EXCEPT !["r0"] = TopFrame.r0, !["caller"] = TopFrame.caller,
                          !["callee"] = TopFrame.callee, !["pc"] = TopFrame.pc]
    /\ sp' = <<sp[1], sp[2] - 2>>
    /\ at' = "user"
    /\ UNCHANGED <<current, kstack, ctx, ttbr0, tlb, icache, retired, view>>
ReturnToUser_LeavesFrame ==
    /\ at \in Tails
    /\ reg' = [reg EXCEPT !["r0"] = TopFrame.r0, !["caller"] = TopFrame.caller,
                          !["callee"] = TopFrame.callee, !["pc"] = TopFrame.pc]
    /\ at' = "user"
    /\ UNCHANGED <<current, sp, kstack, ctx, ttbr0, tlb, icache, retired, view>>
ReturnToUser ==
    /\ at \in Tails
    /\ reg' = [reg EXCEPT !["r0"] = TopFrame.r0, !["caller"] = TopFrame.caller,
                          !["callee"] = TopFrame.callee, !["pc"] = TopFrame.pc]
    /\ sp' = <<sp[1], sp[2] - 1>>
    /\ at' = "user"
    /\ UNCHANGED <<current, kstack, ctx, ttbr0, tlb, icache, retired, view>>

\* user_fault_kill found nobody else to run.
HaltForever ==
    /\ at = "fault"
    /\ Procs \subseteq retired
    /\ UNCHANGED vars

-----------------------------------------------------------------------------

Entry == EntryIrq \/ EntrySvc \/ EntryFault

Load == SwapTtbr0 \/ InvalidateTlb \/ InvalidateIcache \/ LoadUsr \/ LoadSvc

Next ==
    \/ UserStep \/ TlbFill \/ IcacheFill
    \/ Entry \/ StoreResult \/ NoSwitch \/ HaltForever
    \/ \E next \in Procs : Switch(next)
    \/ Load \/ ReturnToUser

Spec == Init /\ [][Next]_vars

-----------------------------------------------------------------------------
(* Properties.                                                             *)

Value == (Procs \cup {NOBODY}) \X (0 .. 3)
InCode == InHandler \cup Tails \cup {"user", "svc_result"}
InSwitch == {"swap_ttbr0", "tlbiall", "iciallu", "load_usr", "load_svc"}
StackPointers == (Procs \cup {NOBODY}) \X Nat

\* Types of the register, stack and translation state; stack depths stay
\* non-negative: no exit path pops what its entry did not push.
TypeOK ==
    /\ at \in InCode \cup InSwitch
    /\ current \in Procs
    /\ reg \in [RegNames -> Value]
    /\ sp \in StackPointers
    /\ DOMAIN kstack = Procs
    /\ \A p \in Procs : ctx[p].sp_svc \in StackPointers
    /\ ttbr0 \in Procs \cup {NOBODY}
    /\ tlb \subseteq Procs /\ icache \subseteq Procs /\ retired \subseteq Procs
    /\ view \in [Procs -> [RegNames -> Value]]

\* A program never sees that it was interrupted or switched out: whenever it
\* executes, every register holds what it left there, except r0 after a system
\* call, which holds that call's result.
UserContextIntact ==
    at = "user" => reg = view[current]

\* Outside context_switch the CPU translates through the current process's page
\* table and nothing of another process's user window is cached, so neither user
\* code nor a handler copying to a user buffer touches another process's memory.
AddressSpaceIsCurrent ==
    at \in InCode =>
        /\ ttbr0 = current
        /\ tlb \subseteq {current}
        /\ icache \subseteq {current}

\* A handler that was switched out inside schedule() resumes with its own locals
\* on its own stack, above its own user frame.
HandlerResumesIntact ==
    at \in {"svc", "svc_result"} =>
        /\ reg["callee"] = Locals(current)
        /\ sp = <<current, 1>>
        /\ kstack[current][1].pc = view[current]["pc"]

\* Entry and exit balance: user mode always runs above an empty kernel stack of
\* its own, and a kernel stack never holds more than the user frame and the
\* resume frame.
KernelStackBalanced ==
    /\ at = "user" => sp = <<current, 0>>
    /\ \A p \in Procs : ctx[p].sp_svc[1] = p /\ ctx[p].sp_svc[2] <= 2
    /\ sp[2] <= 2
=============================================================================
