------------------------- MODULE ContextSwitchProofs -------------------------
(***************************************************************************)
(* For every number of processes: registers, kernel stacks and address     *)
(* spaces survive every interleaving of interrupts, system calls, faults   *)
(* and switches.  The invariant says of every process what it needs to be  *)
(* resumed: its user frame at the bottom of its kernel stack, the frame of *)
(* context_switch above it, and its banked registers in its PCB.           *)
(***************************************************************************)
EXTENDS ContextSwitch, SequenceTheorems, TLAPS

\* Where the frame that context_switch pushed may return to.
ReturnPoints == {"irq_tail", "svc", "svc_tail", "fault"}

Frames == [r0 : Value, caller : Value, callee : Value, pc : Value,
           ret : ReturnPoints \cup {"user"}]

\* TypeOK, with the types of what is on the stacks and in the PCBs.
Types ==
    /\ TypeOK
    /\ kstack \in [Procs -> Seq(Frames)]
    /\ ctx \in [Procs -> [sp_svc : StackPointers, sp_usr : Value, lr_usr : Value]]

\* The frame of exception entry holds p's registers; while the result of a
\* system call is still pending, r0 is the one that will be stored.
FrameFits(p, pending) ==
    /\ Len(kstack[p]) >= 1
    /\ kstack[p][1].caller = view[p]["caller"]
    /\ kstack[p][1].callee = view[p]["callee"]
    /\ kstack[p][1].pc = view[p]["pc"]
    /\ view[p]["r0"] = IF pending THEN <<p, 2>> ELSE kstack[p][1].r0

\* The banked registers are those of the current process.
BankedFits ==
    /\ reg["sp_usr"] = view[current]["sp_usr"]
    /\ reg["lr_usr"] = view[current]["lr_usr"]

\* The frame context_switch pushed leads p back into its handler.
ResumeFits(p) ==
    /\ Len(kstack[p]) >= 2
    /\ kstack[p][2].ret \in {"irq_tail", "svc", "svc_tail"}
    /\ kstack[p][2].ret = "svc" => kstack[p][2].callee = Locals(p)

\* p is off the CPU and can be resumed.
Resumable(p) ==
    /\ ctx[p].sp_svc = <<p, 2>>
    /\ ctx[p].sp_usr = view[p]["sp_usr"] /\ ctx[p].lr_usr = view[p]["lr_usr"]
    /\ ResumeFits(p)
    /\ FrameFits(p, kstack[p][2].ret = "svc")

InCall == {"irq", "svc", "svc_result"} \cup Tails

\* The process on the CPU.
OnCpu ==
    /\ at = "user" => sp = <<current, 0>> /\ reg = view[current]
    /\ at \in InCall =>
          sp = <<current, 1>> /\ FrameFits(current, at = "svc") /\ BankedFits
    /\ at \in {"svc", "svc_result"} => reg["callee"] = Locals(current)
    /\ at = "fault" => sp = <<current, 0>>
    /\ at \in InSwitch => Resumable(current)
    /\ at = "load_svc" => BankedFits
    /\ current \in retired <=> at = "fault"

\* The other processes, unless a fault retired them.
OffCpu == \A p \in Procs : p # current /\ p \notin retired => Resumable(p)

\* Stack pointers stay on their stacks.
Depths ==
    /\ sp[2] <= 2
    /\ \A p \in Procs : ctx[p].sp_svc \in {<<p, 1>>, <<p, 2>>}

\* Inside context_switch the translation state becomes the next process's step by
\* step.
Translations ==
    /\ at \notin {"swap_ttbr0"} => ttbr0 = current
    /\ at \notin {"swap_ttbr0", "tlbiall"} => tlb \subseteq {current}
    /\ at \notin {"swap_ttbr0", "tlbiall", "iciallu"} => icache \subseteq {current}

IndInv == Types /\ OnCpu /\ OffCpu /\ Depths /\ Translations
-----------------------------------------------------------------------------
(* Facts about values, frames and stacks.                                  *)

\* The values registers can hold.
LEMMA Values ==
    /\ Junk \in Value
    /\ \A p \in Procs : Locals(p) \in Value
    /\ \A p \in Procs : <<p, 0>> \in Value /\ <<p, 1>> \in Value /\ <<p, 2>> \in Value
BY DEF Junk, Locals, Value

\* Frames built from a register file.
LEMMA FrameTypes ==
    ASSUME NEW r \in [RegNames -> Value], NEW point \in ReturnPoints
    PROVE  UserFrame(r) \in Frames /\ ResumeFrame(r, point) \in Frames
<1>1. r["r0"] \in Value /\ r["caller"] \in Value /\ r["callee"] \in Value /\ r["pc"] \in Value
  BY DEF RegNames
<1>2. UserFrame(r) \in Frames
  BY <1>1 DEF UserFrame, Frames
<1>3. ResumeFrame(r, point) \in Frames
  BY <1>1, Values DEF ResumeFrame, Frames
<1> QED
  BY <1>2, <1>3

\* A push on the kernel stack that SP_svc points into: what lies above the
\* pointer is gone, what lies below it stays, and so do all other stacks.
LEMMA PushedStack ==
    ASSUME Types, NEW f \in Frames, NEW c \in Procs, sp[1] = c,
           sp[2] \in 0 .. Len(kstack[c])
    PROVE  /\ Pushed(f) \in [Procs -> Seq(Frames)]
           /\ \A p \in Procs : p # c => Pushed(f)[p] = kstack[p]
           /\ Len(Pushed(f)[c]) = sp[2] + 1
           /\ Pushed(f)[c][sp[2] + 1] = f
           /\ \A i \in 1 .. sp[2] : Pushed(f)[c][i] = kstack[c][i]
<1> DEFINE base == SubSeq(kstack[c], 1, sp[2])
<1>1. kstack \in [Procs -> Seq(Frames)] /\ kstack[c] \in Seq(Frames)
  BY DEF Types
<1>2. \A i \in 1 .. sp[2] : kstack[c][i] \in Frames
  BY <1>1, ElementOfSeq
<1>3. /\ base \in Seq(Frames) /\ Len(base) = sp[2]
      /\ \A i \in 1 .. sp[2] : base[i] = kstack[c][i]
  <2>1. sp[2] \in Int /\ 1 \in Int
    OBVIOUS
  <2> QED
    BY <1>2, <2>1, SubSeqProperties
<1>4. /\ Append(base, f) \in Seq(Frames)
      /\ Len(Append(base, f)) = sp[2] + 1
      /\ \A i \in 1 .. sp[2] : Append(base, f)[i] = base[i]
      /\ Append(base, f)[sp[2] + 1] = f
  BY <1>3, AppendProperties
<1>5. Pushed(f) = [kstack EXCEPT ![c] = Append(base, f)]
  BY DEF Pushed
<1> HIDE DEF base
<1> QED
  BY <1>1, <1>3, <1>4, <1>5

-----------------------------------------------------------------------------
(* The initial state.                                                      *)

\* The frames process_init_all builds are the ones a switch expects.
LEMMA InitInv == Init => IndInv
<1> SUFFICES ASSUME Init PROVE IndInv
  OBVIOUS
<1>1. 0 \in Procs
  BY ProcessesAssumption DEF Procs
<1>2. \A p \in Procs : Fresh(p) \in [RegNames -> Value]
  BY Values DEF Fresh
<1>3. \A p \in Procs : /\ InitialStack(p) \in Seq(Frames) /\ Len(InitialStack(p)) = 2
                       /\ InitialStack(p)[1] = UserFrame(Fresh(p))
                       /\ InitialStack(p)[2] = ResumeFrame(Fresh(p), "irq_tail")
  BY <1>2, FrameTypes DEF InitialStack, ReturnPoints
<1>4. Types
  BY <1>1, <1>2, <1>3, Values
  DEF Init, Types, TypeOK, InCode, InSwitch, StackPointers, NOBODY
<1>5. ASSUME NEW p \in Procs PROVE Resumable(p)
  <2>1. \A r \in RegNames : Fresh(p)[r] = <<p, 0>>
    BY DEF Fresh
  <2>2. /\ kstack[p] = InitialStack(p) /\ view[p] = Fresh(p)
        /\ ctx[p].sp_svc = <<p, 2>> /\ ctx[p].sp_usr = <<p, 0>> /\ ctx[p].lr_usr = <<p, 0>>
    BY DEF Init
  <2>3. /\ Len(kstack[p]) = 2 /\ kstack[p][1] = UserFrame(Fresh(p))
        /\ kstack[p][2] = ResumeFrame(Fresh(p), "irq_tail")
    BY <1>3, <2>2
  <2>4. ResumeFits(p) /\ kstack[p][2].ret = "irq_tail"
    BY <2>3 DEF ResumeFits, ResumeFrame
  <2>5. FrameFits(p, FALSE)
    BY <2>1, <2>2, <2>3 DEF FrameFits, UserFrame, RegNames
  <2> QED
    BY <2>1, <2>2, <2>4, <2>5 DEF Resumable, FrameFits, RegNames
<1>6. OnCpu
  BY <1>1, <1>5 DEF Init, OnCpu, InCall, Tails
<1>7. OffCpu
  BY <1>5 DEF OffCpu
<1>8. Depths
  BY DEF Init, Depths
<1>9. Translations
  BY DEF Init, Translations
<1> QED
  BY <1>4, <1>6, <1>7, <1>8, <1>9 DEF IndInv

-----------------------------------------------------------------------------
(* Steps that leave the stacks alone.                                      *)

\* User code changes its own registers and nothing else.
LEMMA UserStepInv == ASSUME IndInv, UserStep PROVE IndInv'
<1> USE DEF IndInv
<1>1. PICK tag \in {0, 1} :
         /\ reg' = [r \in RegNames |-> <<current, tag>>]
         /\ view' = [view EXCEPT ![current] = [r \in RegNames |-> <<current, tag>>]]
  BY DEF UserStep
<1>2. UNCHANGED <<at, current, sp, kstack, ctx, ttbr0, tlb, icache, retired>> /\ at = "user"
  BY DEF UserStep
<1>3. current \in Procs /\ view \in [Procs -> [RegNames -> Value]]
  BY DEF Types, TypeOK
<1>4. reg' \in [RegNames -> Value]
  BY <1>1, <1>3, Values
<1>5. Types'
  BY <1>1, <1>2, <1>3, <1>4 DEF Types, TypeOK
<1>6. OnCpu'
  BY <1>1, <1>2, <1>3 DEF OnCpu, InCall, Tails, InSwitch
<1>7. OffCpu'
  BY <1>1, <1>2, <1>3 DEF OffCpu, Resumable, ResumeFits, FrameFits
<1>8. Depths' /\ Translations'
  BY <1>2 DEF Depths, Translations
<1> QED
  BY <1>5, <1>6, <1>7, <1>8

\* The hardware's fills, and the steps of context_switch on TTBR0, TLB and I-cache.
LEMMA TranslationInv ==
    ASSUME IndInv,
           TlbFill \/ IcacheFill \/ SwapTtbr0 \/ InvalidateTlb \/ InvalidateIcache
    PROVE  IndInv'
<1> USE DEF IndInv
<1>1. UNCHANGED <<current, reg, sp, kstack, ctx, retired, view>>
  BY DEF TlbFill, IcacheFill, SwapTtbr0, InvalidateTlb, InvalidateIcache
<1>2. /\ at' = at \/ (at \in InSwitch /\ at' \in InSwitch \ {"load_svc"})
      /\ at = "load_svc" <=> at' = "load_svc"
  BY DEF TlbFill, IcacheFill, SwapTtbr0, InvalidateTlb, InvalidateIcache, InSwitch
<1>3. Types'
  BY <1>1, <1>2 DEF Types, TypeOK, TlbFill, IcacheFill, SwapTtbr0, InvalidateTlb,
                    InvalidateIcache
<1>4. OnCpu'
  BY <1>1, <1>2 DEF OnCpu, InCall, Tails, InSwitch, BankedFits, Resumable, ResumeFits,
                    FrameFits
<1>5. OffCpu'
  BY <1>1 DEF OffCpu, Resumable, ResumeFits, FrameFits
<1>6. Depths'
  BY <1>1 DEF Depths
<1>7. Translations'
  BY <1>1 DEF Types, TypeOK, Translations, TlbFill, IcacheFill, SwapTtbr0,
              InvalidateTlb, InvalidateIcache
<1> QED
  BY <1>3, <1>4, <1>5, <1>6, <1>7

\* ldr of the banked user registers.
LEMMA LoadUsrInv == ASSUME IndInv, LoadUsr PROVE IndInv'
<1> USE DEF IndInv
<1>1. /\ at = "load_usr" /\ at' = "load_svc"
      /\ UNCHANGED <<current, sp, kstack, ctx, ttbr0, tlb, icache, retired, view>>
  BY DEF LoadUsr
<1>2. current \in Procs /\ Resumable(current)
  BY <1>1 DEF Types, TypeOK, OnCpu, InSwitch
<1>3. /\ reg' \in [RegNames -> Value]
      /\ reg'["sp_usr"] = ctx[current].sp_usr /\ reg'["lr_usr"] = ctx[current].lr_usr
  BY <1>2 DEF LoadUsr, Types, TypeOK, RegNames
<1>4. Types'
  BY <1>1, <1>3 DEF Types, TypeOK, InSwitch
<1>5. OnCpu'
  BY <1>1, <1>2, <1>3 DEF OnCpu, InCall, Tails, InSwitch, BankedFits, Resumable,
                          ResumeFits, FrameFits
<1>6. OffCpu'
  BY <1>1 DEF OffCpu, Resumable, ResumeFits, FrameFits
<1>7. Depths' /\ Translations'
  BY <1>1 DEF Depths, Translations
<1> QED
  BY <1>4, <1>5, <1>6, <1>7

\* pop {r4-r11, lr} and bx lr: the process is back in its handler or exit stub.
LEMMA LoadSvcInv == ASSUME IndInv, LoadSvc PROVE IndInv'
<1> USE DEF IndInv
<1> DEFINE f == kstack[current][2]
<1>1. at = "load_svc" /\ UNCHANGED <<current, kstack, ctx, ttbr0, tlb, icache, retired, view>>
  BY DEF LoadSvc
<1>2. current \in Procs /\ Resumable(current) /\ BankedFits /\ current \notin retired
  BY <1>1 DEF Types, TypeOK, OnCpu, InSwitch
<1>3. f \in Frames
  BY <1>2, ElementOfSeq DEF Types, Resumable, ResumeFits
<1>4. /\ sp' = <<current, 1>> /\ at' = f.ret
      /\ reg' = [reg EXCEPT !["callee"] = f.callee]
  BY <1>2 DEF LoadSvc, Resumable
<1>5. f.ret \in {"irq_tail", "svc", "svc_tail"} /\ f.callee \in Value
  BY <1>2, <1>3 DEF Resumable, ResumeFits, Frames
<1>6. Types'
  BY <1>1, <1>4, <1>5 DEF Types, TypeOK, InCode, InHandler, Tails, StackPointers
<1>7. OnCpu'
  <2>1. reg'["sp_usr"] = reg["sp_usr"] /\ reg'["lr_usr"] = reg["lr_usr"]
    BY <1>4 DEF Types, TypeOK, RegNames
  <2>2. BankedFits'
    BY <1>1, <1>2, <2>1 DEF BankedFits
  <2>3. FrameFits(current, at = "svc")'
    BY <1>1, <1>2, <1>4 DEF Resumable, FrameFits
  <2>4. at' = "svc" => reg'["callee"] = Locals(current)
    BY <1>2, <1>4 DEF Types, TypeOK, RegNames, Resumable, ResumeFits
  <2> QED
    BY <1>1, <1>2, <1>4, <1>5, <2>2, <2>3, <2>4 DEF OnCpu, InCall, Tails, InSwitch
<1>8. OffCpu'
  BY <1>1 DEF OffCpu, Resumable, ResumeFits, FrameFits
<1>9. Depths' /\ Translations'
  BY <1>1, <1>4, <1>5 DEF Depths, Translations
<1> QED
  BY <1>6, <1>7, <1>8, <1>9

\* The exit stub pops the frame of exception entry.
LEMMA ReturnToUserInv == ASSUME IndInv, ReturnToUser PROVE IndInv'
<1> USE DEF IndInv
<1> DEFINE f == kstack[current][1]
<1>1. /\ at \in Tails /\ at' = "user"
      /\ UNCHANGED <<current, kstack, ctx, ttbr0, tlb, icache, retired, view>>
  BY DEF ReturnToUser
<1>2. /\ current \in Procs /\ sp = <<current, 1>> /\ FrameFits(current, FALSE) /\ BankedFits
      /\ current \notin retired
  BY <1>1 DEF Types, TypeOK, OnCpu, InCall, Tails
<1>3. sp' = <<current, 0>>
  BY <1>2 DEF ReturnToUser
<1>4. /\ reg' = [reg EXCEPT !["r0"] = f.r0, !["caller"] = f.caller,
                           !["callee"] = f.callee, !["pc"] = f.pc]
  BY <1>2 DEF ReturnToUser, TopFrame
<1>5. /\ reg \in [RegNames -> Value] /\ view[current] \in [RegNames -> Value]
  BY <1>2 DEF Types, TypeOK
<1>6. reg' = view[current]
  <2>1. \A r \in RegNames : reg'[r] = view[current][r]
    BY <1>2, <1>4, <1>5 DEF RegNames, FrameFits, BankedFits
  <2>2. reg' = [r \in RegNames |-> reg'[r]]
    BY <1>4, <1>5
  <2> QED
    BY <1>5, <2>1, <2>2
<1>7. Types'
  BY <1>1, <1>2, <1>3, <1>5, <1>6 DEF Types, TypeOK, InCode, StackPointers
<1>8. OnCpu'
  BY <1>1, <1>2, <1>3, <1>6 DEF OnCpu, InCall, Tails, InSwitch
<1>9. OffCpu'
  BY <1>1 DEF OffCpu, Resumable, ResumeFits, FrameFits
<1>10. Depths' /\ Translations'
  BY <1>1, <1>3 DEF Depths, Translations, Tails
<1> QED
  BY <1>7, <1>8, <1>9, <1>10

\* schedule() keeps the current process.
LEMMA NoSwitchInv == ASSUME IndInv, NoSwitch PROVE IndInv'
<1> USE DEF IndInv
<1>1. /\ at \in {"irq", "svc_result"} /\ at' \in Tails
      /\ UNCHANGED <<current, reg, sp, kstack, ctx, ttbr0, tlb, icache, retired, view>>
  BY DEF NoSwitch, Tails
<1>2. Types'
  BY <1>1 DEF Types, TypeOK, InCode
<1>3. OnCpu'
  BY <1>1 DEF OnCpu, InCall, Tails, InSwitch, FrameFits, BankedFits
<1>4. OffCpu'
  BY <1>1 DEF OffCpu, Resumable, ResumeFits, FrameFits
<1>5. Depths' /\ Translations'
  BY <1>1 DEF Depths, Translations, Tails
<1> QED
  BY <1>2, <1>3, <1>4, <1>5

-----------------------------------------------------------------------------
(* Steps that write a kernel stack.                                        *)

\* What the registers hold in the C handler that an entry stub calls.
LEMMA HandlerRegsTypes ==
    ASSUME Types
    PROVE  /\ HandlerRegs \in [RegNames -> Value]
           /\ HandlerRegs["callee"] = Locals(current)
           /\ HandlerRegs["sp_usr"] = reg["sp_usr"] /\ HandlerRegs["lr_usr"] = reg["lr_usr"]
BY Values DEF Types, TypeOK, HandlerRegs, RegNames

\* What exception entry from user mode does to the stack of the process.
LEMMA EntryStack ==
    ASSUME IndInv, at = "user", kstack' = Pushed(UserFrame(reg)), sp' = <<sp[1], sp[2] + 1>>
    PROVE  /\ sp' = <<current, 1>>
           /\ kstack' \in [Procs -> Seq(Frames)]
           /\ \A p \in Procs : p # current => kstack'[p] = kstack[p]
           /\ Len(kstack'[current]) = 1
           /\ kstack'[current][1] = UserFrame(view[current])
<1>1. /\ current \in Procs /\ sp = <<current, 0>> /\ reg = view[current] /\ Types
      /\ reg \in [RegNames -> Value] /\ kstack[current] \in Seq(Frames)
  BY DEF IndInv, OnCpu, Types, TypeOK
<1>2. UserFrame(reg) \in Frames
  BY <1>1, FrameTypes DEF ReturnPoints
<1>3. sp[1] = current /\ sp[2] = 0 /\ sp[2] \in 0 .. Len(kstack[current])
  BY <1>1, LenProperties
<1> QED
  BY <1>1, <1>2, <1>3, PushedStack

\* SRS and the pushes of the stubs put the user context on the process's own
\* stack.
LEMMA EntryInv == ASSUME IndInv, EntryIrq \/ EntrySvc PROVE IndInv'
<1> USE DEF IndInv
<1>1. /\ at = "user" /\ kstack' = Pushed(UserFrame(reg)) /\ sp' = <<sp[1], sp[2] + 1>>
      /\ reg' = HandlerRegs /\ UNCHANGED <<current, ctx, ttbr0, tlb, icache, retired>>
      /\ at' \in {"irq", "svc"}
      /\ view' = IF at' = "svc" THEN [view EXCEPT ![current]["r0"] = <<current, 2>>] ELSE view
  BY DEF EntryIrq, EntrySvc
<1>2. /\ current \in Procs /\ current \notin retired /\ reg = view[current]
      /\ view \in [Procs -> [RegNames -> Value]]
  BY <1>1 DEF Types, TypeOK, OnCpu
<1>3. /\ sp' = <<current, 1>>
      /\ kstack' \in [Procs -> Seq(Frames)]
      /\ \A p \in Procs : p # current => kstack'[p] = kstack[p]
      /\ Len(kstack'[current]) = 1
      /\ kstack'[current][1] = UserFrame(view[current])
  BY <1>1, EntryStack
<1>4. /\ view' \in [Procs -> [RegNames -> Value]]
      /\ \A p \in Procs : p # current => view'[p] = view[p]
      /\ \A r \in RegNames \ {"r0"} : view'[current][r] = view[current][r]
      /\ view'[current]["r0"] = IF at' = "svc" THEN <<current, 2>> ELSE view[current]["r0"]
  BY <1>1, <1>2, Values DEF RegNames
<1>5. Types'
  BY <1>1, <1>2, <1>3, <1>4, HandlerRegsTypes
  DEF Types, TypeOK, InCode, InHandler, StackPointers
<1>6. OnCpu'
  <2>1. FrameFits(current, at = "svc")'
    BY <1>1, <1>2, <1>3, <1>4 DEF FrameFits, UserFrame, RegNames
  <2>2. BankedFits'
    BY <1>1, <1>2, <1>4, HandlerRegsTypes DEF BankedFits, RegNames
  <2>3. reg'["callee"] = Locals(current)
    BY <1>1, HandlerRegsTypes
  <2> QED
    BY <1>1, <1>2, <1>3, <2>1, <2>2, <2>3 DEF OnCpu, InCall, Tails, InSwitch
<1>7. OffCpu'
  BY <1>1, <1>3, <1>4 DEF OffCpu, Resumable, ResumeFits, FrameFits
<1>8. Depths' /\ Translations'
  BY <1>1, <1>3 DEF Depths, Translations
<1> QED
  BY <1>5, <1>6, <1>7, <1>8

\* An abort or undefined instruction retires the process.
LEMMA EntryFaultInv == ASSUME IndInv, EntryFault PROVE IndInv'
<1> USE DEF IndInv
<1>1. /\ at = "user" /\ at' = "fault" /\ retired' = retired \cup {current} /\ reg' = HandlerRegs
      /\ UNCHANGED <<current, sp, kstack, ctx, ttbr0, tlb, icache, view>>
  BY DEF EntryFault
<1>2. Types'
  BY <1>1, HandlerRegsTypes DEF Types, TypeOK, InCode, InHandler
<1>3. OnCpu'
  BY <1>1 DEF OnCpu, InCall, Tails, InSwitch
<1>4. OffCpu'
  BY <1>1 DEF OffCpu, Resumable, ResumeFits, FrameFits
<1>5. Depths' /\ Translations'
  BY <1>1 DEF Depths, Translations
<1> QED
  BY <1>2, <1>3, <1>4, <1>5

\* syscall_dispatch stores the result in the frame of exception entry.
LEMMA StoreResultInv == ASSUME IndInv, StoreResult PROVE IndInv'
<1> USE DEF IndInv
<1> DEFINE old == kstack[current]
           f == [old[1] EXCEPT !.r0 = <<current, 2>>]
<1>1. /\ at = "svc" /\ at' = "svc_result"
      /\ kstack' = [kstack EXCEPT ![current] = [old EXCEPT ![1] = f]]
      /\ UNCHANGED <<current, reg, sp, ctx, ttbr0, tlb, icache, retired, view>>
  BY DEF StoreResult
<1>2. /\ current \in Procs /\ FrameFits(current, TRUE) /\ old \in Seq(Frames)
      /\ kstack \in [Procs -> Seq(Frames)]
  BY <1>1 DEF Types, TypeOK, OnCpu, InCall
<1>3. 1 \in 1 .. Len(old) /\ old[1] \in Frames
  BY <1>2, ElementOfSeq, LenProperties DEF FrameFits
<1>4. /\ f \in Frames /\ f.r0 = <<current, 2>> /\ f.caller = old[1].caller
      /\ f.callee = old[1].callee /\ f.pc = old[1].pc
  BY <1>2, <1>3, Values DEF Frames
<1>5. /\ [old EXCEPT ![1] = f] \in Seq(Frames) /\ Len([old EXCEPT ![1] = f]) = Len(old)
      /\ [old EXCEPT ![1] = f][1] = f
  BY <1>2, <1>3, <1>4, ExceptSeq, SMTT(30)
<1> HIDE DEF f
<1>6. /\ kstack' \in [Procs -> Seq(Frames)]
      /\ \A p \in Procs : p # current => kstack'[p] = kstack[p]
      /\ Len(kstack'[current]) = Len(old) /\ kstack'[current][1] = f
  BY <1>1, <1>2, <1>5
<1>7. Types'
  BY <1>1, <1>6 DEF Types, TypeOK, InCode
<1>8. OnCpu'
  <2>1. FrameFits(current, FALSE)'
    BY <1>1, <1>2, <1>4, <1>6 DEF FrameFits
  <2> QED
    BY <1>1, <2>1 DEF OnCpu, InCall, Tails, InSwitch, BankedFits
<1>9. OffCpu'
  BY <1>1, <1>6 DEF OffCpu, Resumable, ResumeFits, FrameFits
<1>10. Depths' /\ Translations'
  BY <1>1 DEF Depths, Translations
<1> QED
  BY <1>7, <1>8, <1>9, <1>10

\* The save side of context_switch: the current process becomes resumable, unless
\* a fault has retired it, and a resumable one becomes the current process.
LEMMA SwitchInv ==
    ASSUME IndInv, NEW next \in Procs, Switch(next)
    PROVE  IndInv'
<1> USE DEF IndInv
<1> DEFINE f == ResumeFrame(reg, ReturnPoint[at])
<1>1. PICK c \in Procs : c = current
  BY DEF Types, TypeOK
<1>2. /\ at \in {"irq", "svc", "svc_result", "fault"} /\ at' = "swap_ttbr0"
      /\ next # c /\ next \notin retired
      /\ kstack' = Pushed(f)
      /\ ctx' = [ctx EXCEPT ![c] = [sp_svc |-> <<sp[1], sp[2] + 1>>,
                                    sp_usr |-> reg["sp_usr"], lr_usr |-> reg["lr_usr"]]]
      /\ sp' = <<sp[1], sp[2] + 1>> /\ current' = next
      /\ UNCHANGED <<reg, ttbr0, tlb, icache, retired, view>>
  BY <1>1 DEF Switch, ReturnPoint
<1>3. /\ reg \in [RegNames -> Value] /\ kstack[c] \in Seq(Frames)
      /\ kstack \in [Procs -> Seq(Frames)] /\ Types
  BY DEF Types, TypeOK
<1>4. /\ sp[1] = c /\ sp[2] \in 0 .. Len(kstack[c])
      /\ sp[2] = IF at = "fault" THEN 0 ELSE 1
  BY <1>1, <1>2, <1>3, LenProperties DEF OnCpu, InCall, FrameFits
<1>5. f \in Frames /\ ReturnPoint[at] \in ReturnPoints
  BY <1>2, <1>3, FrameTypes DEF ReturnPoint, ReturnPoints
<1>6. f.ret = ReturnPoint[at] /\ f.callee = reg["callee"]
  BY DEF ResumeFrame
<1> HIDE DEF f
<1>7. /\ kstack' \in [Procs -> Seq(Frames)]
      /\ \A p \in Procs : p # c => kstack'[p] = kstack[p]
      /\ Len(kstack'[c]) = sp[2] + 1
      /\ kstack'[c][sp[2] + 1] = f
      /\ \A i \in 1 .. sp[2] : kstack'[c][i] = kstack[c][i]
  BY <1>2, <1>3, <1>4, <1>5, PushedStack
<1>8. /\ ctx' \in [Procs -> [sp_svc : StackPointers, sp_usr : Value, lr_usr : Value]]
      /\ \A p \in Procs : p # c => ctx'[p] = ctx[p]
      /\ ctx'[c].sp_svc = <<c, sp[2] + 1>>
      /\ ctx'[c].sp_usr = reg["sp_usr"] /\ ctx'[c].lr_usr = reg["lr_usr"]
  BY <1>2, <1>3, <1>4 DEF Types, RegNames, StackPointers
<1>9. Types'
  BY <1>2, <1>3, <1>4, <1>7, <1>8, SMTT(30) DEF Types, TypeOK, InSwitch, StackPointers
<1>10. ASSUME NEW p \in Procs, p # c, p \notin retired
      PROVE  Resumable(p)'
  BY <1>1, <1>2, <1>7, <1>8, <1>10 DEF OffCpu, Resumable, ResumeFits, FrameFits
<1>11. ASSUME c \notin retired
       PROVE  Resumable(c)'
  <2>1. at \in {"irq", "svc", "svc_result"} /\ sp[2] = 1
    BY <1>1, <1>2, <1>4, <1>11 DEF OnCpu
  <2>2. FrameFits(c, at = "svc") /\ BankedFits /\ (at = "svc" => reg["callee"] = Locals(c))
    BY <1>1, <2>1 DEF OnCpu, InCall
  <2>3. Len(kstack'[c]) = 2 /\ kstack'[c][2] = f /\ kstack'[c][1] = kstack[c][1]
    BY <1>7, <2>1
  <2>4. f.ret \in {"irq_tail", "svc", "svc_tail"} /\ (f.ret = "svc" <=> at = "svc")
    BY <1>6, <2>1 DEF ReturnPoint
  <2>5. ResumeFits(c)'
    BY <1>2, <1>6, <2>2, <2>3, <2>4 DEF ResumeFits
  <2>6. FrameFits(c, kstack[c][2].ret = "svc")'
    BY <1>2, <2>2, <2>3, <2>4 DEF FrameFits
  <2>7. /\ ctx'[c].sp_svc = <<c, 2>>
        /\ ctx'[c].sp_usr = view'[c]["sp_usr"] /\ ctx'[c].lr_usr = view'[c]["lr_usr"]
    BY <1>1, <1>2, <1>8, <2>1, <2>2 DEF BankedFits
  <2> QED
    BY <2>5, <2>6, <2>7 DEF Resumable
<1>12. OnCpu'
  BY <1>1, <1>2, <1>10 DEF OnCpu, InCall, Tails, InSwitch
<1>13. OffCpu'
  <2> SUFFICES ASSUME NEW p \in Procs, p # next, p \notin retired PROVE Resumable(p)'
    BY <1>2 DEF OffCpu
  <2> QED
    BY <1>10, <1>11
<1>14. Depths' /\ Translations'
  BY <1>2, <1>4, <1>8 DEF Depths, Translations
<1> QED
  BY <1>9, <1>12, <1>13, <1>14

-----------------------------------------------------------------------------
(* The invariant, and what it says.                                        *)

\* The invariant is inductive.
LEMMA NextInv == IndInv /\ [Next]_vars => IndInv'
<1> SUFFICES ASSUME IndInv, [Next]_vars PROVE IndInv'
  OBVIOUS
<1>1. CASE UserStep
  BY <1>1, UserStepInv
<1>2. CASE TlbFill \/ IcacheFill \/ SwapTtbr0 \/ InvalidateTlb \/ InvalidateIcache
  BY <1>2, TranslationInv
<1>3. CASE Entry
  BY <1>3, EntryInv, EntryFaultInv DEF Entry
<1>4. CASE StoreResult
  BY <1>4, StoreResultInv
<1>5. CASE NoSwitch
  BY <1>5, NoSwitchInv
<1>6. CASE HaltForever \/ UNCHANGED vars
  <2>1. UNCHANGED vars
    BY <1>6 DEF HaltForever
  <2>2. Types'
    BY <2>1 DEF vars, IndInv, Types, TypeOK
  <2>3. OnCpu'
    BY <2>1 DEF vars, IndInv, OnCpu, Resumable, ResumeFits, FrameFits, BankedFits
  <2>4. OffCpu'
    BY <2>1 DEF vars, IndInv, OffCpu, Resumable, ResumeFits, FrameFits
  <2>5. Depths' /\ Translations'
    BY <2>1 DEF vars, IndInv, Depths, Translations
  <2> QED
    BY <2>2, <2>3, <2>4, <2>5 DEF IndInv
<1>7. CASE \E next \in Procs : Switch(next)
  BY <1>7, SwitchInv
<1>8. CASE LoadUsr \/ LoadSvc
  BY <1>8, LoadUsrInv, LoadSvcInv
<1>9. CASE ReturnToUser
  BY <1>9, ReturnToUserInv
<1> QED
  BY <1>1, <1>2, <1>3, <1>4, <1>5, <1>6, <1>7, <1>8, <1>9 DEF Next, Load

\* Every process off the CPU that no fault retired can be resumed, and the CPU is
\* in a consistent state at every point of the stubs and of context_switch.
THEOREM Invariance == Spec => []IndInv
BY InitInv, NextInv, PTL DEF Spec

\* Types, and stack pointers that never go below their stacks.
THEOREM TypeCorrectness == Spec => []TypeOK
<1>1. IndInv => TypeOK
  BY DEF IndInv, Types
<1> QED
  BY <1>1, Invariance, PTL

\* No program ever sees that it was interrupted, called the kernel or was switched
\* out, by whichever of the paths into context_switch it left and came back.
THEOREM ContextPreserved == Spec => []UserContextIntact
<1>1. IndInv => UserContextIntact
  BY DEF IndInv, OnCpu, UserContextIntact
<1> QED
  BY <1>1, Invariance, PTL

\* Outside context_switch no translation and no code of another process is in
\* reach, although the hardware may fill TLB and I-cache between any two
\* instructions of the swap.
THEOREM AddressSpaces == Spec => []AddressSpaceIsCurrent
<1>1. IndInv => AddressSpaceIsCurrent
  BY DEF IndInv, Translations, AddressSpaceIsCurrent, InCode, InHandler, Tails
<1> QED
  BY <1>1, Invariance, PTL

\* A system call that was switched out in the middle resumes with its own locals,
\* on its own stack, above its caller's frame.
THEOREM HandlersResume == Spec => []HandlerResumesIntact
<1>1. IndInv => HandlerResumesIntact
  BY DEF IndInv, OnCpu, InCall, FrameFits, HandlerResumesIntact
<1> QED
  BY <1>1, Invariance, PTL

\* Entries and exits balance, and two frames per process bound every kernel stack.
THEOREM StacksBalanced == Spec => []KernelStackBalanced
<1>1. IndInv => KernelStackBalanced
  <2> SUFFICES ASSUME IndInv PROVE KernelStackBalanced
    OBVIOUS
  <2>1. \A p \in Procs : ctx[p].sp_svc[1] = p /\ ctx[p].sp_svc[2] <= 2
    BY DEF IndInv, Depths
  <2> QED
    BY <2>1 DEF IndInv, OnCpu, Depths, KernelStackBalanced
<1> QED
  BY <1>1, Invariance, PTL
=============================================================================
