-------------------------------- MODULE Boot --------------------------------
(***************************************************************************)
(* From reset to the first user instruction: start.S, mmu_init,            *)
(* mmu_enable, kmain, process_init_all, mmu_drop_identity and the          *)
(* load side of context_switch.  The CPU starts at physical addresses with *)
(* the MMU off, turns the MMU on under an identity map, jumps to the high  *)
(* alias, builds one page table per process, drops the identity map and    *)
(* enters process 0 in user mode, where interrupts are unmasked for the    *)
(* first time.                                                             *)
(*                                                                         *)
(* Addresses are numbers of 1 MB sections (address >> 20).  Tables are     *)
(* sampled at the sections in Sections: the layout's numbers are the real  *)
(* ones, and Sections holds the ends of every range and their neighbours.  *)
(* The hardware acts between any two steps: it may fill or evict the TLB,  *)
(* fetch into the I-cache and write back the D-cache.                      *)
(***************************************************************************)
EXTENDS Integers, FiniteSets

CONSTANTS
    NUM_PROCESSES,      \* platform.h
    USER_VIRT_BASE,     \* platform.h
    VA_KERNEL_BASE,     \* mmu.h
    Boards,             \* the boards' layouts, records with the fields below
    Sections,           \* the sampled sections
    TLB_SIZE            \* bound: translations cached at a time

VARIABLE board          \* the board the kernel was built for

RAM_BASE         == board.ram_base           \* board.h
RAM_SIZE         == board.ram_size           \* board.h
KERNEL_PHYS      == board.kernel_phys        \* linker script: LMA of the image
KERNEL_VIRT      == board.kernel_virt        \* linker script: VMA of the image
IMAGE_SIZE       == board.image_size         \* image, bss and stacks
USER_PHYS_BASE   == board.user_phys_base     \* board.h
USER_PHYS_STRIDE == board.user_phys_stride   \* board.h
PERIPHERALS      == board.peripherals        \* periph_map.c: <<first, count>>
DEVICES          == board.devices            \* board.h: registers in use

PGD_ENTRIES == 4096

Procs  == 0 .. NUM_PROCESSES - 1
Tables == 0 .. NUM_PROCESSES            \* boot_pgd is the last one
BOOT_PGD == NUM_PROCESSES

PHYS_OFFSET == VA_KERNEL_BASE - RAM_BASE

Identity     == RAM_BASE .. RAM_BASE + RAM_SIZE - 1
ImagePhys    == KERNEL_PHYS .. KERNEL_PHYS + IMAGE_SIZE - 1
ImageVirt    == KERNEL_VIRT .. KERNEL_VIRT + IMAGE_SIZE - 1
UserPhys(p)  == USER_PHYS_BASE + p * USER_PHYS_STRIDE
UserSections == {UserPhys(p) : p \in Procs}

ASSUME ConstantsAssumption ==
    /\ NUM_PROCESSES \in Nat \ {0}
    /\ USER_VIRT_BASE \in Nat \ {0} /\ VA_KERNEL_BASE \in Nat
    /\ {0, USER_VIRT_BASE} \subseteq Sections
    /\ Sections \subseteq 0 .. PGD_ENTRIES - 1

\* Two ranges of sections, given by first section and length, do not meet.
Apart(x, m, y, n) == x + m <= y \/ y + n <= x

\* What board.h, periph_map.c and the linker script of a board have to agree on:
\* the image and the user slots lie in RAM one behind the other, and RAM, its
\* alias, the peripherals, the user window and section 0 do not meet.
ASSUME BoardsAssumption ==
    \A b \in Boards :
        /\ {b.ram_base, b.ram_size, b.kernel_phys, b.kernel_virt, b.image_size,
            b.user_phys_base, b.user_phys_stride} \subseteq Nat \ {0}
        /\ b.kernel_virt - b.kernel_phys = VA_KERNEL_BASE - b.ram_base
        /\ b.ram_base <= b.kernel_phys
        /\ b.kernel_phys + b.image_size <= b.user_phys_base
        /\ b.user_phys_base + NUM_PROCESSES * b.user_phys_stride
               <= b.ram_base + b.ram_size
        /\ b.ram_base + b.ram_size <= VA_KERNEL_BASE
        /\ VA_KERNEL_BASE + b.ram_size <= PGD_ENTRIES
        /\ Apart(USER_VIRT_BASE, 1, b.ram_base, b.ram_size)
        /\ Apart(USER_VIRT_BASE, 1, VA_KERNEL_BASE, b.ram_size)
        /\ \A r \in b.peripherals :
              /\ r[1] \in Nat \ {0} /\ r[2] \in Nat /\ r[1] + r[2] <= PGD_ENTRIES
              /\ Apart(r[1], r[2], b.ram_base, b.ram_size)
              /\ Apart(r[1], r[2], VA_KERNEL_BASE, b.ram_size)
              /\ Apart(r[1], r[2], USER_VIRT_BASE, 1)
        /\ \A d \in b.devices :
              \E r \in b.peripherals : r[1] <= d /\ d < r[1] + r[2]

\* The sampled sections include the ones the boot path runs in and writes to.
ASSUME SectionsAssumption ==
    \A b \in Boards :
        /\ b.devices \subseteq Sections
        /\ b.kernel_phys .. b.kernel_phys + b.image_size - 1 \subseteq Sections
        /\ b.kernel_virt .. b.kernel_virt + b.image_size - 1 \subseteq Sections
        /\ \A p \in Procs :
              b.user_phys_base + p * b.user_phys_stride + VA_KERNEL_BASE - b.ram_base
                  \in Sections

Fault == [pa |-> 0, attr |-> "fault"]
Desc(pa, attr) == [pa |-> pa, attr |-> attr]
Descriptors == [pa : 0 .. PGD_ENTRIES - 1,
                attr : {"fault", "kernel", "device", "user"}]

Empty == [s \in Sections |-> Fault]

\* What RAM may hold in a table before the BSS is cleared.
Stray == [s \in Sections |-> IF s \in {0, USER_VIRT_BASE}
                                 THEN Desc(RAM_BASE, "user") ELSE Fault]

Modes == {"FIQ", "IRQ", "ABT", "UND", "SVC"}
Lines == {"IRQ_TIMER", "IRQ_UART0"}

VARIABLES
    pc,          \* the next step of the boot path
    mode,        \* "SVC" or "USR"
    masked,      \* CPSR.I
    view,        \* the PC is a physical ("PA") or a virtual ("VA") address
    stacks,      \* per mode: the stack pointer is "none", "PA" or "VA"
    mmu,         \* SCTLR.M (with C, I and Z)
    ttbr0,       \* the table the MMU walks
    tlb,         \* cached translations: a set of <<section, descriptor>>
    pgd,         \* boot_pgd and proc_pgd
    mem,         \* per user section: what RAM holds
    dcache,      \* per user section: what a dirty D-cache line holds
    icache,      \* per user section: what a fetched I-cache line holds
    vbar,        \* exception_init has set the vector base
    irq_table,   \* lines with a registered handler
    enabled,     \* lines unmasked in the interrupt controller
    tickHandler, \* user_handler of timer_core.c is scheduler_tick
    proc,        \* loop index of process_init_all
    ready        \* processes whose PCB and initial frame are built

cpuVars   == <<board, mode, masked, view, stacks>>
mmuVars   == <<mmu, ttbr0, tlb, pgd>>
cacheVars == <<mem, dcache, icache>>
irqVars   == <<vbar, irq_table, enabled, tickHandler>>
procVars  == <<proc, ready>>
vars == <<pc, cpuVars, mmuVars, cacheVars, irqVars, procVars>>

Step(from, to) == pc = from /\ pc' = to

-----------------------------------------------------------------------------
(* Translation *)

\* What an access to section s may resolve to: a cached translation or the
\* table's entry.
Outcomes(s) == {e[2] : e \in {t \in tlb : t[1] = s}} \cup {pgd[ttbr0][s]}

InRange(s, base, n) == (s - base) % PGD_ENTRIES < n

pgtable_map_range(t, va, pa, n, attr) ==
    [s \in Sections |->
        IF InRange(s, va, n)
            THEN Desc((pa + s - va) % PGD_ENTRIES, attr) ELSE t[s]]

platform_map_peripherals(t) ==
    [s \in Sections |->
        IF \E r \in PERIPHERALS : InRange(s, r[1], r[2])
            THEN Desc(s, "device") ELSE t[s]]

mmu_build_boot_pgd(t) ==
    platform_map_peripherals(
        pgtable_map_range(
            pgtable_map_range(t, RAM_BASE, RAM_BASE, RAM_SIZE, "kernel"),
            VA_KERNEL_BASE, RAM_BASE, RAM_SIZE, "kernel"))

pgtable_build_for_proc(boot, user_pa) ==
    [s \in Sections |->
        IF s = USER_VIRT_BASE THEN Desc(user_pa, "user")
        ELSE IF s \in Identity THEN Fault
        ELSE boot[s]]

-----------------------------------------------------------------------------
(***************************************************************************)
(* Reset: everything the previous boot stage leaves behind is arbitrary    *)
(* (RAM, the TLB); the MMU is off.                                         *)
(***************************************************************************)
Init ==
    /\ board \in Boards
    /\ pc = "_start" /\ mode = "SVC" /\ masked \in BOOLEAN /\ view = "PA"
    /\ stacks = [m \in Modes |-> "none"]
    /\ mmu = FALSE /\ ttbr0 = BOOT_PGD
    /\ tlb \in {{}, {<<KERNEL_PHYS, Desc(0, "kernel")>>},
                    {<<KERNEL_VIRT, Desc(0, "kernel")>>}}
    /\ \E t \in {Empty, Stray} : pgd = [k \in Tables |-> t]
    /\ mem = [s \in UserSections |-> "junk"]
    /\ dcache = [s \in UserSections |-> "none"]
    /\ icache = [s \in UserSections |-> "none"]
    /\ vbar = FALSE /\ irq_table = {} /\ enabled = {} /\ tickHandler = FALSE
    /\ proc = 0 /\ ready = {}

-----------------------------------------------------------------------------
(* start.S, at physical addresses *)

Reset ==
    /\ Step("_start", "zero_bss")
    /\ masked' = TRUE
    /\ mode' = "SVC"
    /\ stacks' = [stacks EXCEPT !["SVC"] = "PA"]
    /\ UNCHANGED <<board, view, mmuVars, cacheVars, irqVars, procVars>>

ZeroBss_Skip ==
    /\ Step("zero_bss", "mmu_init")
    /\ UNCHANGED <<cpuVars, mmuVars, cacheVars, irqVars, procVars>>

\* boot_pgd and proc_pgd lie in .bss.
ZeroBss ==
    /\ Step("zero_bss", "mmu_init")
    /\ pgd' = [k \in Tables |-> Empty]
    /\ UNCHANGED <<cpuVars, mmu, ttbr0, tlb, cacheVars, irqVars, procVars>>

mmu_init ==
    /\ Step("mmu_init", "mmu_enable")
    /\ pgd' = [pgd EXCEPT ![BOOT_PGD] = mmu_build_boot_pgd(@)]
    /\ UNCHANGED <<cpuVars, mmu, ttbr0, tlb, cacheVars, irqVars, procVars>>

mmu_enable_NoTlbi ==
    /\ Step("mmu_enable", "trampoline")
    /\ icache' = [s \in UserSections |-> "none"]
    /\ ttbr0' = BOOT_PGD
    /\ mmu' = TRUE
    /\ UNCHANGED <<cpuVars, tlb, pgd, mem, dcache, irqVars, procVars>>

\* ICIALLU, TTBR0, TLBIALL, then one SCTLR write; the MMU walks nothing
\* before that write, so the sequence is one step.
mmu_enable ==
    /\ Step("mmu_enable", "trampoline")
    /\ icache' = [s \in UserSections |-> "none"]
    /\ ttbr0' = BOOT_PGD
    /\ tlb' = {}
    /\ mmu' = TRUE
    /\ UNCHANGED <<cpuVars, pgd, mem, dcache, irqVars, procVars>>

\* The return from mmu_init on the physical stack, then ldr pc, =_start_va.
Trampoline ==
    /\ Step("trampoline", "_start_va")
    /\ view' = "VA"
    /\ UNCHANGED <<board, mode, masked, stacks, mmuVars, cacheVars, irqVars,
                   procVars>>

SetStacks_NotIrq ==
    /\ Step("_start_va", "platform_init_devices")
    /\ stacks' = [m \in Modes |-> IF m = "IRQ" THEN "none" ELSE "VA"]
    /\ UNCHANGED <<board, mode, masked, view, mmuVars, cacheVars, irqVars, procVars>>

SetStacks ==
    /\ Step("_start_va", "platform_init_devices")
    /\ stacks' = [m \in Modes |-> "VA"]
    /\ UNCHANGED <<board, mode, masked, view, mmuVars, cacheVars, irqVars, procVars>>

-----------------------------------------------------------------------------
(* kmain, at virtual addresses *)

\* platform_init_devices and uart_init: device registers only.
InitDevices ==
    /\ Step("platform_init_devices", "exception_init")
    /\ UNCHANGED <<cpuVars, mmuVars, cacheVars, irqVars, procVars>>

exception_init ==
    /\ Step("exception_init", "irq_init")
    /\ vbar' = TRUE
    /\ UNCHANGED <<cpuVars, mmuVars, cacheVars, irq_table, enabled,
                   tickHandler, procVars>>

\* Clears the handler table and masks every line in the controller; the
\* timer is started next, its line still masked.
irq_init ==
    /\ Step("irq_init", "irq_register")
    /\ irq_table' = {}
    /\ enabled' = {}
    /\ UNCHANGED <<cpuVars, mmuVars, cacheVars, vbar, tickHandler, procVars>>

RegisterLines ==
    /\ Step("irq_register", "process_init_all")
    /\ irq_table' = irq_table \cup Lines
    /\ enabled' = enabled \cup Lines
    /\ UNCHANGED <<cpuVars, mmuVars, cacheVars, vbar, tickHandler, procVars>>

-----------------------------------------------------------------------------
(* process_init_all, one process per turn of the loop *)

\* Physical sections a kernel write to virtual section s reaches.
Reached(s) == {d.pa : d \in {o \in Outcomes(s) : o.attr # "fault"}}

LoadImage_OffByOne ==
    /\ proc <= NUM_PROCESSES
    /\ Step("process_init_all", "icache_sync")
    /\ dcache' = [s \in UserSections |->
                    IF s \in Reached(UserPhys(proc) + PHYS_OFFSET)
                        THEN "image" ELSE dcache[s]]
    /\ UNCHANGED <<cpuVars, mmuVars, mem, icache, irqVars, procVars>>

\* kmemset and kmemcpy through the high alias: the bytes stay in the D-cache.
LoadImage ==
    /\ proc < NUM_PROCESSES
    /\ Step("process_init_all", "icache_sync")
    /\ dcache' = [s \in UserSections |->
                    IF s \in Reached(UserPhys(proc) + PHYS_OFFSET)
                        THEN "image" ELSE dcache[s]]
    /\ UNCHANGED <<cpuVars, mmuVars, mem, icache, irqVars, procVars>>

icache_sync_NoClean ==
    /\ Step("icache_sync", "build_pgd")
    /\ icache' = [s \in UserSections |-> "none"]
    /\ UNCHANGED <<cpuVars, mmuVars, mem, dcache, irqVars, procVars>>

icache_sync ==
    /\ Step("icache_sync", "build_pgd")
    /\ LET clean == Reached(UserPhys(proc) + PHYS_OFFSET)
       IN  /\ mem' = [s \in UserSections |->
                        IF s \in clean /\ dcache[s] # "none"
                            THEN dcache[s] ELSE mem[s]]
           /\ dcache' = [s \in UserSections |->
                            IF s \in clean THEN "none" ELSE dcache[s]]
    /\ icache' = [s \in UserSections |-> "none"]
    /\ UNCHANGED <<cpuVars, mmuVars, irqVars, procVars>>

\* pgtable_build_for_proc and process_build_initial_frame.
BuildProcess ==
    /\ Step("build_pgd", "process_init_all")
    /\ pgd' = [pgd EXCEPT ![proc] =
                    pgtable_build_for_proc(pgd[BOOT_PGD], UserPhys(proc))]
    /\ ready' = ready \cup {proc}
    /\ proc' = proc + 1
    /\ UNCHANGED <<cpuVars, mmu, ttbr0, tlb, cacheVars, irqVars>>

AllBuilt ==
    /\ proc = NUM_PROCESSES
    /\ Step("process_init_all", "mmu_drop_identity")
    /\ UNCHANGED <<cpuVars, mmuVars, cacheVars, irqVars, procVars>>

-----------------------------------------------------------------------------
(* The end of kmain and the first entry into user mode *)

\* The table walker sees the entries as soon as they are stored: the stores are
\* taken to be coherent with it, though no barrier stands between them and the
\* flush.
mmu_drop_identity ==
    /\ Step("mmu_drop_identity", "tlbiall")
    /\ pgd' = [pgd EXCEPT ![BOOT_PGD] =
                    [s \in Sections |-> IF s \in Identity THEN Fault
                                                          ELSE @[s]]]
    /\ UNCHANGED <<cpuVars, mmu, ttbr0, tlb, cacheVars, irqVars, procVars>>

FlushTlb_Skip ==
    /\ Step("tlbiall", "timer_set_handler")
    /\ UNCHANGED <<cpuVars, mmuVars, cacheVars, irqVars, procVars>>

FlushTlb ==
    /\ Step("tlbiall", "timer_set_handler")
    /\ tlb' = {}
    /\ UNCHANGED <<cpuVars, mmu, ttbr0, pgd, cacheVars, irqVars, procVars>>

timer_set_handler ==
    /\ Step("timer_set_handler", "process_first_run")
    /\ tickHandler' = TRUE
    /\ UNCHANGED <<cpuVars, mmuVars, cacheVars, vbar, irq_table, enabled,
                   procVars>>

\* context_switch with no previous process: TTBR0 first, then the flushes.
process_first_run ==
    /\ Step("process_first_run", "switch_flush")
    /\ ttbr0' = 0
    /\ UNCHANGED <<cpuVars, mmu, tlb, pgd, cacheVars, irqVars, procVars>>

SwitchFlush ==
    /\ Step("switch_flush", "ret_from_first_entry")
    /\ tlb' = {}
    /\ icache' = [s \in UserSections |-> "none"]
    /\ UNCHANGED <<cpuVars, mmu, ttbr0, pgd, mem, dcache, irqVars, procVars>>

\* rfefd: user mode with CPSR.I clear, in one instruction.
ret_from_first_entry ==
    /\ Step("ret_from_first_entry", "user")
    /\ mode' = "USR"
    /\ masked' = FALSE
    /\ UNCHANGED <<board, view, stacks, mmuVars, cacheVars, irqVars, procVars>>

-----------------------------------------------------------------------------
(* Hardware, once the MMU and the caches are on *)

TlbFill ==
    /\ mmu
    /\ Cardinality(tlb) < TLB_SIZE
    /\ \E s \in Sections :
         /\ pgd[ttbr0][s].attr # "fault"
         /\ tlb' = tlb \cup {<<s, pgd[ttbr0][s]>>}
    /\ UNCHANGED <<pc, cpuVars, mmu, ttbr0, pgd, cacheVars, irqVars, procVars>>

TlbEvict ==
    /\ \E e \in tlb : tlb' = tlb \ {e}
    /\ UNCHANGED <<pc, cpuVars, mmu, ttbr0, pgd, cacheVars, irqVars, procVars>>

\* Instruction fetches read RAM past the D-cache.
IcacheFill ==
    /\ mmu
    /\ \E s \in UserSections :
         icache[s] = "none" /\ icache' = [icache EXCEPT ![s] = mem[s]]
    /\ UNCHANGED <<pc, cpuVars, mmuVars, mem, dcache, irqVars, procVars>>

DcacheWriteBack ==
    /\ \E s \in UserSections :
         /\ dcache[s] # "none"
         /\ mem' = [mem EXCEPT ![s] = dcache[s]]
         /\ dcache' = [dcache EXCEPT ![s] = "none"]
    /\ UNCHANGED <<pc, cpuVars, mmuVars, icache, irqVars, procVars>>

Boot ==
    \/ Reset \/ ZeroBss \/ mmu_init \/ mmu_enable \/ Trampoline \/ SetStacks
    \/ InitDevices \/ exception_init \/ irq_init \/ RegisterLines
    \/ LoadImage \/ icache_sync \/ BuildProcess \/ AllBuilt
    \/ mmu_drop_identity \/ FlushTlb \/ timer_set_handler
    \/ process_first_run \/ SwitchFlush \/ ret_from_first_entry

Hardware == TlbFill \/ TlbEvict \/ IcacheFill \/ DcacheWriteBack

Next == Boot \/ Hardware

Spec == Init /\ [][Next]_vars

-----------------------------------------------------------------------------
(* Properties *)

\* Types of the boot state: tables hold section descriptors, the loop index of
\* process_init_all stays within the process table.
TypeOK ==
    /\ board \in Boards
    /\ mode \in {"SVC", "USR"} /\ masked \in BOOLEAN
    /\ view \in {"PA", "VA"} /\ stacks \in [Modes -> {"none", "PA", "VA"}]
    /\ mmu \in BOOLEAN /\ ttbr0 \in Tables
    /\ tlb \subseteq Sections \X Descriptors
    /\ pgd \in [Tables -> [Sections -> Descriptors]]
    /\ mem \in [UserSections -> {"junk", "image"}]
    /\ dcache \in [UserSections -> {"none", "image"}]
    /\ icache \in [UserSections -> {"none", "junk", "image"}]
    /\ vbar \in BOOLEAN /\ tickHandler \in BOOLEAN
    /\ irq_table \subseteq Lines /\ enabled \subseteq Lines
    /\ proc \in 0 .. NUM_PROCESSES /\ ready \subseteq Procs

Window(v) == IF v = "PA" THEN ImagePhys ELSE ImageVirt

\* The kernel section behind the k-th section of the image as seen through v.
Backing(v, s) == IF v = "PA" THEN s ELSE s - PHYS_OFFSET

Executes(v) ==
    \A s \in Window(v) : Outcomes(s) = {Desc(Backing(v, s), "kernel")}

DevicesMapped ==
    \A s \in DEVICES :
        /\ Outcomes(s) = {Desc(s, "device")}
        /\ \A p \in ready : pgd[p][s] = Desc(s, "device")

\* From the SCTLR write on, whatever the TLB holds, the next instruction and
\* the SVC stack resolve to the kernel image itself, at physical addresses up
\* to the trampoline of start.S and at virtual ones after it, across the drop
\* of the identity map and the switch to the first process's table; and the
\* device registers that kmain, the drivers and the handlers use resolve to the
\* devices from kmain on, in the boot table and in every process's.
ExecutionMapped ==
    /\ mmu /\ mode = "SVC" => Executes(view) /\ Executes(stacks["SVC"])
    /\ view = "VA" => DevicesMapped

\* Once mmu_drop_identity has returned, no physical RAM address resolves any
\* more, through a table or through a translation left in the TLB.
IdentityGone ==
    pc \in {"timer_set_handler", "process_first_run", "switch_flush",
            "ret_from_first_entry", "user"} =>
        \A s \in Sections \cap Identity :
            /\ Outcomes(s) = {Fault}
            /\ \A k \in Tables : pgd[k][s] = Fault

\* A process's table gives user code one section, its own slot, which it
\* shares with no other process and not with the kernel; NULL faults; every
\* other mapping is the kernel's alias or a device.
UserIsolated ==
    \A p \in ready :
        /\ \A s \in Sections :
             pgd[p][s].attr = "user" <=> s = USER_VIRT_BASE
        /\ pgd[p][USER_VIRT_BASE].pa \notin ImagePhys
        /\ pgd[p][0] = Fault
        /\ \A q \in ready \ {p} :
             pgd[p][USER_VIRT_BASE].pa # pgd[q][USER_VIRT_BASE].pa

\* A fetch from user section s sees the program that process_init_all copied.
FetchSees(s) == IF icache[s] = "none" THEN mem[s] ELSE icache[s]

\* Whichever process runs first after boot, its first instruction fetch gets
\* the copied program and not what RAM held before, although the copy went
\* through the D-cache.
UserCodeVisible ==
    pc = "user" =>
        \A p \in Procs : FetchSees(pgd[p][USER_VIRT_BASE].pa) = "image"

\* Interrupts are unmasked only in user mode with every piece of the interrupt
\* path in place: vectors, the stacks of the stubs, a handler for every enabled
\* line, both lines enabled, the scheduler's tick, and every PCB that
\* schedule() may pick.
InterruptsReady ==
    ~masked /\ pc # "_start" =>
        /\ mode = "USR" /\ vbar /\ tickHandler
        /\ \A m \in Modes : stacks[m] = "VA"
        /\ enabled = Lines /\ enabled \subseteq irq_table
        /\ ready = Procs
=============================================================================
