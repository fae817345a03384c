----------------------------- MODULE BootProofs -----------------------------
(***************************************************************************)
(* The boot path, for every board whose layout agrees with its linker      *)
(* script, every number of processes and a TLB of any size.  The invariant *)
(* follows the straight line of start.S and kmain; what makes it more than *)
(* a walk along that line is the hardware, which caches translations and   *)
(* code at any moment: Cached and Loaded say what it may have seen.        *)
(***************************************************************************)
EXTENDS Boot, TLAPS

-----------------------------------------------------------------------------
(* The invariant.                                                          *)

\* Places of the boot path: the MMU is off; the PC is a physical address; before
\* the kernel's stacks are set up; the loop of process_init_all; after it; after
\* the identity map is gone from boot_pgd; from the TLB too; in process 0's table.
Off      == {"_start", "zero_bss", "mmu_init", "mmu_enable"}
Low      == Off \cup {"trampoline"}
Stackless == Low \cup {"_start_va"}
Quiet    == Stackless \cup {"platform_init_devices", "exception_init", "irq_init",
                            "irq_register"}
Loading  == {"process_init_all", "icache_sync", "build_pgd"}
Switched == {"switch_flush", "ret_from_first_entry", "user"}
Flushed  == {"timer_set_handler", "process_first_run"} \cup Switched
Dropped  == {"tlbiall"} \cup Flushed
Built    == {"mmu_drop_identity"} \cup Dropped

Control ==
    /\ pc \in Quiet \cup Loading \cup Built
    /\ mmu <=> pc \notin Off
    /\ view = IF pc \in Low THEN "PA" ELSE "VA"
    /\ mode = IF pc = "user" THEN "USR" ELSE "SVC"
    /\ pc # "_start" => (masked <=> pc # "user")
    /\ pc \in Stackless \ {"_start"} => stacks["SVC"] = "PA"
    /\ pc \notin Stackless => \A m \in Modes : stacks[m] = "VA"
    /\ ttbr0 = IF pc \in Switched THEN 0 ELSE BOOT_PGD

Interrupting ==
    /\ pc \in {"irq_init", "irq_register"} \cup Loading \cup Built => vbar
    /\ pc \in Loading \cup Built => irq_table = Lines /\ enabled = Lines
    /\ pc \in {"process_first_run"} \cup Switched => tickHandler

Building ==
    /\ ready = 0 .. proc - 1
    /\ pc \in Quiet => proc = 0
    /\ pc \in {"icache_sync", "build_pgd"} => proc < NUM_PROCESSES
    /\ pc \in Built => proc = NUM_PROCESSES

\* boot_pgd as mmu_init leaves it, and without the identity map.
BootTable   == mmu_build_boot_pgd(Empty)
KernelTable == [s \in Sections |-> IF s \in Identity THEN Fault ELSE BootTable[s]]

ProcTable(p) == pgtable_build_for_proc(BootTable, UserPhys(p))

Mapped ==
    /\ pc = "mmu_init" => pgd[BOOT_PGD] = Empty
    /\ pc \notin {"_start", "zero_bss", "mmu_init"} =>
          pgd[BOOT_PGD] = IF pc \in Dropped THEN KernelTable ELSE BootTable
    /\ \A p \in ready : pgd[p] = ProcTable(p)

\* What the TLB may hold while the tables change under it.
Cached ==
    \A e \in tlb :
        /\ pc \notin Off => e[2].attr # "fault"
        /\ pc \notin Off \cup Flushed => e[2] = BootTable[e[1]]
        /\ pc \in Flushed \ Switched => e[2] = KernelTable[e[1]]
        /\ pc = "switch_flush" => e[2] \in {KernelTable[e[1]], ProcTable(0)[e[1]]}
        /\ pc \in Switched \ {"switch_flush"} => e[2] = ProcTable(0)[e[1]]

\* A program has reached RAM once it has been synced; until then it is in RAM or
\* in the D-cache.  A line of the I-cache is then no older than the program.
Loaded ==
    /\ pc = "icache_sync" =>
          "image" \in {mem[UserPhys(proc)], dcache[UserPhys(proc)]}
    /\ \A p \in ready \cup (IF pc = "build_pgd" THEN {proc} ELSE {}) :
          mem[UserPhys(p)] = "image" /\ icache[UserPhys(p)] # "junk"

IndInv == TypeOK /\ Control /\ Interrupting /\ Building /\ Mapped /\ Cached /\ Loaded
-----------------------------------------------------------------------------
(* The layout of a board.                                                  *)

\* Within the table, InRange is what it looks like: nothing wraps.
LEMMA InRangeExact ==
    ASSUME NEW s \in 0 .. PGD_ENTRIES - 1, NEW base \in Nat, NEW n \in Nat,
           base + n <= PGD_ENTRIES
    PROVE  InRange(s, base, n) <=> base <= s /\ s < base + n
BY DEF InRange, PGD_ENTRIES

\* The numbers of the layout that do not depend on the board.
LEMMA Numbers ==
    /\ NUM_PROCESSES \in Nat \ {0} /\ USER_VIRT_BASE \in Nat \ {0} /\ VA_KERNEL_BASE \in Nat
    /\ USER_VIRT_BASE \in Sections /\ 0 \in Sections
    /\ \A s \in Sections : s \in 0 .. PGD_ENTRIES - 1 /\ s \in Int
    /\ USER_VIRT_BASE <= PGD_ENTRIES - 1
BY ConstantsAssumption DEF PGD_ENTRIES

\* The assumptions about the board in use.
LEMMA Layout ==
    ASSUME board \in Boards
    PROVE  /\ RAM_BASE \in Nat \ {0} /\ RAM_SIZE \in Nat \ {0} /\ KERNEL_PHYS \in Nat \ {0}
           /\ KERNEL_VIRT \in Nat /\ IMAGE_SIZE \in Nat \ {0} /\ USER_PHYS_BASE \in Nat
           /\ USER_PHYS_STRIDE \in Nat \ {0}
           /\ KERNEL_VIRT - KERNEL_PHYS = VA_KERNEL_BASE - RAM_BASE
           /\ RAM_BASE <= KERNEL_PHYS /\ KERNEL_PHYS + IMAGE_SIZE <= USER_PHYS_BASE
           /\ USER_PHYS_BASE + NUM_PROCESSES * USER_PHYS_STRIDE <= RAM_BASE + RAM_SIZE
           /\ RAM_BASE + RAM_SIZE <= VA_KERNEL_BASE
           /\ VA_KERNEL_BASE + RAM_SIZE <= PGD_ENTRIES
           /\ Apart(USER_VIRT_BASE, 1, RAM_BASE, RAM_SIZE)
           /\ Apart(USER_VIRT_BASE, 1, VA_KERNEL_BASE, RAM_SIZE)
BY BoardsAssumption DEF RAM_BASE, RAM_SIZE, KERNEL_PHYS, KERNEL_VIRT, IMAGE_SIZE,
       USER_PHYS_BASE, USER_PHYS_STRIDE

\* Section s belongs to a peripheral.
Peripheral(s) == \E r \in PERIPHERALS : InRange(s, r[1], r[2])

\* A peripheral's section is neither RAM nor its alias, the user window or
\* section 0.
LEMMA PeripheralsApart ==
    ASSUME board \in Boards, NEW s \in Sections, Peripheral(s)
    PROVE  /\ s # 0 /\ s # USER_VIRT_BASE
           /\ s < RAM_BASE \/ s >= RAM_BASE + RAM_SIZE
           /\ s < VA_KERNEL_BASE \/ s >= VA_KERNEL_BASE + RAM_SIZE
<1>1. PICK r \in PERIPHERALS : InRange(s, r[1], r[2])
  BY DEF Peripheral
<1>2. /\ r[1] \in Nat \ {0} /\ r[2] \in Nat /\ r[1] + r[2] <= PGD_ENTRIES
      /\ Apart(r[1], r[2], RAM_BASE, RAM_SIZE)
      /\ Apart(r[1], r[2], VA_KERNEL_BASE, RAM_SIZE)
      /\ Apart(r[1], r[2], USER_VIRT_BASE, 1)
  BY BoardsAssumption DEF PERIPHERALS, RAM_BASE, RAM_SIZE
<1>3. r[1] <= s /\ s < r[1] + r[2]
  BY <1>1, <1>2, Numbers, InRangeExact
<1> QED
  BY <1>2, <1>3, Numbers, Layout DEF Apart

\* The registers the drivers use lie in a peripheral that is mapped.
LEMMA DevicePeripheral ==
    ASSUME board \in Boards, NEW s \in DEVICES
    PROVE  s \in Sections /\ Peripheral(s)
<1>1. s \in Sections
  BY SectionsAssumption DEF DEVICES
<1>2. PICK r \in PERIPHERALS : r[1] <= s /\ s < r[1] + r[2]
  BY BoardsAssumption DEF PERIPHERALS, DEVICES
<1>3. r[1] \in Nat /\ r[2] \in Nat /\ r[1] + r[2] <= PGD_ENTRIES
  BY BoardsAssumption DEF PERIPHERALS
<1>4. InRange(s, r[1], r[2])
  BY <1>1, <1>2, <1>3, Numbers, InRangeExact
<1> QED
  BY <1>1, <1>2, <1>4 DEF Peripheral

\* The sections of the high alias of RAM.
Alias == VA_KERNEL_BASE .. VA_KERNEL_BASE + RAM_SIZE - 1

\* The image lies in RAM and its link addresses in the alias, both sampled.
LEMMA ImageInRam ==
    ASSUME board \in Boards
    PROVE  /\ PHYS_OFFSET \in Nat /\ KERNEL_PHYS \in Sections /\ KERNEL_VIRT \in Sections
           /\ ImagePhys \subseteq Sections /\ ImageVirt \subseteq Sections
           /\ ImagePhys \subseteq Identity /\ ImageVirt \subseteq Alias
           /\ \A s \in Alias : s - PHYS_OFFSET \in Identity
<1>1. ImagePhys \subseteq Sections /\ ImageVirt \subseteq Sections
  BY SectionsAssumption DEF ImagePhys, ImageVirt, KERNEL_PHYS, KERNEL_VIRT, IMAGE_SIZE
<1>2. KERNEL_PHYS \in ImagePhys /\ KERNEL_VIRT \in ImageVirt
  BY Layout DEF ImagePhys, ImageVirt
<1>3. NUM_PROCESSES * USER_PHYS_STRIDE \in Nat
  BY Layout, Numbers
<1>4. ImagePhys \subseteq Identity /\ ImageVirt \subseteq Alias
  BY <1>3, Layout, Numbers DEF ImagePhys, ImageVirt, Identity, Alias
<1>5. PHYS_OFFSET \in Nat /\ \A s \in Alias : s - PHYS_OFFSET \in Identity
  BY Layout, Numbers DEF PHYS_OFFSET, Alias, Identity
<1> QED
  BY <1>1, <1>2, <1>4, <1>5

\* RAM has physical section numbers that a table can hold.
LEMMA RamInTable ==
    ASSUME board \in Boards
    PROVE  \A s \in Identity : s \in 0 .. PGD_ENTRIES - 1
<1>1. PGD_ENTRIES \in Nat
  BY DEF PGD_ENTRIES
<1> QED
  BY <1>1, Layout, Numbers DEF Identity

\* The slots of the processes: in RAM, behind the image, all different.
LEMMA Slots ==
    ASSUME board \in Boards, NEW p \in Procs
    PROVE  /\ UserPhys(p) \in UserSections /\ UserPhys(p) \in Identity
           /\ UserPhys(p) \in 0 .. PGD_ENTRIES - 1
           /\ UserPhys(p) \notin ImagePhys
           /\ UserPhys(p) + PHYS_OFFSET \in Alias \cap Sections
           /\ (UserPhys(p) + PHYS_OFFSET) - PHYS_OFFSET = UserPhys(p)
           /\ \A q \in Procs : UserPhys(q) = UserPhys(p) => q = p
<1> DEFINE w == USER_PHYS_STRIDE
           N == NUM_PROCESSES
<1>1. w \in Nat \ {0} /\ N \in Nat \ {0} /\ p \in Nat /\ p <= N - 1
  BY Layout, Numbers DEF Procs
<1> HIDE DEF w, N
<1>2. p * w \in Nat /\ N * w \in Nat /\ p * w <= N * w - w
  <2>1. (N - p) >= 1 /\ (N - p) * w = N * w - p * w /\ p * w \in Nat /\ N * w \in Nat
    BY <1>1
  <2>2. (N - p) * w >= w
    BY <1>1, <2>1
  <2> QED
    BY <1>1, <2>1, <2>2
<1>3. PICK d \in Nat, e \in Nat : d = p * USER_PHYS_STRIDE /\ e = NUM_PROCESSES * USER_PHYS_STRIDE
                                /\ d <= e - USER_PHYS_STRIDE
  BY <1>2 DEF w, N
<1>4. UserPhys(p) = USER_PHYS_BASE + d
  BY <1>3 DEF UserPhys
<1>5. /\ UserPhys(p) \in Identity /\ UserPhys(p) \in 0 .. PGD_ENTRIES - 1
      /\ UserPhys(p) \notin ImagePhys
      /\ UserPhys(p) + PHYS_OFFSET \in Alias
      /\ (UserPhys(p) + PHYS_OFFSET) - PHYS_OFFSET = UserPhys(p)
  <2>1. PICK u \in Nat, a \in Nat, b \in Nat, n \in Nat, k \in Nat :
           /\ u = UserPhys(p) /\ a = RAM_BASE /\ b = VA_KERNEL_BASE /\ n = RAM_SIZE
           /\ k = KERNEL_PHYS + IMAGE_SIZE /\ k <= u
           /\ a <= u /\ u < a + n /\ a + n <= b /\ b + n <= PGD_ENTRIES
    <3>1. USER_PHYS_BASE + d \in Nat /\ USER_PHYS_BASE + d < RAM_BASE + RAM_SIZE
      BY <1>3, Layout
    <3>2. RAM_BASE <= USER_PHYS_BASE + d /\ KERNEL_PHYS + IMAGE_SIZE <= USER_PHYS_BASE + d
      BY Layout
    <3>3. VA_KERNEL_BASE \in Nat /\ RAM_BASE \in Nat /\ RAM_SIZE \in Nat /\ KERNEL_PHYS + IMAGE_SIZE \in Nat
      BY Layout, Numbers
    <3> QED
      BY <1>4, <3>1, <3>2, <3>3, Layout, Zenon
  <2>2. UserPhys(p) \in Identity
    BY <2>1 DEF Identity
  <2>3. UserPhys(p) \in 0 .. PGD_ENTRIES - 1
    <3>1. PGD_ENTRIES \in Nat
      BY DEF PGD_ENTRIES
    <3>2. u < PGD_ENTRIES
      BY <2>1, <3>1
    <3> QED
      BY <2>1, <3>1, <3>2
  <2>4. UserPhys(p) \notin ImagePhys
    BY <2>1, Layout DEF ImagePhys
  <2>5. u + (b - a) \in b .. b + n - 1 /\ (u + (b - a)) - (b - a) = u
    BY <2>1
  <2> QED
    BY <2>1, <2>2, <2>3, <2>4, <2>5, Zenon DEF Alias, PHYS_OFFSET
<1>6. UserPhys(p) + PHYS_OFFSET \in Sections
  <2>1. USER_PHYS_BASE + p * USER_PHYS_STRIDE + VA_KERNEL_BASE - RAM_BASE \in Sections
    BY SectionsAssumption DEF USER_PHYS_BASE, USER_PHYS_STRIDE, RAM_BASE
  <2>2. (USER_PHYS_BASE + d) + (VA_KERNEL_BASE - RAM_BASE) = USER_PHYS_BASE + d + VA_KERNEL_BASE - RAM_BASE
    BY Layout, Numbers
  <2> QED
    BY <1>3, <1>4, <2>1, <2>2 DEF PHYS_OFFSET
<1>7. ASSUME NEW q \in Procs, UserPhys(q) = UserPhys(p) PROVE q = p
  <2>1. q \in Nat /\ q * w \in Nat
    BY <1>1, Numbers DEF Procs
  <2>2. q * w = p * w
    BY <1>2, <1>7, <2>1, Layout DEF UserPhys, w
  <2>3. (q - p) * w = 0
    BY <1>1, <2>1, <2>2
  <2>4. ASSUME q > p PROVE FALSE
    BY <1>1, <2>1, <2>3, <2>4
  <2>5. ASSUME q < p PROVE FALSE
    BY <1>1, <2>1, <2>3, <2>5
  <2> QED
    BY <1>1, <2>1, <2>4, <2>5
<1> QED
  BY <1>5, <1>6, <1>7 DEF UserSections
-----------------------------------------------------------------------------
(* The tables.                                                             *)

\* What mmu_init maps.
LEMMA BootEntries ==
    ASSUME board \in Boards, NEW s \in Sections
    PROVE  /\ Peripheral(s) => BootTable[s] = Desc(s, "device")
           /\ s \in Alias => BootTable[s] = Desc(s - PHYS_OFFSET, "kernel")
           /\ s \in Identity => BootTable[s] = Desc(s, "kernel")
           /\ ~Peripheral(s) /\ s \notin Alias /\ s \notin Identity => BootTable[s] = Fault
<1>1. s \in 0 .. PGD_ENTRIES - 1 /\ s \in Nat
  BY Numbers DEF PGD_ENTRIES
<1>2. /\ InRange(s, VA_KERNEL_BASE, RAM_SIZE) <=> s \in Alias
      /\ InRange(s, RAM_BASE, RAM_SIZE) <=> s \in Identity
  <2>1. RAM_BASE + RAM_SIZE <= PGD_ENTRIES /\ VA_KERNEL_BASE + RAM_SIZE <= PGD_ENTRIES
    <3>1. PGD_ENTRIES \in Nat
      BY DEF PGD_ENTRIES
    <3> QED
      BY <3>1, Layout, Numbers
  <2>2. /\ InRange(s, VA_KERNEL_BASE, RAM_SIZE) <=>
              VA_KERNEL_BASE <= s /\ s < VA_KERNEL_BASE + RAM_SIZE
        /\ InRange(s, RAM_BASE, RAM_SIZE) <=> RAM_BASE <= s /\ s < RAM_BASE + RAM_SIZE
    BY <1>1, <2>1, Layout, Numbers, InRangeExact
  <2> QED
    BY <1>1, <2>2, Layout, Numbers DEF Alias, Identity
<1>3. BootTable[s] =
         IF Peripheral(s) THEN Desc(s, "device")
         ELSE IF s \in Alias THEN Desc((RAM_BASE + s - VA_KERNEL_BASE) % PGD_ENTRIES, "kernel")
         ELSE IF s \in Identity THEN Desc((RAM_BASE + s - RAM_BASE) % PGD_ENTRIES, "kernel")
         ELSE Fault
  BY <1>2 DEF BootTable, mmu_build_boot_pgd, platform_map_peripherals, pgtable_map_range,
         Peripheral, Empty
<1>4. s \in Alias => (RAM_BASE + s - VA_KERNEL_BASE) % PGD_ENTRIES = s - PHYS_OFFSET
  <2>1. SUFFICES ASSUME s \in Alias
                 PROVE  (RAM_BASE + s - VA_KERNEL_BASE) % PGD_ENTRIES = s - PHYS_OFFSET
    OBVIOUS
  <2>2. PICK x \in Int : x = s - PHYS_OFFSET /\ x = RAM_BASE + s - VA_KERNEL_BASE
    BY <1>1, Layout, Numbers DEF PHYS_OFFSET
  <2>3. x \in Identity
    BY <2>1, <2>2, ImageInRam
  <2>4. x \in 0 .. PGD_ENTRIES - 1
    BY <2>3, RamInTable
  <2>5. x % PGD_ENTRIES = x
    BY <2>4 DEF PGD_ENTRIES
  <2> QED
    BY <2>2, <2>5
<1>5. (RAM_BASE + s - RAM_BASE) % PGD_ENTRIES = s
  <2>1. RAM_BASE + s - RAM_BASE = s
    BY <1>1, Layout
  <2>2. s % PGD_ENTRIES = s
    BY <1>1 DEF PGD_ENTRIES
  <2> QED
    BY <2>1, <2>2
<1>6. Peripheral(s) => s \notin Alias /\ s \notin Identity
  BY <1>1, PeripheralsApart, Layout, Numbers DEF Alias, Identity
<1>7. ~(s \in Alias /\ s \in Identity)
  BY Layout, Numbers DEF Alias, Identity
<1> QED
  BY <1>3, <1>4, <1>5, <1>6, <1>7

\* Section 0 and the user window are in no mapping of the kernel's.
LEMMA UserWindowFree ==
    ASSUME board \in Boards
    PROVE  /\ USER_VIRT_BASE \notin Identity /\ USER_VIRT_BASE \notin Alias
           /\ ~Peripheral(USER_VIRT_BASE)
           /\ 0 \notin Identity /\ 0 \notin Alias /\ ~Peripheral(0)
           /\ USER_VIRT_BASE # 0
<1>1. ~Peripheral(USER_VIRT_BASE) /\ ~Peripheral(0)
  BY PeripheralsApart, Numbers
<1>2. USER_VIRT_BASE \notin Identity /\ USER_VIRT_BASE \notin Alias
  BY Layout, Numbers DEF Apart, Identity, Alias
<1>3. 0 \notin Identity /\ 0 \notin Alias /\ USER_VIRT_BASE # 0
  BY Layout, Numbers DEF Identity, Alias
<1> QED
  BY <1>1, <1>2, <1>3

\* The entries of the three kinds of tables, by what the section is used for.
LEMMA TableEntries ==
    ASSUME board \in Boards, NEW p \in Procs
    PROVE  /\ \A s \in Identity \cap Sections :
                 /\ BootTable[s] = Desc(s, "kernel")
                 /\ KernelTable[s] = Fault /\ ProcTable(p)[s] = Fault
           /\ \A s \in Alias \cap Sections :
                 /\ BootTable[s] = Desc(s - PHYS_OFFSET, "kernel")
                 /\ KernelTable[s] = BootTable[s] /\ ProcTable(p)[s] = BootTable[s]
           /\ \A s \in DEVICES :
                 /\ BootTable[s] = Desc(s, "device")
                 /\ KernelTable[s] = BootTable[s] /\ ProcTable(p)[s] = BootTable[s]
           /\ ProcTable(p)[USER_VIRT_BASE] = Desc(UserPhys(p), "user")
           /\ ProcTable(p)[0] = Fault
           /\ \A s \in Sections : ProcTable(p)[s].attr = "user" => s = USER_VIRT_BASE
<1>1. ASSUME NEW s \in Sections
      PROVE  /\ KernelTable[s] = IF s \in Identity THEN Fault ELSE BootTable[s]
             /\ ProcTable(p)[s] = IF s = USER_VIRT_BASE THEN Desc(UserPhys(p), "user")
                                  ELSE IF s \in Identity THEN Fault ELSE BootTable[s]
  BY DEF KernelTable, ProcTable, pgtable_build_for_proc
<1>2. \A s \in Identity \cap Sections :
         /\ BootTable[s] = Desc(s, "kernel")
         /\ KernelTable[s] = Fault /\ ProcTable(p)[s] = Fault
  BY <1>1, BootEntries, UserWindowFree
<1>3. ASSUME NEW s \in Alias \cap Sections
      PROVE  /\ BootTable[s] = Desc(s - PHYS_OFFSET, "kernel")
             /\ KernelTable[s] = BootTable[s] /\ ProcTable(p)[s] = BootTable[s]
  <2>1. s \notin Identity /\ s # USER_VIRT_BASE
    BY UserWindowFree, Layout, Numbers DEF Alias, Identity
  <2> QED
    BY <1>1, <2>1, BootEntries
<1>4. ASSUME NEW s \in DEVICES
      PROVE  /\ BootTable[s] = Desc(s, "device")
             /\ KernelTable[s] = BootTable[s] /\ ProcTable(p)[s] = BootTable[s]
  <2>1. s \in Sections /\ Peripheral(s)
    BY DevicePeripheral
  <2>2. s \notin Identity /\ s # USER_VIRT_BASE
    BY <2>1, PeripheralsApart, Layout, Numbers DEF Identity
  <2> QED
    BY <1>1, <2>1, <2>2, BootEntries
<1>5. ProcTable(p)[USER_VIRT_BASE] = Desc(UserPhys(p), "user") /\ ProcTable(p)[0] = Fault
  <2>1. BootTable[0] = Fault
    BY BootEntries, UserWindowFree, Numbers
  <2> QED
    BY <1>1, <2>1, UserWindowFree, Numbers
<1>6. ASSUME NEW s \in Sections, ProcTable(p)[s].attr = "user" PROVE s = USER_VIRT_BASE
  <2>1. BootTable[s].attr # "user"
    <3>1. \/ BootTable[s] = Desc(s, "device") \/ BootTable[s] = Desc(s - PHYS_OFFSET, "kernel")
          \/ BootTable[s] = Desc(s, "kernel") \/ BootTable[s] = Fault
      BY BootEntries
    <3>2. \A a : Desc(a, "device").attr # "user" /\ Desc(a, "kernel").attr # "user"
      BY DEF Desc
    <3> QED
      BY <3>1, <3>2 DEF Fault
  <2> QED
    BY <1>1, <1>6, <2>1 DEF Fault
<1> QED
  BY <1>2, <1>3, <1>4, <1>5, <1>6

\* The tables hold section descriptors.
LEMMA TableTypes ==
    ASSUME board \in Boards, NEW p \in Procs
    PROVE  /\ Empty \in [Sections -> Descriptors] /\ BootTable \in [Sections -> Descriptors]
           /\ KernelTable \in [Sections -> Descriptors]
           /\ ProcTable(p) \in [Sections -> Descriptors]
<1>1. Fault \in Descriptors
  BY DEF Fault, Descriptors, PGD_ENTRIES
<1>2. \A a \in 0 .. PGD_ENTRIES - 1, k \in {"kernel", "device", "user"} :
         Desc(a, k) \in Descriptors
  BY DEF Desc, Descriptors
<1>3. \A s \in Identity : s \in 0 .. PGD_ENTRIES - 1
  BY RamInTable
<1>4. ASSUME NEW s \in Sections PROVE BootTable[s] \in Descriptors
  <2>1. s \in 0 .. PGD_ENTRIES - 1 /\ (s \in Alias => s - PHYS_OFFSET \in 0 .. PGD_ENTRIES - 1)
    BY <1>3, ImageInRam, Numbers
  <2> QED
    BY <1>1, <1>2, <2>1, BootEntries
<1>5. BootTable \in [Sections -> Descriptors]
  BY <1>4 DEF BootTable, mmu_build_boot_pgd, platform_map_peripherals
<1>6. Desc(UserPhys(p), "user") \in Descriptors
  BY <1>2, Slots
<1> QED
  BY <1>1, <1>5, <1>6 DEF Empty, KernelTable, ProcTable, pgtable_build_for_proc
-----------------------------------------------------------------------------
(* Every step keeps the invariant.                                         *)

USE DEF Step, cpuVars, mmuVars, cacheVars, irqVars, procVars,
        Off, Low, Stackless, Quiet, Loading, Switched, Flushed, Dropped, Built

\* The board never changes, nor does what is computed from it.
LEMMA BoardFixed ==
    ASSUME [Next]_vars
    PROVE  /\ board' = board /\ BootTable' = BootTable /\ KernelTable' = KernelTable
           /\ UserSections' = UserSections /\ PHYS_OFFSET' = PHYS_OFFSET /\ Identity' = Identity
           /\ \A p : UserPhys(p)' = UserPhys(p) /\ ProcTable(p)' = ProcTable(p)
<1>1. board' = board
  BY DEF Next, Boot, Hardware, vars, Reset, ZeroBss, mmu_init, mmu_enable, Trampoline, SetStacks, InitDevices,
         exception_init, irq_init, RegisterLines, LoadImage, icache_sync, BuildProcess,
         AllBuilt, mmu_drop_identity, FlushTlb, timer_set_handler, process_first_run,
         SwitchFlush, ret_from_first_entry, TlbFill, TlbEvict, IcacheFill,
         DcacheWriteBack
<1>2. /\ RAM_BASE' = RAM_BASE /\ RAM_SIZE' = RAM_SIZE /\ USER_PHYS_BASE' = USER_PHYS_BASE
      /\ USER_PHYS_STRIDE' = USER_PHYS_STRIDE /\ PERIPHERALS' = PERIPHERALS
  BY <1>1 DEF RAM_BASE, RAM_SIZE, USER_PHYS_BASE, USER_PHYS_STRIDE, PERIPHERALS
<1>3. PHYS_OFFSET' = PHYS_OFFSET /\ Identity' = Identity /\ \A p : UserPhys(p)' = UserPhys(p)
  BY <1>2 DEF PHYS_OFFSET, Identity, UserPhys
<1>4. UserSections' = UserSections
  BY <1>3 DEF UserSections
<1>5. BootTable' = BootTable
  BY <1>2 DEF BootTable, mmu_build_boot_pgd, platform_map_peripherals, pgtable_map_range
<1>6. KernelTable' = KernelTable /\ \A p : ProcTable(p)' = ProcTable(p)
  BY <1>3, <1>5 DEF KernelTable, ProcTable, pgtable_build_for_proc
<1> QED
  BY <1>1, <1>3, <1>4, <1>5, <1>6

\* The straight line of the boot path.
LEMMA ControlStep ==
    ASSUME TypeOK, Control, Interrupting, Building, [Next]_vars
    PROVE  Control' /\ Interrupting' /\ Building'
<1> USE Numbers
<1>1. CASE Reset
  BY <1>1 DEF Reset, Modes, TypeOK, Control, Interrupting, Building, Procs
<1>2. CASE ZeroBss
  BY <1>2 DEF ZeroBss, TypeOK, Control, Interrupting, Building, Procs
<1>3. CASE mmu_init
  BY <1>3 DEF mmu_init, TypeOK, Control, Interrupting, Building, Procs
<1>4. CASE mmu_enable
  BY <1>4 DEF mmu_enable, TypeOK, Control, Interrupting, Building, Procs
<1>5. CASE Trampoline
  BY <1>5 DEF Trampoline, TypeOK, Control, Interrupting, Building, Procs
<1>6. CASE SetStacks
  BY <1>6 DEF SetStacks, TypeOK, Control, Interrupting, Building, Procs
<1>7. CASE InitDevices
  BY <1>7 DEF InitDevices, TypeOK, Control, Interrupting, Building, Procs
<1>8. CASE exception_init
  BY <1>8 DEF exception_init, TypeOK, Control, Interrupting, Building, Procs
<1>9. CASE irq_init
  BY <1>9 DEF irq_init, TypeOK, Control, Interrupting, Building, Procs
<1>10. CASE RegisterLines
  BY <1>10 DEF RegisterLines, TypeOK, Control, Interrupting, Building, Procs
<1>11. CASE LoadImage
  BY <1>11 DEF LoadImage, TypeOK, Control, Interrupting, Building, Procs
<1>12. CASE icache_sync
  BY <1>12 DEF icache_sync, TypeOK, Control, Interrupting, Building, Procs
<1>13. CASE BuildProcess
  BY <1>13 DEF BuildProcess, TypeOK, Control, Interrupting, Building, Procs
<1>14. CASE AllBuilt
  BY <1>14 DEF AllBuilt, TypeOK, Control, Interrupting, Building, Procs
<1>15. CASE mmu_drop_identity
  BY <1>15 DEF mmu_drop_identity, TypeOK, Control, Interrupting, Building, Procs
<1>16. CASE FlushTlb
  BY <1>16 DEF FlushTlb, TypeOK, Control, Interrupting, Building, Procs
<1>17. CASE timer_set_handler
  BY <1>17 DEF timer_set_handler, TypeOK, Control, Interrupting, Building, Procs
<1>18. CASE process_first_run
  BY <1>18 DEF process_first_run, TypeOK, Control, Interrupting, Building, Procs
<1>19. CASE SwitchFlush
  BY <1>19 DEF SwitchFlush, TypeOK, Control, Interrupting, Building, Procs
<1>20. CASE ret_from_first_entry
  BY <1>20 DEF ret_from_first_entry, TypeOK, Control, Interrupting, Building, Procs
<1>21. CASE TlbFill
  BY <1>21 DEF TlbFill, TypeOK, Control, Interrupting, Building, Procs
<1>22. CASE TlbEvict
  BY <1>22 DEF TlbEvict, TypeOK, Control, Interrupting, Building, Procs
<1>23. CASE IcacheFill
  BY <1>23 DEF IcacheFill, TypeOK, Control, Interrupting, Building, Procs
<1>24. CASE DcacheWriteBack
  BY <1>24 DEF DcacheWriteBack, TypeOK, Control, Interrupting, Building, Procs
<1>25. CASE UNCHANGED vars
  BY <1>25 DEF vars, TypeOK, Control, Interrupting, Building, Procs
<1> QED
  BY <1>1, <1>2, <1>3, <1>4, <1>5, <1>6, <1>7, <1>8, <1>9, <1>10, <1>11, <1>12, <1>13, <1>14,
     <1>15, <1>16, <1>17, <1>18, <1>19, <1>20, <1>21, <1>22, <1>23, <1>24, <1>25 DEF Next, Boot, Hardware

\* Types: the builders write descriptors, and cached translations come from
\* tables.
LEMMA TypeStep ==
    ASSUME TypeOK, Control, Building, Mapped, [Next]_vars
    PROVE  TypeOK'
<1> USE Numbers
<1>0. /\ board \in Boards /\ 0 \in Procs
      /\ board' = board /\ UserSections' = UserSections
  BY BoardFixed DEF TypeOK, Procs
<1>1. CASE Reset
  BY <1>0, <1>1 DEF Reset, TypeOK, Modes
<1>2. CASE ZeroBss
  <2>1. /\ Empty \in [Sections -> Descriptors] /\ BootTable \in [Sections -> Descriptors]
        /\ KernelTable \in [Sections -> Descriptors]
    BY <1>0, TableTypes
  <2>2. pgd' \in [Tables -> [Sections -> Descriptors]]
    BY <1>2, <2>1 DEF ZeroBss, TypeOK, Mapped, BootTable, KernelTable, Tables, BOOT_PGD
  <2> QED
    BY <1>0, <1>2, <2>2 DEF ZeroBss, TypeOK
<1>3. CASE mmu_init
  <2>1. /\ Empty \in [Sections -> Descriptors] /\ BootTable \in [Sections -> Descriptors]
        /\ KernelTable \in [Sections -> Descriptors]
    BY <1>0, TableTypes
  <2>2. pgd' \in [Tables -> [Sections -> Descriptors]]
    BY <1>3, <2>1 DEF mmu_init, TypeOK, Mapped, BootTable, KernelTable, Tables, BOOT_PGD
  <2> QED
    BY <1>0, <1>3, <2>2 DEF mmu_init, TypeOK
<1>4. CASE mmu_enable
  BY <1>0, <1>4 DEF mmu_enable, TypeOK, Tables, BOOT_PGD
<1>5. CASE Trampoline
  BY <1>0, <1>5 DEF Trampoline, TypeOK
<1>6. CASE SetStacks
  BY <1>0, <1>6 DEF SetStacks, TypeOK, Modes
<1>7. CASE InitDevices
  BY <1>0, <1>7 DEF InitDevices, TypeOK
<1>8. CASE exception_init
  BY <1>0, <1>8 DEF exception_init, TypeOK
<1>9. CASE irq_init
  BY <1>0, <1>9 DEF irq_init, TypeOK
<1>10. CASE RegisterLines
  BY <1>0, <1>10 DEF RegisterLines, TypeOK
<1>11. CASE LoadImage
  BY <1>0, <1>11 DEF LoadImage, TypeOK
<1>12. CASE icache_sync
  BY <1>0, <1>12 DEF icache_sync, TypeOK
<1>13. CASE BuildProcess
  <2>1. proc \in Procs /\ pgd[BOOT_PGD] = BootTable
    BY <1>13 DEF BuildProcess, TypeOK, Building, Mapped, Procs
  <2>2. ProcTable(proc) \in [Sections -> Descriptors]
    BY <1>0, <2>1, TableTypes
  <2>3. pgd' \in [Tables -> [Sections -> Descriptors]]
    BY <1>13, <2>1, <2>2 DEF BuildProcess, TypeOK, ProcTable
  <2>4. proc' \in 0 .. NUM_PROCESSES /\ ready' \subseteq Procs
    BY <1>13, <2>1 DEF BuildProcess, TypeOK, Procs
  <2> QED
    BY <1>0, <1>13, <2>3, <2>4 DEF BuildProcess, TypeOK
<1>14. CASE AllBuilt
  BY <1>0, <1>14 DEF AllBuilt, TypeOK
<1>15. CASE mmu_drop_identity
  <2>1. /\ Empty \in [Sections -> Descriptors] /\ BootTable \in [Sections -> Descriptors]
        /\ KernelTable \in [Sections -> Descriptors]
    BY <1>0, TableTypes
  <2>2. pgd' \in [Tables -> [Sections -> Descriptors]]
    BY <1>15, <2>1 DEF mmu_drop_identity, TypeOK, Mapped, BootTable, KernelTable, Tables, BOOT_PGD
  <2> QED
    BY <1>0, <1>15, <2>2 DEF mmu_drop_identity, TypeOK
<1>16. CASE FlushTlb
  BY <1>0, <1>16 DEF FlushTlb, TypeOK
<1>17. CASE timer_set_handler
  BY <1>0, <1>17 DEF timer_set_handler, TypeOK
<1>18. CASE process_first_run
  BY <1>0, <1>18 DEF process_first_run, TypeOK, Tables, BOOT_PGD
<1>19. CASE SwitchFlush
  BY <1>0, <1>19 DEF SwitchFlush, TypeOK
<1>20. CASE ret_from_first_entry
  BY <1>0, <1>20 DEF ret_from_first_entry, TypeOK
<1>21. CASE TlbFill
  <2>1. tlb' \subseteq Sections \X Descriptors
    <3>1. PICK s \in Sections : tlb' = tlb \cup {<<s, pgd[ttbr0][s]>>}
      BY <1>21 DEF TlbFill
    <3>2. pgd[ttbr0][s] \in Descriptors
      BY DEF TypeOK
    <3> QED
      BY <3>1, <3>2 DEF TypeOK
  <2> QED
    BY <1>0, <1>21, <2>1 DEF TlbFill, TypeOK
<1>22. CASE TlbEvict
  BY <1>0, <1>22 DEF TlbEvict, TypeOK
<1>23. CASE IcacheFill
  BY <1>0, <1>23 DEF IcacheFill, TypeOK
<1>24. CASE DcacheWriteBack
  BY <1>0, <1>24 DEF DcacheWriteBack, TypeOK
<1>25. CASE UNCHANGED vars
  BY <1>0, <1>25 DEF vars, TypeOK
<1> QED
  BY <1>1, <1>2, <1>3, <1>4, <1>5, <1>6, <1>7, <1>8, <1>9, <1>10, <1>11, <1>12, <1>13, <1>14,
     <1>15, <1>16, <1>17, <1>18, <1>19, <1>20, <1>21, <1>22, <1>23, <1>24, <1>25 DEF Next, Boot, Hardware

\* The tables change where the code says so.
LEMMA MappedStep ==
    ASSUME TypeOK, Control, Building, Mapped, [Next]_vars
    PROVE  Mapped'
<1> USE Numbers
<1>0. /\ BootTable' = BootTable /\ KernelTable' = KernelTable /\ \A p : ProcTable(p)' = ProcTable(p)
      /\ BOOT_PGD \in Tables /\ BOOT_PGD \notin Procs /\ ready \subseteq Procs /\ Empty' = Empty
      /\ pgd \in [Tables -> [Sections -> Descriptors]] /\ Procs \subseteq Tables
  BY BoardFixed DEF TypeOK, Tables, Procs, BOOT_PGD, Empty
<1>1. CASE Reset
  BY <1>0, <1>1 DEF Reset, Mapped
<1>2. CASE ZeroBss
  BY <1>0, <1>2 DEF ZeroBss, Mapped, Building
<1>3. CASE mmu_init
  BY <1>0, <1>3 DEF mmu_init, Mapped, Building, BootTable
<1>4. CASE mmu_enable
  BY <1>0, <1>4 DEF mmu_enable, Mapped
<1>5. CASE Trampoline
  BY <1>0, <1>5 DEF Trampoline, Mapped
<1>6. CASE SetStacks
  BY <1>0, <1>6 DEF SetStacks, Mapped
<1>7. CASE InitDevices
  BY <1>0, <1>7 DEF InitDevices, Mapped
<1>8. CASE exception_init
  BY <1>0, <1>8 DEF exception_init, Mapped
<1>9. CASE irq_init
  BY <1>0, <1>9 DEF irq_init, Mapped
<1>10. CASE RegisterLines
  BY <1>0, <1>10 DEF RegisterLines, Mapped
<1>11. CASE LoadImage
  BY <1>0, <1>11 DEF LoadImage, Mapped
<1>12. CASE icache_sync
  BY <1>0, <1>12 DEF icache_sync, Mapped
<1>13. CASE BuildProcess
  <2>1. proc \in Procs /\ pgd[BOOT_PGD] = BootTable
    BY <1>13 DEF BuildProcess, TypeOK, Building, Mapped, Procs
  <2>2. /\ pgd' = [pgd EXCEPT ![proc] = ProcTable(proc)]
        /\ ready' = ready \cup {proc} /\ pc = "build_pgd" /\ pc' = "process_init_all"
    BY <1>13, <2>1 DEF BuildProcess, ProcTable
  <2> QED
    BY <1>0, <2>1, <2>2 DEF Mapped
<1>14. CASE AllBuilt
  BY <1>0, <1>14 DEF AllBuilt, Mapped
<1>15. CASE mmu_drop_identity
  <2>1. pgd' = [pgd EXCEPT ![BOOT_PGD] = KernelTable]
    BY <1>0, <1>15 DEF mmu_drop_identity, Mapped, KernelTable
  <2> QED
    BY <1>0, <1>15, <2>1 DEF mmu_drop_identity, Mapped
<1>16. CASE FlushTlb
  BY <1>0, <1>16 DEF FlushTlb, Mapped
<1>17. CASE timer_set_handler
  BY <1>0, <1>17 DEF timer_set_handler, Mapped
<1>18. CASE process_first_run
  BY <1>0, <1>18 DEF process_first_run, Mapped
<1>19. CASE SwitchFlush
  BY <1>0, <1>19 DEF SwitchFlush, Mapped
<1>20. CASE ret_from_first_entry
  BY <1>0, <1>20 DEF ret_from_first_entry, Mapped
<1>21. CASE TlbFill
  BY <1>0, <1>21 DEF TlbFill, Mapped
<1>22. CASE TlbEvict
  BY <1>0, <1>22 DEF TlbEvict, Mapped
<1>23. CASE IcacheFill
  BY <1>0, <1>23 DEF IcacheFill, Mapped
<1>24. CASE DcacheWriteBack
  BY <1>0, <1>24 DEF DcacheWriteBack, Mapped
<1>25. CASE UNCHANGED vars
  BY <1>0, <1>25 DEF vars, Mapped
<1> QED
  BY <1>1, <1>2, <1>3, <1>4, <1>5, <1>6, <1>7, <1>8, <1>9, <1>10, <1>11, <1>12, <1>13, <1>14,
     <1>15, <1>16, <1>17, <1>18, <1>19, <1>20, <1>21, <1>22, <1>23, <1>24, <1>25 DEF Next, Boot, Hardware

\* The table the MMU walks.
LEMMA WalkedTable ==
    ASSUME TypeOK, Control, Building, Mapped, pc \notin Off
    PROVE  /\ pc \notin Dropped => pgd[ttbr0] = BootTable
           /\ pc \in Dropped \ Switched => pgd[ttbr0] = KernelTable
           /\ pc \in Switched => pgd[ttbr0] = ProcTable(0)
<1>1. pc \in Switched => 0 \in ready
  BY Numbers DEF Building
<1> QED
  BY <1>1 DEF Control, Mapped

\* The TLB may lag behind the tables only where a flush follows.
LEMMA CachedStep ==
    ASSUME TypeOK, Control, Building, Mapped, Cached, [Next]_vars
    PROVE  Cached'
<1> USE Numbers
<1>0. BootTable' = BootTable /\ KernelTable' = KernelTable /\ ProcTable(0)' = ProcTable(0)
  BY BoardFixed
<1>1. CASE Reset
  BY <1>0, <1>1 DEF Reset, Cached, Control
<1>2. CASE ZeroBss
  BY <1>0, <1>2 DEF ZeroBss, Cached, Control
<1>3. CASE mmu_init
  BY <1>0, <1>3 DEF mmu_init, Cached, Control
<1>4. CASE mmu_enable
  BY <1>0, <1>4 DEF mmu_enable, Cached, Control
<1>5. CASE Trampoline
  BY <1>0, <1>5 DEF Trampoline, Cached, Control
<1>6. CASE SetStacks
  BY <1>0, <1>6 DEF SetStacks, Cached, Control
<1>7. CASE InitDevices
  BY <1>0, <1>7 DEF InitDevices, Cached, Control
<1>8. CASE exception_init
  BY <1>0, <1>8 DEF exception_init, Cached, Control
<1>9. CASE irq_init
  BY <1>0, <1>9 DEF irq_init, Cached, Control
<1>10. CASE RegisterLines
  BY <1>0, <1>10 DEF RegisterLines, Cached, Control
<1>11. CASE LoadImage
  BY <1>0, <1>11 DEF LoadImage, Cached, Control
<1>12. CASE icache_sync
  BY <1>0, <1>12 DEF icache_sync, Cached, Control
<1>13. CASE BuildProcess
  BY <1>0, <1>13 DEF BuildProcess, Cached, Control
<1>14. CASE AllBuilt
  BY <1>0, <1>14 DEF AllBuilt, Cached, Control
<1>15. CASE mmu_drop_identity
  BY <1>0, <1>15 DEF mmu_drop_identity, Cached, Control
<1>16. CASE FlushTlb
  BY <1>0, <1>16 DEF FlushTlb, Cached, Control
<1>17. CASE timer_set_handler
  BY <1>0, <1>17 DEF timer_set_handler, Cached, Control
<1>18. CASE process_first_run
  BY <1>0, <1>18 DEF process_first_run, Cached, Control
<1>19. CASE SwitchFlush
  BY <1>0, <1>19 DEF SwitchFlush, Cached, Control
<1>20. CASE ret_from_first_entry
  BY <1>0, <1>20 DEF ret_from_first_entry, Cached, Control
<1>21. CASE TlbFill
  <2>1. PICK s \in Sections : /\ pgd[ttbr0][s].attr # "fault"
                             /\ tlb' = tlb \cup {<<s, pgd[ttbr0][s]>>}
    BY <1>21 DEF TlbFill
  <2>2. pc \notin Off /\ pc' = pc
    BY <1>21 DEF TlbFill, Control
  <2>3. KernelTable[s].attr # "fault" => KernelTable[s] = BootTable[s]
    BY DEF KernelTable, Fault
  <2>4. \A e \in tlb' : e \in tlb \/ (e[1] = s /\ e[2] = pgd[ttbr0][s])
    BY <2>1
  <2> QED
    BY <1>0, <2>1, <2>2, <2>3, <2>4, WalkedTable DEF Cached
<1>22. CASE TlbEvict
  BY <1>0, <1>22 DEF TlbEvict, Cached, Control
<1>23. CASE IcacheFill
  BY <1>0, <1>23 DEF IcacheFill, Cached, Control
<1>24. CASE DcacheWriteBack
  BY <1>0, <1>24 DEF DcacheWriteBack, Cached, Control
<1>25. CASE UNCHANGED vars
  BY <1>0, <1>25 DEF vars, Cached, Control
<1> QED
  BY <1>1, <1>2, <1>3, <1>4, <1>5, <1>6, <1>7, <1>8, <1>9, <1>10, <1>11, <1>12, <1>13, <1>14,
     <1>15, <1>16, <1>17, <1>18, <1>19, <1>20, <1>21, <1>22, <1>23, <1>24, <1>25 DEF Next, Boot, Hardware

\* What an access resolves to, whatever the TLB holds.
LEMMA Resolves ==
    ASSUME TypeOK, Control, Building, Mapped, Cached, NEW s \in Sections
    PROVE  /\ pc \notin Off \cup Dropped => Outcomes(s) = {BootTable[s]}
           /\ pc \notin Off /\ s \in Alias \cup DEVICES => Outcomes(s) = {BootTable[s]}
           /\ pc \in Flushed /\ s \in Identity => Outcomes(s) = {Fault}
<1>1. board \in Boards /\ 0 \in Procs
  BY Numbers DEF TypeOK, Procs
<1>2. s \in Alias \cup DEVICES => KernelTable[s] = BootTable[s] /\ ProcTable(0)[s] = BootTable[s]
  BY <1>1, TableEntries
<1>3. s \in Identity => KernelTable[s] = Fault /\ ProcTable(0)[s] = Fault
  BY <1>1, TableEntries
<1>4. Fault.attr = "fault"
  BY DEF Fault
<1>5. ASSUME pc \notin Off \cup Dropped PROVE Outcomes(s) = {BootTable[s]}
  <2>1. pgd[ttbr0][s] = BootTable[s] /\ \A e \in tlb : e[1] = s => e[2] = BootTable[s]
    BY <1>5, WalkedTable DEF Cached
  <2> QED
    BY <1>5, <2>1 DEF Outcomes
<1>6. ASSUME pc \in Dropped, s \in Alias \cup DEVICES PROVE Outcomes(s) = {BootTable[s]}
  <2>1. pgd[ttbr0][s] = BootTable[s] /\ \A e \in tlb : e[1] = s => e[2] = BootTable[s]
    BY <1>2, <1>6, WalkedTable DEF Cached
  <2> QED
    BY <1>6, <2>1 DEF Outcomes
<1>7. ASSUME pc \in Flushed, s \in Identity PROVE Outcomes(s) = {Fault}
  <2>1. pgd[ttbr0][s] = Fault /\ \A e \in tlb : e[1] # s
    BY <1>3, <1>4, <1>7, WalkedTable DEF Cached
  <2> QED
    BY <1>7, <2>1 DEF Outcomes
<1> QED
  BY <1>5, <1>6, <1>7

\* The copy of a program reaches its own slot and no other.
LEMMA CopyReaches ==
    ASSUME TypeOK, Control, Building, Mapped, Cached,
           pc \in Loading, proc < NUM_PROCESSES
    PROVE  /\ proc \in Procs /\ UserPhys(proc) \in UserSections
           /\ Reached(UserPhys(proc) + PHYS_OFFSET) = {UserPhys(proc)}
<1>1. board \in Boards /\ proc \in Procs
  BY Numbers DEF TypeOK, Procs
<1> DEFINE a == UserPhys(proc) + PHYS_OFFSET
<1>2. /\ a \in Alias /\ a \in Sections /\ a - PHYS_OFFSET = UserPhys(proc)
      /\ UserPhys(proc) \in UserSections
  BY <1>1, Slots
<1> HIDE DEF a
<1>3. BootTable[a] = Desc(UserPhys(proc), "kernel")
  BY <1>1, <1>2, TableEntries
<1>4. Outcomes(a) = {BootTable[a]}
  BY <1>2, Resolves
<1>5. Reached(a) = {UserPhys(proc)}
  BY <1>3, <1>4 DEF Reached, Desc
<1> QED
  BY <1>1, <1>2, <1>5 DEF a

\* The caches never keep a program from the fetch that is to see it.
LEMMA LoadedStep ==
    ASSUME TypeOK, Control, Building, Mapped, Cached, Loaded, Building', [Next]_vars
    PROVE  Loaded'
<1> USE Numbers
<1>0. /\ UserSections' = UserSections /\ \A p : UserPhys(p)' = UserPhys(p)
      /\ \A p \in Procs : UserPhys(p) \in UserSections
      /\ ready \subseteq Procs
      /\ mem \in [UserSections -> {"junk", "image"}] /\ dcache \in [UserSections -> {"none", "image"}]
      /\ icache \in [UserSections -> {"none", "junk", "image"}]
  BY BoardFixed, Slots DEF TypeOK
<1>1. CASE Reset
  BY <1>0, <1>1 DEF Reset, Loaded
<1>2. CASE ZeroBss
  BY <1>0, <1>2 DEF ZeroBss, Loaded
<1>3. CASE mmu_init
  BY <1>0, <1>3 DEF mmu_init, Loaded
<1>4. CASE mmu_enable
  <2>1. \A s \in UserSections : icache'[s] = "none"
    BY <1>4 DEF mmu_enable
  <2> QED
    BY <1>0, <1>4, <2>1 DEF mmu_enable, Loaded
<1>5. CASE Trampoline
  BY <1>0, <1>5 DEF Trampoline, Loaded
<1>6. CASE SetStacks
  BY <1>0, <1>6 DEF SetStacks, Loaded
<1>7. CASE InitDevices
  BY <1>0, <1>7 DEF InitDevices, Loaded
<1>8. CASE exception_init
  BY <1>0, <1>8 DEF exception_init, Loaded
<1>9. CASE irq_init
  BY <1>0, <1>9 DEF irq_init, Loaded
<1>10. CASE RegisterLines
  BY <1>0, <1>10 DEF RegisterLines, Loaded
<1>11. CASE LoadImage
  <2>1. /\ proc \in Procs /\ UserPhys(proc) \in UserSections
        /\ Reached(UserPhys(proc) + PHYS_OFFSET) = {UserPhys(proc)}
    BY <1>11, CopyReaches DEF LoadImage
  <2>2. dcache'[UserPhys(proc)] = "image"
    BY <1>11, <2>1 DEF LoadImage
  <2> QED
    BY <1>0, <1>11, <2>2 DEF LoadImage, Loaded
<1>12. CASE icache_sync
  <2>1. /\ proc \in Procs /\ UserPhys(proc) \in UserSections
        /\ Reached(UserPhys(proc) + PHYS_OFFSET) = {UserPhys(proc)}
    BY <1>12, CopyReaches DEF icache_sync, Building
  <2>2. \A s \in UserSections :
           /\ mem'[s] = IF s = UserPhys(proc) /\ dcache[s] # "none" THEN dcache[s] ELSE mem[s]
           /\ icache'[s] = "none"
    BY <1>12, <2>1 DEF icache_sync
  <2>3. mem'[UserPhys(proc)] = "image"
    BY <1>0, <1>12, <2>1, <2>2 DEF icache_sync, Loaded
  <2>4. \A p \in ready : mem'[UserPhys(p)] = "image"
    BY <1>0, <2>2 DEF Loaded
  <2> QED
    BY <1>0, <1>12, <2>1, <2>2, <2>3, <2>4 DEF icache_sync, Loaded
<1>13. CASE BuildProcess
  BY <1>0, <1>13 DEF BuildProcess, Loaded
<1>14. CASE AllBuilt
  BY <1>0, <1>14 DEF AllBuilt, Loaded
<1>15. CASE mmu_drop_identity
  BY <1>0, <1>15 DEF mmu_drop_identity, Loaded
<1>16. CASE FlushTlb
  BY <1>0, <1>16 DEF FlushTlb, Loaded
<1>17. CASE timer_set_handler
  BY <1>0, <1>17 DEF timer_set_handler, Loaded
<1>18. CASE process_first_run
  BY <1>0, <1>18 DEF process_first_run, Loaded
<1>19. CASE SwitchFlush
  <2>1. \A s \in UserSections : icache'[s] = "none"
    BY <1>19 DEF SwitchFlush
  <2> QED
    BY <1>0, <1>19, <2>1 DEF SwitchFlush, Loaded
<1>20. CASE ret_from_first_entry
  BY <1>0, <1>20 DEF ret_from_first_entry, Loaded
<1>21. CASE TlbFill
  BY <1>0, <1>21 DEF TlbFill, Loaded
<1>22. CASE TlbEvict
  BY <1>0, <1>22 DEF TlbEvict, Loaded
<1>23. CASE IcacheFill
  <2>1. PICK s \in UserSections : icache' = [icache EXCEPT ![s] = mem[s]]
    BY <1>23 DEF IcacheFill
  <2>2. proc \in Procs \/ pc # "build_pgd"
    BY DEF Building, TypeOK, Procs
  <2> QED
    BY <1>0, <1>23, <2>1, <2>2 DEF IcacheFill, Loaded
<1>24. CASE DcacheWriteBack
  <2>1. PICK s \in UserSections : /\ dcache[s] # "none" /\ mem' = [mem EXCEPT ![s] = dcache[s]]
                                 /\ dcache' = [dcache EXCEPT ![s] = "none"]
    BY <1>24 DEF DcacheWriteBack
  <2>2. proc \in Procs \/ pc \notin {"build_pgd", "icache_sync"}
    BY DEF Building, TypeOK, Procs
  <2>3. dcache[s] = "image"
    BY <1>0, <2>1
  <2> QED
    BY <1>0, <1>24, <2>1, <2>2, <2>3 DEF DcacheWriteBack, Loaded
<1>25. CASE UNCHANGED vars
  BY <1>0, <1>25 DEF vars, Loaded
<1> QED
  BY <1>1, <1>2, <1>3, <1>4, <1>5, <1>6, <1>7, <1>8, <1>9, <1>10, <1>11, <1>12, <1>13, <1>14,
     <1>15, <1>16, <1>17, <1>18, <1>19, <1>20, <1>21, <1>22, <1>23, <1>24, <1>25 DEF Next, Boot, Hardware

\* RAM, TLB and masks hold leftovers at reset; nothing is known of them, nor
\* needed.
LEMMA InitInv == Init => IndInv
<1> SUFFICES ASSUME Init PROVE IndInv
  OBVIOUS
<1> USE Numbers
<1>1. board \in Boards /\ 0 \in Procs
  BY DEF Init, Procs
<1>2. tlb \subseteq Sections \X Descriptors
  <2>1. Desc(0, "kernel") \in Descriptors
    BY DEF Desc, Descriptors, PGD_ENTRIES
  <2>2. KERNEL_PHYS \in Sections /\ KERNEL_VIRT \in Sections
    BY <1>1, ImageInRam
  <2> QED
    BY <2>1, <2>2 DEF Init
<1>3. pgd \in [Tables -> [Sections -> Descriptors]]
  <2>1. Fault \in Descriptors /\ Desc(RAM_BASE, "user") \in Descriptors
    <3>1. RAM_BASE \in Identity
      BY <1>1, Layout DEF Identity
    <3>2. RAM_BASE \in 0 .. PGD_ENTRIES - 1
      BY <1>1, <3>1, RamInTable
    <3>3. 0 \in 0 .. PGD_ENTRIES - 1
      BY DEF PGD_ENTRIES
    <3> QED
      BY <3>2, <3>3 DEF Fault, Desc, Descriptors
  <2>2. Empty \in [Sections -> Descriptors] /\ Stray \in [Sections -> Descriptors]
    BY <2>1 DEF Empty, Stray
  <2> QED
    BY <2>2 DEF Init
<1>4. TypeOK
  <2>1. ttbr0 \in Tables /\ proc \in 0 .. NUM_PROCESSES
    BY DEF Init, Tables, BOOT_PGD
  <2>2. irq_table \subseteq Lines /\ enabled \subseteq Lines /\ ready \subseteq Procs
    BY DEF Init
  <2>3. /\ mem \in [UserSections -> {"junk", "image"}]
        /\ dcache \in [UserSections -> {"none", "image"}]
        /\ icache \in [UserSections -> {"none", "junk", "image"}]
        /\ stacks \in [Modes -> {"none", "PA", "VA"}]
    BY DEF Init
  <2> QED
    BY <1>1, <1>2, <1>3, <2>1, <2>2, <2>3 DEF Init, TypeOK
<1>5. Control /\ Interrupting /\ Building
  BY DEF Init, Control, Interrupting, Building
<1>6. Mapped /\ Cached /\ Loaded
  BY DEF Init, Mapped, Cached, Loaded
<1> QED
  BY <1>4, <1>5, <1>6 DEF IndInv

\* The invariant is inductive.
LEMMA NextInv == IndInv /\ [Next]_vars => IndInv'
BY ControlStep, TypeStep, MappedStep, CachedStep, LoadedStep DEF IndInv

\* The boot path keeps its invariant, whatever the TLB and the caches do.
THEOREM Invariance == Spec => []IndInv
BY InitInv, NextInv, PTL DEF Spec

\* The tables hold section descriptors and process_init_all's index stays within
\* the process table.
THEOREM TypeCorrectness == Spec => []TypeOK
<1>1. IndInv => TypeOK
  BY DEF IndInv
<1> QED
  BY <1>1, Invariance, PTL

-----------------------------------------------------------------------------
(* What the invariant says.                                                *)

\* The code that runs is mapped by table and TLB alike at every step of the
\* path.
LEMMA MappedExecution == IndInv => ExecutionMapped
<1> SUFFICES ASSUME IndInv PROVE ExecutionMapped
  OBVIOUS
<1> USE Numbers
<1>1. /\ TypeOK /\ Control /\ Building /\ Mapped /\ Cached
      /\ board \in Boards /\ 0 \in Procs
  BY DEF IndInv, TypeOK, Procs
<1>2. ASSUME pc \notin Off PROVE Executes("VA")
  <2>1. ASSUME NEW s \in ImageVirt PROVE Outcomes(s) = {Desc(s - PHYS_OFFSET, "kernel")}
    <3>1. s \in Sections /\ s \in Alias
      BY <1>1, ImageInRam
    <3> QED
      BY <1>1, <1>2, <3>1, TableEntries, Resolves
  <2> QED
    BY <2>1 DEF Executes, Window, Backing
<1>3. ASSUME pc \notin Off \cup Dropped PROVE Executes("PA")
  <2>1. ASSUME NEW s \in ImagePhys PROVE Outcomes(s) = {Desc(s, "kernel")}
    <3>1. s \in Sections /\ s \in Identity
      BY <1>1, ImageInRam
    <3> QED
      BY <1>1, <1>3, <3>1, TableEntries, Resolves
  <2> QED
    BY <2>1 DEF Executes, Window, Backing
<1>4. ASSUME view = "VA" PROVE DevicesMapped
  <2>1. pc \notin Off
    BY <1>1, <1>4 DEF Control
  <2>2. ASSUME NEW s \in DEVICES
        PROVE  /\ Outcomes(s) = {Desc(s, "device")}
               /\ \A p \in ready : pgd[p][s] = Desc(s, "device")
    <3>1. s \in Sections
      BY <1>1, DevicePeripheral
    <3>2. Outcomes(s) = {Desc(s, "device")}
      BY <1>1, <2>1, <3>1, TableEntries, Resolves
    <3>3. ASSUME NEW p \in ready PROVE pgd[p][s] = Desc(s, "device")
      <4>1. p \in Procs /\ pgd[p] = ProcTable(p)
        BY <1>1 DEF TypeOK, Mapped
      <4> QED
        BY <1>1, <4>1, TableEntries
    <3> QED
      BY <3>2, <3>3
  <2> QED
    BY <2>2 DEF DevicesMapped
<1>5. mmu /\ mode = "SVC" => Executes(view) /\ Executes(stacks["SVC"])
  <2>1. SUFFICES ASSUME mmu, mode = "SVC" PROVE Executes(view) /\ Executes(stacks["SVC"])
    OBVIOUS
  <2>2. pc \notin Off /\ "SVC" \in Modes
    BY <1>1, <2>1 DEF Control, Modes
  <2>3. CASE pc \in Dropped
    <3>1. view = "VA" /\ stacks["SVC"] = "VA"
      BY <1>1, <2>2, <2>3 DEF Control
    <3> QED
      BY <1>2, <2>2, <3>1
  <2>4. CASE pc \notin Dropped
    <3>1. view \in {"PA", "VA"}
      BY <1>1 DEF TypeOK
    <3>2. stacks["SVC"] \in {"PA", "VA"}
      BY <1>1, <2>2 DEF Control
    <3> QED
      BY <1>2, <1>3, <2>2, <2>4, <3>1, <3>2
  <2> QED
    BY <2>3, <2>4
<1> QED
  BY <1>4, <1>5 DEF ExecutionMapped

\* Once dropped, the identity map is in no table and not in the TLB.
LEMMA DroppedIdentity == IndInv => IdentityGone
<1> SUFFICES ASSUME IndInv, pc \in Flushed, NEW s \in Sections \cap Identity
             PROVE  /\ Outcomes(s) = {Fault}
                    /\ \A k \in Tables : pgd[k][s] = Fault
  BY DEF IdentityGone
<1> USE Numbers
<1>1. /\ TypeOK /\ Control /\ Building /\ Mapped /\ Cached
      /\ board \in Boards /\ 0 \in Procs
  BY DEF IndInv, TypeOK, Procs
<1>2. Outcomes(s) = {Fault}
  BY <1>1, Resolves
<1>3. ASSUME NEW k \in Tables PROVE pgd[k][s] = Fault
  <2>1. CASE k = BOOT_PGD
    BY <1>1, <2>1, TableEntries DEF Mapped
  <2>2. CASE k # BOOT_PGD
    <3>1. k \in Procs /\ k \in ready
      BY <1>1, <2>2 DEF Tables, Procs, BOOT_PGD, Building
    <3> QED
      BY <1>1, <3>1, TableEntries DEF Mapped
  <2> QED
    BY <2>1, <2>2
<1> QED
  BY <1>2, <1>3

\* A process's table gives user code its own slot only.
LEMMA IsolatedUsers == IndInv => UserIsolated
<1> SUFFICES ASSUME IndInv, NEW p \in ready
             PROVE  /\ \A s \in Sections : pgd[p][s].attr = "user" <=> s = USER_VIRT_BASE
                    /\ pgd[p][USER_VIRT_BASE].pa \notin ImagePhys
                    /\ pgd[p][0] = Fault
                    /\ \A q \in ready \ {p} :
                          pgd[p][USER_VIRT_BASE].pa # pgd[q][USER_VIRT_BASE].pa
  BY DEF UserIsolated
<1>1. board \in Boards /\ \A q \in ready : q \in Procs /\ pgd[q] = ProcTable(q)
  BY DEF IndInv, TypeOK, Mapped
<1>2. ASSUME NEW q \in ready
      PROVE  /\ pgd[q][USER_VIRT_BASE].pa = UserPhys(q)
             /\ pgd[q][USER_VIRT_BASE].attr = "user"
  <2>1. pgd[q][USER_VIRT_BASE] = Desc(UserPhys(q), "user")
    BY <1>1, TableEntries
  <2> QED
    BY <2>1 DEF Desc
<1>3. /\ \A s \in Sections : pgd[p][s].attr = "user" => s = USER_VIRT_BASE
      /\ pgd[p][0] = Fault
  BY <1>1, TableEntries
<1>4. UserPhys(p) \notin ImagePhys /\ \A q \in Procs : UserPhys(q) = UserPhys(p) => q = p
  BY <1>1, Slots
<1> QED
  BY <1>1, <1>2, <1>3, <1>4

\* User mode fetches what LoadImage wrote, not a stale line.
LEMMA VisibleCode == IndInv => UserCodeVisible
<1> SUFFICES ASSUME IndInv, pc = "user", NEW p \in Procs
             PROVE  FetchSees(pgd[p][USER_VIRT_BASE].pa) = "image"
  BY DEF UserCodeVisible
<1> USE Numbers
<1>1. board \in Boards /\ p \in ready
  BY DEF IndInv, TypeOK, Building, Procs
<1>2. pgd[p][USER_VIRT_BASE].pa = UserPhys(p)
  <2>1. pgd[p][USER_VIRT_BASE] = Desc(UserPhys(p), "user")
    BY <1>1, TableEntries DEF IndInv, Mapped
  <2> QED
    BY <2>1 DEF Desc
<1>3. UserPhys(p) \in UserSections
  BY <1>1, Slots
<1>4. mem[UserPhys(p)] = "image" /\ icache[UserPhys(p)] # "junk"
  BY <1>1 DEF IndInv, Loaded
<1>5. icache[UserPhys(p)] \in {"none", "junk", "image"}
  BY <1>3 DEF IndInv, TypeOK
<1> QED
  BY <1>2, <1>4, <1>5 DEF FetchSees

\* CPSR.I is cleared after vectors, stacks, controller and handlers are in
\* place.
LEMMA ReadyForInterrupts == IndInv => InterruptsReady
BY Numbers DEF IndInv, Control, Interrupting, Building, InterruptsReady, Procs

\* Whatever the TLB holds, the kernel's next instruction, its stack and the
\* devices resolve from the SCTLR write of mmu_enable to the first user process.
THEOREM KernelStaysMapped == Spec => []ExecutionMapped
BY MappedExecution, Invariance, PTL

\* After mmu_drop_identity no physical RAM address resolves any more.
THEOREM IdentityDropped == Spec => []IdentityGone
BY DroppedIdentity, Invariance, PTL

\* pgtable_build_for_proc gives every process its own slot and nothing else, for
\* any number of processes.
THEOREM ProcessesIsolated == Spec => []UserIsolated
BY IsolatedUsers, Invariance, PTL

\* icache_sync makes the copied programs visible to the first fetches.
THEOREM CodeVisible == Spec => []UserCodeVisible
BY VisibleCode, Invariance, PTL

\* Interrupts are unmasked only with the whole interrupt path in place.
THEOREM UnmaskedWhenReady == Spec => []InterruptsReady
BY ReadyForInterrupts, Invariance, PTL
=============================================================================
