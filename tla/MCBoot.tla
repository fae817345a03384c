------------------------------- MODULE MCBoot -------------------------------
(* The two boards, in sections (address >> 20).                            *)
EXTENDS Boot

\* platform/qemu/board.h, periph_map.c and linker/kernel_qemu.ld
Qemu == [ram_base |-> \h700, ram_size |-> 128,
         kernel_phys |-> \h701, kernel_virt |-> \hC01, image_size |-> 1,
         user_phys_base |-> \h702, user_phys_stride |-> 1,
         peripherals |-> {<<\h100, 2>>, <<\h1E0, 1>>},
         devices |-> {\h100, \h1E0}]

\* platform/bbb/board.h, periph_map.c and linker/kernel_bbb.ld
Bbb == [ram_base |-> \h800, ram_size |-> 512,
        kernel_phys |-> \h800, kernel_virt |-> \hC00, image_size |-> 2,
        user_phys_base |-> \h802, user_phys_stride |-> 1,
        peripherals |-> {<<\h44E, 1>>, <<\h480, 16>>},
        devices |-> {\h44E, \h480, \h482}]

BothBoards == {Qemu, Bbb}

\* The ends of every range and their neighbours, and the first sections of RAM
\* and of its alias, where the image and the user slots are.
Ends(first, n) == {first - 1, first, first + n - 1, first + n} \cap 0 .. 4095

SampledSections ==
    {0, 1} \cup Ends(\h400, 1) \cup
    UNION {   Ends(b.ram_base, b.ram_size) \cup Ends(\hC00, b.ram_size)
              \cup (b.ram_base + 1 .. b.ram_base + 5) \cup (\hC01 .. \hC05)
              \cup UNION {Ends(r[1], r[2]) : r \in b.peripherals}
              \cup b.devices
            : b \in BothBoards}
=============================================================================
