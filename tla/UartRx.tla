------------------------------- MODULE UartRx -------------------------------
(* The receive path of the console at the granularity of device accesses:  *)
(* the UART with its FIFO and interrupt bits, the driver's rx_irq, the     *)
(* ring, and the one reader.  Module Kernel takes for granted that a byte  *)
(* in the FIFO asserts the interrupt line; here the PL011 bits that make   *)
(* it so are explicit, because pl011_rx_irq clears them after it has seen  *)
(* the FIFO empty and a byte may arrive in between.                        *)
(*                                                                         *)
(* The CPU is at "user" (IRQs enabled; any process), or in rx_irq at       *)
(* "drain", "ack" (PL011 only) or "wake".  The reader's sys_read runs with *)
(* IRQs masked and is one step.  The scheduler is left to module Kernel:   *)
(* an awake reader may run whenever the CPU is at "user".                  *)
EXTENDS Integers, Sequences

CONSTANTS
    Chips,          \* "pl011" (QEMU board), "ns16550" (BeagleBone Black)
    FIFO_DEPTH,     \* the UART's FIFO
    TRIGGER,        \* FIFO level at which the PL011 raises its RX interrupt
    RING_CAPACITY,  \* UART_RX_BUF_SIZE - 1
    MAX_BYTES       \* bound: bytes the peer sends, numbered 1 .. MAX_BYTES

ASSUME RxAssumption ==
    /\ Chips \subseteq {"pl011", "ns16550"}
    /\ FIFO_DEPTH \in Nat \ {0}
    /\ TRIGGER \in 1 .. FIFO_DEPTH
    /\ RING_CAPACITY \in Nat \ {0}
    /\ MAX_BYTES \in Nat

VARIABLES
    chip,       \* the chip the board has
    sent,       \* bytes the peer has sent
    fifo,       \* bytes in the UART
    ris,        \* PL011 raw interrupt bits that are set
    ring,       \* bytes in the receive ring (what module BoundedFifo calls queue)
    reader,     \* "awake" or "asleep" in sys_read
    got,        \* the last byte sys_read copied to the user's buffer
    cpu         \* where the CPU is

vars == <<chip, sent, fifo, ris, ring, reader, got, cpu>>

\* pl011_init unmasks the level interrupt and the receive-timeout interrupt.
IMSC_LevelOnly == {"RX"}
IMSC == {"RX", "RT"}

\* The interrupt line.  The NS16550 raises it whenever a byte waits.
LineAsserted ==
    IF chip = "pl011" THEN ris \cap IMSC # {} ELSE fifo # <<>>

Init ==
    /\ chip \in Chips
    /\ sent = 0
    /\ fifo = <<>>
    /\ ris = {}
    /\ ring = <<>>
    /\ reader = "awake"
    /\ got = 0
    /\ cpu = "user"

-----------------------------------------------------------------------------
(* The device.                                                             *)

\* A byte arrives; reaching the trigger level sets RX; a full FIFO loses it.
Receive ==
    /\ sent < MAX_BYTES
    /\ sent' = sent + 1
    /\ \/ /\ Len(fifo) < FIFO_DEPTH
          /\ fifo' = Append(fifo, sent + 1)
          /\ ris' = IF Len(fifo) + 1 = TRIGGER THEN ris \cup {"RX"} ELSE ris
       \/ /\ Len(fifo) = FIFO_DEPTH
          /\ UNCHANGED <<fifo, ris>>
    /\ UNCHANGED <<chip, ring, reader, got, cpu>>

\* The line was idle for a while with bytes waiting.
ReceiveTimeout ==
    /\ chip = "pl011"
    /\ fifo # <<>>
    /\ "RT" \notin ris
    /\ ris' = ris \cup {"RT"}
    /\ UNCHANGED <<chip, sent, fifo, ring, reader, got, cpu>>

\* Reading the data register takes a byte out; RX drops with the level, RT with
\* the last byte.
BitsAfterRead(left) ==
    {b \in ris : (b = "RX" => left >= TRIGGER) /\ (b = "RT" => left > 0)}

-----------------------------------------------------------------------------
(* The driver, in interrupt context.                                       *)

Irq ==
    /\ cpu = "user"
    /\ LineAsserted
    /\ cpu' = "drain"
    /\ UNCHANGED <<chip, sent, fifo, ris, ring, reader, got>>

\* One turn of the drain loop; uart_rx_push drops the byte if the ring is full.
DrainByte_Overrun ==
    /\ cpu = "drain"
    /\ fifo # <<>>
    /\ fifo' = Tail(fifo)
    /\ ris' = BitsAfterRead(Len(fifo) - 1)
    /\ ring' = Append(ring, Head(fifo))
    /\ UNCHANGED <<chip, sent, reader, got, cpu>>
DrainByte ==
    /\ cpu = "drain"
    /\ fifo # <<>>
    /\ fifo' = Tail(fifo)
    /\ ris' = BitsAfterRead(Len(fifo) - 1)
    /\ ring' = IF Len(ring) < RING_CAPACITY THEN Append(ring, Head(fifo)) ELSE ring
    /\ UNCHANGED <<chip, sent, reader, got, cpu>>

\* The loop sees the FIFO empty; only the PL011 driver goes on to clear bits.
DrainDone ==
    /\ cpu = "drain"
    /\ fifo = <<>>
    /\ cpu' = IF chip = "pl011" THEN "ack" ELSE "wake"
    /\ UNCHANGED <<chip, sent, fifo, ris, ring, reader, got>>

\* The write to ICR clears both bits, whatever arrived since the loop ended.
Ack ==
    /\ cpu = "ack"
    /\ ris' = {}
    /\ cpu' = "wake"
    /\ UNCHANGED <<chip, sent, fifo, ring, reader, got>>

\* scheduler_wake_reader.
Wake_Skip ==
    /\ cpu = "wake"
    /\ cpu' = "user"
    /\ UNCHANGED <<chip, sent, fifo, ris, ring, reader, got>>
Wake ==
    /\ cpu = "wake"
    /\ reader' = "awake"
    /\ cpu' = "user"
    /\ UNCHANGED <<chip, sent, fifo, ris, ring, got>>

-----------------------------------------------------------------------------
(* The reader: the shell's sys_read of one byte.                           *)

Read_Last ==
    /\ cpu = "user"
    /\ reader = "awake"
    /\ \/ /\ ring # <<>>
          /\ got' = ring[Len(ring)]
          /\ ring' = SubSeq(ring, 1, Len(ring) - 1)
          /\ UNCHANGED reader
       \/ /\ ring = <<>>
          /\ reader' = "asleep"
          /\ UNCHANGED <<got, ring>>
    /\ UNCHANGED <<chip, sent, fifo, ris, cpu>>
Read ==
    /\ cpu = "user"
    /\ reader = "awake"
    /\ \/ /\ ring # <<>>
          /\ got' = Head(ring)
          /\ ring' = Tail(ring)
          /\ UNCHANGED reader
       \/ /\ ring = <<>>
          /\ reader' = "asleep"
          /\ UNCHANGED <<got, ring>>
    /\ UNCHANGED <<chip, sent, fifo, ris, cpu>>

-----------------------------------------------------------------------------

Driver == DrainByte \/ DrainDone \/ Ack \/ Wake

Next == Receive \/ ReceiveTimeout \/ Irq \/ Driver \/ Read

\* The handler runs to its end, an asserted line is served, a line that stays
\* idle times out, and the shell keeps reading.  Input may stop at any time.
Spec ==
    /\ Init /\ [][Next]_vars
    /\ WF_vars(Driver) /\ WF_vars(Irq) /\ WF_vars(ReceiveTimeout) /\ WF_vars(Read)

-----------------------------------------------------------------------------
(* Properties.                                                             *)

\* Types; the FIFO and the ring stay within their capacities.
TypeOK ==
    /\ chip \in Chips
    /\ sent \in 0 .. MAX_BYTES
    /\ fifo \in Seq(1 .. MAX_BYTES) /\ Len(fifo) <= FIFO_DEPTH
    /\ ris \subseteq {"RX", "RT"}
    /\ ring \in Seq(1 .. MAX_BYTES) /\ Len(ring) <= RING_CAPACITY
    /\ reader \in {"awake", "asleep"}
    /\ got \in 0 .. MAX_BYTES
    /\ cpu \in {"user", "drain", "ack", "wake"}

\* Bytes reach the reader in the order they were sent, none twice: the last byte
\* read, the ring and the FIFO form one increasing sequence.
InOrder ==
    LET path == <<got>> \o ring \o fifo
    IN  \A i \in 1 .. Len(path) - 1 : path[i] < path[i + 1]

\* The reader never sleeps over a byte that is already in the ring.
AwakeWhileRingHasBytes ==
    cpu = "user" /\ ring # <<>> => reader = "awake"

\* No byte is stranded: what waits in the UART is delivered even if its interrupt
\* was cleared by the driver before it was seen.
NoByteStranded ==
    fifo # <<>> ~> (fifo = <<>> /\ ring = <<>> /\ reader = "asleep")
=============================================================================
