------------------------------ MODULE UartRing ------------------------------
(* The receive ring of uart_core.c: free-running unsigned indices rx_head  *)
(* and rx_tail that wrap at their width and are masked on every access.    *)
(* The producer is the UART interrupt, the consumer sys_read; both run     *)
(* with IRQs masked, so each call is one step.                             *)
EXTENDS Integers, Sequences

CONSTANTS
    UART_RX_BUF_SIZE,   \* slots of rx_buf, a power of two
    INDEX_RANGE,        \* values of the index type: 2^32, a multiple of the size
    CHAR_MAX,           \* of the compiler: 255 (ARM's default) or 127
    Byte                \* bytes read from the data register, within 0 .. 255

ASSUME RingAssumption ==
    /\ UART_RX_BUF_SIZE \in Nat \ {0}
    /\ INDEX_RANGE \in Nat \ {0}
    /\ INDEX_RANGE % UART_RX_BUF_SIZE = 0
    /\ CHAR_MAX \in {127, 255}
    /\ Byte \subseteq 0 .. 255

VARIABLES rx_buf, rx_head, rx_tail, popped

vars == <<rx_buf, rx_head, rx_tail, popped>>

\* The slot an index stands for: & UART_RX_MASK.
Slot(i) == i % UART_RX_BUF_SIZE

\* Index arithmetic is modulo the width of uint32_t.
Succ(i) == (i + 1) % INDEX_RANGE

\* rx_buf holds char, with or without a sign; uart_rx_pop converts it to unsigned
\* char, then to int.
ToChar(b) == IF b > CHAR_MAX THEN b - 256 ELSE b
ToInt_SignExtends(c) == IF c > 127 THEN c - 256 ELSE c
ToInt(c) == c % 256

Init ==
    /\ rx_buf = [i \in 0 .. UART_RX_BUF_SIZE - 1 |-> 0]
    /\ rx_head = 0
    /\ rx_tail = 0
    /\ popped = -1

RoomLeft_Unmasked == Succ(rx_head) # rx_tail
RoomLeft == Slot(Succ(rx_head)) # Slot(rx_tail)

uart_rx_push(b) ==
    /\ \/ /\ RoomLeft
          /\ rx_buf' = [rx_buf EXCEPT ![Slot(rx_head)] = ToChar(b)]
          /\ rx_head' = Succ(rx_head)
       \/ /\ ~RoomLeft
          /\ UNCHANGED <<rx_buf, rx_head>>
    /\ UNCHANGED <<rx_tail, popped>>

uart_rx_empty == rx_head = rx_tail

uart_rx_pop ==
    /\ \/ /\ uart_rx_empty
          /\ popped' = -1
          /\ UNCHANGED rx_tail
       \/ /\ ~uart_rx_empty
          /\ popped' = ToInt(rx_buf[Slot(rx_tail)])
          /\ rx_tail' = Succ(rx_tail)
    /\ UNCHANGED <<rx_buf, rx_head>>

Next == uart_rx_pop \/ \E b \in Byte : uart_rx_push(b)

Spec == Init /\ [][Next]_vars

-----------------------------------------------------------------------------
(* Properties.                                                             *)

\* Types; the free-running indices keep their width.
TypeOK ==
    /\ rx_buf \in [0 .. UART_RX_BUF_SIZE - 1 -> CHAR_MAX - 255 .. CHAR_MAX]
    /\ rx_head \in 0 .. INDEX_RANGE - 1
    /\ rx_tail \in 0 .. INDEX_RANGE - 1
    /\ popped \in Byte \cup {-1}

\* Bytes waiting, across the wrap of the indices.
Occupancy == (rx_head - rx_tail) % INDEX_RANGE

Waiting == [i \in 1 .. Occupancy |-> ToInt(rx_buf[Slot(rx_tail + i - 1)])]

\* The abstract queue, over the bytes between the two indices.
Fifo == INSTANCE BoundedFifo
            WITH queue <- Waiting, Capacity <- UART_RX_BUF_SIZE - 1, Nothing <- -1

\* uart_rx_push and uart_rx_pop implement the bounded FIFO: no byte is duplicated,
\* reordered or overwritten, none is dropped while a slot is free, and -1 means
\* empty and nothing else.
ImplementsFifo == Fifo!Spec
=============================================================================
