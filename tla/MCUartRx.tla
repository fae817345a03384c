------------------------------ MODULE MCUartRx ------------------------------
(* Instances of UartRx for TLC: a FIFO of three bytes, an RX trigger above *)
(* one byte, a ring smaller than the input.                                *)
EXTENDS UartRx
=============================================================================
