----------------------------- MODULE MCUartRing -----------------------------
(* Instance of UartRing for TLC: four slots, indices that wrap after eight *)
(* steps, and the bytes at the edges of unsigned and of signed char.       *)
EXTENDS UartRing
=============================================================================
