------------------------------ MODULE MCKernel ------------------------------
(* Instances of Kernel for TLC.                                            *)
EXTENDS KernelClaims

\* Arbitrary user programs in every slot, readers included.
AnyPrograms == [p \in 0 .. 2 |-> UserOps]

\* Arbitrary programs, but only the last one reads the UART.
OneReader == [p \in 0 .. 2 |-> IF p = 2 THEN UserOps ELSE UserOps \ {"read"}]

\* The three images the kernel is shipped with: counter, runaway, shell.
ShippedApps == <<{"call", "yield"}, {"call"}, {"call", "read", "kill", "fault"}>>
ShippedPrograms == [p \in 0 .. 2 |-> ShippedApps[p + 1]]
=============================================================================
