----------------------------- MODULE MCSyscalls -----------------------------
(* Two processes on a machine of 32 addresses with a user window of 16.    *)
EXTENDS Syscalls

MCName == [p \in Procs |-> IF p = 0 THEN <<99>> ELSE <<115, 104>>]

MCStateName ==
    [READY |-> <<82>>, RUNNING |-> <<85>>, BLOCKED |-> <<66>>, DEAD |-> <<68>>]
=============================================================================
