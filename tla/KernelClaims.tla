---------------------------- MODULE KernelClaims ----------------------------
(* Claims that comments and documents of the repository make about the     *)
(* kernel and that its code does not keep.  Each is checked by a run that  *)
(* exhibits a counterexample.                                              *)
EXTENDS Kernel

\* syscall.c, sys_exit: "the kernel never returns to this process's saved user
\* frame", that is, no DEAD process executes in user mode.
DeadNeverInUserMode ==
    pc[current] = "user" => state[current] # "DEAD"

\* docs/tech_docs/09_shell.md on sys_read: the process sleeps and "When data
\* arrives, the hardware wakes it up".
InputWakesReader ==
    \A p \in Procs :
        state[p] = "BLOCKED" /\ fifo > 0 ~> state[p] # "BLOCKED" \/ Halted

\* exception_handlers.c, user-mode fault helpers: "the kernel survives, the
\* offending process is retired"; so a fault halts the machine at most when
\* nobody is left to run, now or after the next byte of input.
FaultSparesSleepers ==
    Halted => \A p \in Procs : state[p] # "BLOCKED"
=============================================================================
