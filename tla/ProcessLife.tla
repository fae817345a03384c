---------------------------- MODULE ProcessLife ----------------------------
(***************************************************************************)
(* What the kernel promises its processes, without its table states, flags *)
(* and wait slot: each is live, asleep for input or gone, and one of them  *)
(* has the CPU.  Module Kernel implements this specification.              *)
(***************************************************************************)
EXTENDS Naturals

CONSTANTS
    Procs,
    Capacity        \* received bytes kept for the readers

VARIABLES
    life,           \* life[p]: "live", "asleep" or "gone"
    cpu,            \* the process that has the CPU
    unread          \* received bytes nobody has read yet

lifeVars == <<life, cpu, unread>>

Init ==
    /\ life = [p \in Procs |-> "live"]
    /\ cpu \in Procs
    /\ unread = 0

\* The CPU is only ever handed to a live process.
Switch ==
    /\ \E p \in Procs : life[p] = "live" /\ cpu' = p
    /\ UNCHANGED <<life, unread>>

\* The process on the CPU, which is not asleep, exits, faults or kills some process.
Retire ==
    /\ life[cpu] # "asleep"
    /\ \E p \in Procs : life' = [life EXCEPT ![p] = "gone"]
    /\ UNCHANGED <<cpu, unread>>

\* Only the process on the CPU falls asleep, by its own call, and only when there
\* is nothing to read.  One that is gone still has the CPU, and can still make a
\* call, only when nobody else is live.
Sleep ==
    /\ unread = 0
    /\ life[cpu] = "gone" => \A p \in Procs : life[p] # "live"
    /\ life' = [life EXCEPT ![cpu] = "asleep"]
    /\ UNCHANGED <<cpu, unread>>

\* Input arrives and wakes at most one process, which was asleep off the CPU.
Deliver ==
    /\ unread' \in unread .. Capacity /\ unread' > 0
    /\ \/ \E p \in Procs \ {cpu} :
             life[p] = "asleep" /\ life' = [life EXCEPT ![p] = "live"]
       \/ UNCHANGED life
    /\ UNCHANGED cpu

\* The process on the CPU, which is not asleep, reads.
Take ==
    /\ life[cpu] # "asleep"
    /\ unread' \in 0 .. unread
    /\ UNCHANGED <<life, cpu>>

Next == Switch \/ Retire \/ Sleep \/ Deliver \/ Take

Spec == Init /\ [][Next]_lifeVars
=============================================================================
