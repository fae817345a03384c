----------------------------- MODULE BoundedFifo -----------------------------
(* What the UART receive ring promises its two users: bytes come out once  *)
(* and in the order they went in, a byte is refused only when Capacity     *)
(* bytes are waiting, and the consumer learns Nothing exactly when none is.*)
EXTENDS Integers, Sequences

CONSTANTS
    Byte,           \* the bytes the UART can deliver
    Capacity,       \* bytes that can wait
    Nothing         \* what the consumer gets when none waits; not a Byte

VARIABLES queue, popped

Init == queue = <<>> /\ popped = Nothing

Push(b) ==
    /\ queue' = IF Len(queue) < Capacity THEN Append(queue, b) ELSE queue
    /\ UNCHANGED popped

PopNothing ==
    /\ queue = <<>>
    /\ popped' = Nothing
    /\ UNCHANGED queue

Pop ==
    /\ queue # <<>>
    /\ popped' = Head(queue)
    /\ queue' = Tail(queue)

Next == PopNothing \/ Pop \/ \E b \in Byte : Push(b)

Spec == Init /\ [][Next]_<<queue, popped>>
=============================================================================
