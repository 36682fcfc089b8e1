------------------------------ MODULE LogFifo ------------------------------
(***************************************************************************)
(* What platform/nrf51822/log.c promises: a bounded queue of bytes between *)
(* the log functions and the UART.  A message enters whole or not at all,  *)
(* and bytes leave one by one in the order in which they entered.          *)
(***************************************************************************)
EXTENDS Naturals, Sequences

CONSTANTS Capacity, Bytes,
    Messages    \* what can enter at once: sequences of bytes

VARIABLES
    queue,      \* the bytes that wait
    out         \* the byte last given to the UART

Init == /\ queue \in Seq(Bytes) /\ Len(queue) <= Capacity
        /\ out \in Bytes

Put(m) == /\ Len(queue) + Len(m) <= Capacity
          /\ queue' = queue \o m
          /\ UNCHANGED out

Get == /\ queue # <<>>
       /\ out' = Head(queue)
       /\ queue' = Tail(queue)

Next == Get \/ \E m \in Messages : Put(m)

Spec == Init /\ [][Next]_<<queue, out>>
=============================================================================
