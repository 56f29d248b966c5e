---------------------------- MODULE BoundedFifo ----------------------------
(***************************************************************************)
(* What the receive side of the emulated SCC promises to the guest: a      *)
(* first-in first-out queue of at most Capacity bytes.  A byte offered to  *)
(* a full queue is dropped, a data read of an empty queue answers 0, and   *)
(* the status and interrupt-event registers tell whether a byte waits.     *)
(***************************************************************************)
EXTENDS Naturals, Sequences

CONSTANTS Byte,      \* the bytes the host may queue
          Capacity   \* how many of them the queue holds

VARIABLES queue,     \* the bytes accepted and not read yet, oldest first
          rdata      \* the value the last register read returned

vars == <<queue, rdata>>

StatusValue(ready) == IF ready THEN 5 ELSE 4
EventsValue(ready) == IF ready THEN 2 ELSE 0

TypeOK == /\ queue \in Seq(Byte)
          /\ Len(queue) <= Capacity
          /\ rdata \in Nat

Init == queue = <<>> /\ rdata = 0

Put(b) == /\ queue' = IF Len(queue) < Capacity THEN Append(queue, b) ELSE queue
          /\ UNCHANGED rdata

GetByte == /\ queue # <<>>
           /\ rdata' = Head(queue)
           /\ queue' = Tail(queue)

GetNothing == /\ queue = <<>>
              /\ rdata' = 0
              /\ UNCHANGED queue

GetStatus == /\ rdata' = StatusValue(queue # <<>>)
             /\ UNCHANGED queue

GetEvents == /\ rdata' = EventsValue(queue # <<>>)
             /\ UNCHANGED queue

Next == \/ \E b \in Byte : Put(b)
        \/ GetByte
        \/ GetNothing
        \/ GetStatus
        \/ GetEvents

Spec == Init /\ [][Next]_vars
=============================================================================
