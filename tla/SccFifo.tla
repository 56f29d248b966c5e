------------------------------ MODULE SccFifo ------------------------------
(***************************************************************************)
(* The receive queue of the emulated Zilog 8530 (src/cpu/interpreter.c):   *)
(* a ring of Size slots with a head, a tail and a "pending" flag that      *)
(* tells a full ring from an empty one, both of which have head = tail.    *)
(* Bytes enter through PpcSccPutChar, called by the host; they leave when  *)
(* the guest reads the data register through PpcDefaultReadByte, which     *)
(* serves the status register and the interrupt-event registers as well.   *)
(* A guest load wider than a byte is several of these reads in a row.      *)
(***************************************************************************)
EXTENDS Naturals, Sequences

CONSTANTS Byte,   \* the bytes the host may queue
          Size    \* sizeof(g_SccRxFifo), 64 in the program

ASSUME SccAssumption == /\ Size \in Nat \ {0}
                        /\ Byte \subseteq Nat
                        /\ 0 \in Byte

VARIABLES fifo,     \* g_SccRxFifo
          head,     \* g_SccRxFifoHead: the slot the next byte goes to
          tail,     \* g_SccRxFifoTail: the slot of the oldest byte
          pending,  \* g_SccRxPending
          rdata     \* the value the last register read returned

vars == <<fifo, head, tail, pending, rdata>>

TypeOK == /\ fifo \in [0 .. Size - 1 -> Byte]
          /\ head \in 0 .. Size - 1
          /\ tail \in 0 .. Size - 1
          /\ pending \in BOOLEAN
          /\ rdata \in Nat

\* All of it is .bss of the program: zero when the guest starts.
Init == /\ fifo = [i \in 0 .. Size - 1 |-> 0]
        /\ head = 0
        /\ tail = 0
        /\ pending = FALSE
        /\ rdata = 0

Distance == (head + Size - tail) % Size

\* Mutant of Used: without the flag a full ring passes for an empty one.
UsedIgnoringFlag == Distance

\* The local Used of PpcSccPutChar.
Used == IF Distance = 0 /\ pending THEN Size ELSE Distance

\* Mutant of HasData: the head # tail guard alone.
HasDataIgnoringFlag == head # tail

\* PpcSccHasData, and the same condition in the data-register read.
HasData == head # tail \/ pending

PutChar(b) ==
  /\ IF Used < Size
       THEN /\ fifo' = [fifo EXCEPT ![head] = b]
            /\ head' = (head + 1) % Size
       ELSE UNCHANGED <<fifo, head>>
  /\ pending' = TRUE
  /\ UNCHANGED <<tail, rdata>>

\* Mutant of ReadData: a read leaves nothing pending.
ReadDataClears ==
  /\ HasData
  /\ rdata' = fifo[tail]
  /\ tail' = (tail + 1) % Size
  /\ pending' = FALSE
  /\ UNCHANGED <<fifo, head>>

\* A read of 0x20006 or 0x20008 while a byte is queued.
ReadData ==
  /\ HasData
  /\ rdata' = fifo[tail]
  /\ tail' = (tail + 1) % Size
  /\ pending' = (head # tail')
  /\ UNCHANGED <<fifo, head>>

\* The same read of an empty queue.
ReadDataEmpty ==
  /\ ~HasData
  /\ pending' = FALSE
  /\ rdata' = 0
  /\ UNCHANGED <<fifo, head, tail>>

\* 0x20000, 0x20002 and 0x20004: Tx empty is always reported, Rx ready is
\* the pending flag alone.
StatusByte == IF pending THEN 5 ELSE 4

ReadStatus == /\ rdata' = StatusByte
              /\ UNCHANGED <<fifo, head, tail, pending>>

\* Offsets 0x20 and 0x38 of the interrupt controller: the SCC event bit.
EventsWord == IF HasData THEN 2 ELSE 0

ReadEvents == /\ rdata' = EventsWord
              /\ UNCHANGED <<fifo, head, tail, pending>>

Next == \/ \E b \in Byte : PutChar(b)
        \/ ReadData
        \/ ReadDataEmpty
        \/ ReadStatus
        \/ ReadEvents

Spec == Init /\ [][Next]_vars

-----------------------------------------------------------------------------
(* Every byte between tail and head is marked as pending.  The put trusts  *)
(* the flag to recognise a full ring and the status register reports       *)
(* nothing else, so a queued byte with the flag down would be overwritten  *)
(* by the next burst and never polled for (the off-by-one the comment at   *)
(* interpreter.c:452 describes).                                           *)
QueuedIsPending == head # tail => pending

(* The two ways the guest can learn of input agree: the Rx-ready bit it    *)
(* polls and the event bit the External handler dispatches on.             *)
PollAgreesWithInterrupt == (StatusByte = 5) <=> (EventsWord = 2)

(* No queued byte is hidden from the guest, whichever way it looks.        *)
InputIsNoticed == QueuedIsPending /\ PollAgreesWithInterrupt

Occupancy == Used

Contents == [i \in 1 .. Occupancy |-> fifo[(tail + i - 1) % Size]]

(* The ring implements the bounded queue: bytes come out in the order they *)
(* went in, each once, Size of them fit, and only the byte that does not   *)
(* fit is dropped (what PpcRunSccDeviceSelfTest samples with 65 puts).     *)
Abstract == INSTANCE BoundedFifo WITH Capacity <- Size, queue <- Contents

ImplementsFifo == Abstract!Spec
=============================================================================
