--------------------------- MODULE SccFifo_proofs ---------------------------
(***************************************************************************)
(* The ring of SccFifo.tla, for every size and every set of bytes: its     *)
(* type, the rule about the pending flag, and that it implements           *)
(* BoundedFifo.                                                            *)
(***************************************************************************)
EXTENDS SccFifo, SequenceTheorems, TLAPS

-----------------------------------------------------------------------------
(* The arithmetic of the ring, with the remainder replaced by its cases.   *)

(* Advancing an index of the ring (interpreter.c:459 and :492) adds one or *)
(* returns to slot 0.                                                      *)
LEMMA AdvanceIndex ==
  ASSUME NEW N \in Nat \ {0}, NEW i \in 0 .. N - 1
  PROVE  (i + 1) % N = IF i = N - 1 THEN 0 ELSE i + 1
  OBVIOUS

(* A sum below twice the size is reduced by at most one subtraction (the   *)
(* Used of interpreter.c:448 and the slot of the i-th queued byte).        *)
LEMMA ReduceSum ==
  ASSUME NEW N \in Nat \ {0}, NEW k \in 0 .. 2 * N - 1
  PROVE  k % N = IF k < N THEN k ELSE k - N
  OBVIOUS

(* How many bytes the ring holds, by the order of head and tail.           *)
UsedByOrder ==
  /\ Used = IF head > tail THEN head - tail
            ELSE IF head < tail THEN head + Size - tail
            ELSE IF pending THEN Size ELSE 0
  /\ Used \in 0 .. Size

(* The Used of PpcSccPutChar is that number whatever the indices are.      *)
LEMMA UsedCases == TypeOK => UsedByOrder
<1> SUFFICES ASSUME TypeOK PROVE UsedByOrder
  OBVIOUS
<1>1. /\ Size \in Nat \ {0}
      /\ head \in 0 .. Size - 1
      /\ tail \in 0 .. Size - 1
      /\ pending \in BOOLEAN
  BY SccAssumption DEF TypeOK
<1>2. head + Size - tail \in 0 .. 2 * Size - 1
  BY <1>1
<1>3. \A k \in 0 .. 2 * Size - 1 : k % Size = IF k < Size THEN k ELSE k - Size
  BY <1>1, ReduceSum
<1>4. Distance = IF head + Size - tail < Size
                 THEN head + Size - tail
                 ELSE head + Size - tail - Size
  <2>1. PICK k \in 0 .. 2 * Size - 1 : k = head + Size - tail
    BY <1>2
  <2>2. k % Size = IF k < Size THEN k ELSE k - Size
    BY <1>3
  <2> QED BY <1>1, <2>1, <2>2 DEF Distance
<1> QED
  BY <1>1, <1>4 DEF Used, UsedByOrder

Slot(i) == IF tail + i - 1 < Size THEN tail + i - 1 ELSE tail + i - 1 - Size

(* The queue the ring stands for is a sequence of bytes, one per occupied  *)
(* slot, starting at tail.                                                 *)
ContentsBySlot ==
  /\ Contents \in Seq(Byte)
  /\ Len(Contents) = Used
  /\ \A i \in 1 .. Used : Contents[i] = fifo[Slot(i)]

(* The refinement mapping of SccFifo yields such a sequence in every state *)
(* of the right type.                                                      *)
LEMMA ContentsType == TypeOK => ContentsBySlot
<1> SUFFICES ASSUME TypeOK PROVE ContentsBySlot
  OBVIOUS
<1>1. /\ Size \in Nat \ {0}
      /\ tail \in 0 .. Size - 1
      /\ fifo \in [0 .. Size - 1 -> Byte]
      /\ Used \in 0 .. Size
  BY SccAssumption, UsedCases DEF TypeOK, UsedByOrder
<1>2. ASSUME NEW i \in 1 .. Used
      PROVE  /\ (tail + i - 1) % Size = Slot(i)
             /\ Slot(i) \in 0 .. Size - 1
  <2>1. tail + i - 1 \in 0 .. 2 * Size - 1
    BY <1>1
  <2>2. \A k \in 0 .. 2 * Size - 1 : k % Size = IF k < Size THEN k ELSE k - Size
    BY <1>1, ReduceSum
  <2>3. (tail + i - 1) % Size = Slot(i)
    <3>1. PICK k \in 0 .. 2 * Size - 1 : k = tail + i - 1
      BY <2>1
    <3>2. k % Size = IF k < Size THEN k ELSE k - Size
      BY <2>2
    <3> QED BY <1>1, <3>1, <3>2 DEF Slot
  <2> QED BY <1>1, <2>3 DEF Slot
<1>3. Contents = [i \in 1 .. Used |-> fifo[Slot(i)]]
  BY <1>2 DEF Contents, Occupancy
<1>4. Contents \in [1 .. Used -> Byte]
  BY <1>1, <1>2, <1>3
<1>5. Contents \in Seq(Byte)
  BY <1>1, <1>4, SeqDef
<1>6. Len(Contents) = Used
  BY <1>1, <1>4, <1>5, LenProperties
<1> QED BY <1>3, <1>5, <1>6 DEF ContentsBySlot

-----------------------------------------------------------------------------
(* Type correctness and the pending flag.                                  *)

IInv == TypeOK /\ QueuedIsPending

(* The type and the pending rule together are inductive: the put needs no  *)
(* more than the flag it sets, and the read recomputes the flag from the   *)
(* indices.                                                                *)
LEMMA IInvInductive ==
  /\ Init => IInv
  /\ IInv /\ [Next]_vars => IInv'
<1> USE SccAssumption
<1>1. Init => IInv
  <2>1. 0 \in 0 .. Size - 1
    OBVIOUS
  <2> QED BY <2>1 DEF Init, IInv, TypeOK, QueuedIsPending
<1>2. ASSUME IInv, [Next]_vars
      PROVE  IInv'
  <2> USE <1>2 DEF IInv, TypeOK, QueuedIsPending
  <2>1. CASE \E b \in Byte : PutChar(b)
    <3>1. PICK b \in Byte : PutChar(b)
      BY <2>1
    <3>2. (head + 1) % Size \in 0 .. Size - 1
      BY AdvanceIndex
    <3> QED BY <3>1, <3>2 DEF PutChar
  <2>2. CASE ReadData
    <3>1. (tail + 1) % Size \in 0 .. Size - 1
      BY AdvanceIndex
    <3> QED BY <2>2, <3>1 DEF ReadData
  <2>3. CASE ReadDataEmpty
    BY <2>3 DEF ReadDataEmpty, HasData
  <2>4. CASE ReadStatus
    BY <2>4 DEF ReadStatus, StatusByte
  <2>5. CASE ReadEvents
    BY <2>5 DEF ReadEvents, EventsWord
  <2>6. CASE UNCHANGED vars
    BY <2>6 DEF vars
  <2> QED BY <2>1, <2>2, <2>3, <2>4, <2>5, <2>6 DEF Next
<1> QED BY <1>1, <1>2

(* Every index stays inside the ring and every slot holds a byte, for      *)
(* every ring size.                                                        *)
THEOREM TypeCorrect == Spec => []TypeOK
<1>1. IInv => TypeOK
  BY DEF IInv
<1> QED BY <1>1, IInvInductive, PTL DEF Spec

(* A ring whose head and tail differ always has the pending flag up, and   *)
(* the polled status bit and the interrupt-event bit agree: no queued byte *)
(* is hidden from the guest.                                               *)
THEOREM NoHiddenByte == Spec => []InputIsNoticed
<1>1. IInv => InputIsNoticed
  BY DEF IInv, TypeOK, InputIsNoticed, QueuedIsPending,
         PollAgreesWithInterrupt, StatusByte, EventsWord, HasData
<1> QED BY <1>1, IInvInductive, PTL DEF Spec

-----------------------------------------------------------------------------
(* Refinement.                                                             *)

(* The ring is empty exactly when neither the indices nor the flag tell of *)
(* a byte.                                                                 *)
LEMMA EmptyContents ==
  IInv => /\ (Contents = <<>>) <=> ~HasData
          /\ (Contents # <<>>) <=> pending
<1> SUFFICES ASSUME TypeOK, QueuedIsPending
             PROVE  /\ (Contents = <<>>) <=> ~HasData
                    /\ (Contents # <<>>) <=> pending
  BY DEF IInv
<1>1. (Used = 0) <=> ~HasData
  BY UsedCases, SccAssumption DEF TypeOK, HasData, UsedByOrder
<1>2. HasData <=> pending
  BY DEF TypeOK, HasData, QueuedIsPending
<1>3. (Contents = <<>>) <=> (Len(Contents) = 0)
  BY ContentsType, EmptySeq DEF ContentsBySlot
<1> QED BY <1>1, <1>2, <1>3, ContentsType DEF ContentsBySlot

(* A put into a ring with room appends its byte to the queue; a put into a *)
(* full ring leaves the queue alone.                                       *)
LEMMA PutRefines ==
  ASSUME TypeOK, TypeOK', QueuedIsPending, NEW b \in Byte, PutChar(b)
  PROVE  Abstract!Put(b)
<1> USE SccAssumption
<1>1. ContentsBySlot /\ UsedByOrder
  BY ContentsType, UsedCases
<1>2. ContentsBySlot'
  BY ContentsType, PTL
<1>3. UsedByOrder'
  BY UsedCases, PTL
<1> USE DEF ContentsBySlot, UsedByOrder
<1>4. CASE Used < Size
  <2>1. /\ fifo' = [fifo EXCEPT ![head] = b]
        /\ head' = IF head = Size - 1 THEN 0 ELSE head + 1
        /\ pending' = TRUE
        /\ tail' = tail
    BY <1>4, AdvanceIndex DEF PutChar, TypeOK
  <2>2. Used' = Used + 1
    BY <1>1, <1>3, <1>4, <2>1 DEF TypeOK, QueuedIsPending
  <2>3. ASSUME NEW i \in 1 .. Used
        PROVE  Contents'[i] = Contents[i]
    <3>1. Slot(i)' = Slot(i) /\ Slot(i) # head /\ Slot(i) \in 0 .. Size - 1
      BY <1>1, <1>4, <2>1 DEF Slot, TypeOK, QueuedIsPending
    <3> QED BY <1>1, <1>2, <2>1, <2>2, <3>1 DEF TypeOK
  <2>4. Contents'[Used + 1] = b
    <3>1. PICK n \in 1 .. Used' : n = Used + 1
      BY <1>1, <2>2
    <3>2. Contents'[n] = fifo'[Slot(n)']
      BY <1>2, <3>1
    <3>3. Slot(n)' = head
      BY <1>1, <1>4, <2>1, <3>1 DEF Slot, TypeOK, QueuedIsPending
    <3> QED BY <2>1, <3>1, <3>2, <3>3 DEF TypeOK
  <2>5. Contents' = Append(Contents, b)
    <3>1. /\ Append(Contents, b) \in Seq(Byte)
          /\ Len(Append(Contents, b)) = Used + 1
          /\ \A i \in 1 .. Used : Append(Contents, b)[i] = Contents[i]
          /\ Append(Contents, b)[Used + 1] = b
      BY <1>1, AppendProperties
    <3>2. \A i \in 1 .. Used + 1 : Contents'[i] = Append(Contents, b)[i]
      BY <1>1, <2>3, <2>4, <3>1
    <3> QED BY <1>2, <2>2, <3>1, <3>2, SeqEqual
  <2> QED BY <1>1, <1>4, <2>5 DEF Abstract!Put, PutChar
<1>5. CASE Used = Size
  <2>1. /\ UNCHANGED <<fifo, head, tail>> /\ pending' = TRUE
    BY <1>5 DEF PutChar
  <2>2. Used' = Used
    BY <1>1, <1>3, <1>5, <2>1 DEF TypeOK
  <2>3. \A i \in 1 .. Used : Contents'[i] = Contents[i]
    BY <1>1, <1>2, <2>1, <2>2 DEF Slot
  <2>4. Contents' = Contents
    BY <1>1, <1>2, <2>2, <2>3, SeqEqual
  <2> QED BY <1>1, <1>5, <2>4 DEF Abstract!Put, PutChar
<1> QED BY <1>1, <1>4, <1>5

(* A data read of a ring that holds a byte returns the oldest one and      *)
(* removes it.                                                             *)
LEMMA ReadRefines ==
  ASSUME TypeOK, TypeOK', QueuedIsPending, ReadData
  PROVE  Abstract!GetByte
<1> USE SccAssumption
<1>1. ContentsBySlot /\ UsedByOrder
  BY ContentsType, UsedCases
<1>2. ContentsBySlot'
  BY ContentsType, PTL
<1>3. UsedByOrder'
  BY UsedCases, PTL
<1> USE DEF ContentsBySlot, UsedByOrder
<1>4. /\ fifo' = fifo /\ head' = head /\ rdata' = fifo[tail]
      /\ tail' = IF tail = Size - 1 THEN 0 ELSE tail + 1
      /\ pending' = (head # tail')
  BY AdvanceIndex DEF ReadData, TypeOK
<1>5. Used > 0 /\ Used' = Used - 1
  <2>1. pending = TRUE
    BY DEF TypeOK, ReadData, HasData, QueuedIsPending
  <2>2. Used = IF head > tail THEN head - tail ELSE head + Size - tail
    BY <1>1, <2>1 DEF TypeOK
  <2>3. Used' = IF head > tail' THEN head - tail'
                ELSE IF head < tail' THEN head + Size - tail'
                ELSE 0
    <3>1. head = tail' => pending' = FALSE
      BY <1>4
    <3>2. head \in Int /\ tail' \in Int /\ head' = head
      BY <1>4 DEF TypeOK
    <3>3. CASE head = tail'
      BY <1>3, <3>1, <3>2, <3>3
    <3>4. CASE head # tail'
      <4>1. head > tail' \/ head < tail'
        BY <3>2, <3>4
      <4> QED BY <1>3, <3>2, <4>1
    <3> QED BY <3>3, <3>4
  <2> QED BY <1>4, <2>2, <2>3 DEF TypeOK
<1>6. Contents # <<>>
  BY <1>1, <1>5, EmptySeq
<1>7. Head(Contents) = fifo[tail]
  <2>1. Slot(1) = tail
    BY DEF Slot, TypeOK
  <2> QED BY <1>1, <1>5, <1>6, <2>1
<1>8. \A i \in 1 .. Used - 1 : Contents'[i] = Contents[i + 1]
  <2>1. \A i \in 1 .. Used - 1 : Slot(i)' = Slot(i + 1)
    BY <1>1, <1>4, <1>5 DEF Slot, TypeOK
  <2>2. TAKE i \in 1 .. Used - 1
  <2>3. i \in 1 .. Used' /\ i + 1 \in 1 .. Used
    BY <1>1, <1>5
  <2>4. Contents'[i] = fifo'[Slot(i)'] /\ Contents[i + 1] = fifo[Slot(i + 1)]
    BY <1>1, <1>2, <2>3
  <2> QED BY <1>4, <2>1, <2>4
<1>9. Contents' = Tail(Contents)
  BY <1>1, <1>2, <1>5, <1>6, <1>8, HeadTailProperties, SeqEqual
<1> QED BY <1>4, <1>6, <1>7, <1>9 DEF Abstract!GetByte

(* Nothing but a put and a successful data read changes the queue.         *)
LEMMA ContentsUnchanged ==
  ASSUME TypeOK, UNCHANGED <<fifo, head, tail, pending>>
  PROVE  Contents' = Contents
  BY DEF Contents, Occupancy, Used, Distance

(* The ring implements the bounded queue, for every capacity: initial      *)
(* states map to the empty queue and every step of the ring to one step of *)
(* the queue or to none.                                                   *)
THEOREM Refinement == Spec => ImplementsFifo
<1> USE SccAssumption
<1>1. Init => Abstract!Init
  <2> SUFFICES ASSUME Init PROVE Abstract!Init
    OBVIOUS
  <2>1. IInv /\ ~HasData
    BY IInvInductive DEF Init, HasData
  <2> QED BY <2>1, EmptyContents DEF Init, Abstract!Init
<1>2. IInv /\ IInv' /\ [Next]_vars => [Abstract!Next]_(Abstract!vars)
  <2> SUFFICES ASSUME TypeOK, TypeOK', QueuedIsPending, [Next]_vars
               PROVE  [Abstract!Next]_(Abstract!vars)
    BY DEF IInv
  <2>1. CASE \E b \in Byte : PutChar(b)
    BY <2>1, PutRefines DEF Abstract!Next
  <2>2. CASE ReadData
    BY <2>2, ReadRefines DEF Abstract!Next
  <2>3. CASE ReadDataEmpty
    <3>1. UNCHANGED <<fifo, head, tail, pending>> /\ rdata' = 0
      BY <2>3 DEF ReadDataEmpty, HasData, TypeOK
    <3>2. Contents = <<>>
      BY <2>3, EmptyContents DEF ReadDataEmpty, IInv
    <3> QED BY <3>1, <3>2, ContentsUnchanged DEF Abstract!Next, Abstract!GetNothing
  <2>4. CASE ReadStatus
    <3>1. rdata' = Abstract!StatusValue(Contents # <<>>)
      BY <2>4, EmptyContents DEF ReadStatus, StatusByte, Abstract!StatusValue, IInv, TypeOK
    <3> QED BY <2>4, <3>1, ContentsUnchanged
            DEF ReadStatus, Abstract!Next, Abstract!GetStatus
  <2>5. CASE ReadEvents
    <3>1. rdata' = Abstract!EventsValue(Contents # <<>>)
      BY <2>5, EmptyContents DEF ReadEvents, EventsWord, Abstract!EventsValue, IInv
    <3> QED BY <2>5, <3>1, ContentsUnchanged
            DEF ReadEvents, Abstract!Next, Abstract!GetEvents
  <2>6. CASE UNCHANGED vars
    BY <2>6, ContentsUnchanged DEF vars, Abstract!vars
  <2> QED BY <2>1, <2>2, <2>3, <2>4, <2>5, <2>6 DEF Next
<1> QED BY <1>1, <1>2, IInvInductive, PTL DEF Spec, ImplementsFifo, Abstract!Spec
=============================================================================
