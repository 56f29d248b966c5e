----------------------- MODULE ExceptionEngine_proofs -----------------------
(***************************************************************************)
(* The exception engine of ExceptionEngine.tla, for every guest, every     *)
(* layout of the special addresses and every decrementer width: its type,  *)
(* and the four rules about pending interrupts that the runs check.        *)
(***************************************************************************)
EXTENDS ExceptionEngine, TLAPS

-----------------------------------------------------------------------------
(* The decrementer (interpreter.c:11385) stays below its modulus.          *)
LEMMA CountedInRange == dec \in 0 .. DecMod - 1 => Counted \in 0 .. DecMod - 1
<1> SUFFICES ASSUME dec \in 0 .. DecMod - 1 PROVE Counted \in 0 .. DecMod - 1
  OBVIOUS
<1>1. DecMod \in Nat \ {0} /\ Scale \in 1 .. DecMod
  BY EngineAssumption
<1>2. dec + DecMod - Scale \in Nat
  BY <1>1
<1>3. \A n \in Nat : n % DecMod \in 0 .. DecMod - 1
  BY <1>1
<1> QED
  BY <1>2, <1>3 DEF Counted

LEMMA TypeInit == Init => TypeOK
<1> SUFFICES ASSUME Init PROVE TypeOK
  OBVIOUS
<1>1. dec \in 0 .. DecMod - 1
  BY EngineAssumption DEF Init
<1>2. /\ phase \in {"fetch", "check", "stopped"}
      /\ last \in {"start", "tick", "drop"} \cup Kind
      /\ rx \in Nat
  BY DEF Init
<1>3. /\ pending \in Kind \cup {None}
      /\ pc \in Addr /\ next \in Addr /\ srr0 \in Addr
      /\ ee \in BOOLEAN /\ srr1 \in BOOLEAN
      /\ negative \in BOOLEAN /\ written \in BOOLEAN
      /\ gate \in BOOLEAN /\ wasEe \in BOOLEAN
  BY DEF Init
<1> QED
  BY <1>1, <1>2, <1>3 DEF TypeOK

(* What every instruction leaves in place or sets within its type.         *)
RetiredOK ==
  /\ phase' = "check"
  /\ pc' = pc
  /\ next' \in Addr
  /\ wasEe' \in BOOLEAN
  /\ wasEe' = ee
  /\ last' = last
  /\ phase = "fetch"

LEMMA RetireType ==
  ASSUME TypeOK, NEW n \in Addr, Retire(n)
  PROVE  RetiredOK
  BY DEF TypeOK, Retire, RetiredOK

LEMMA SpecialAddresses ==
  /\ DrStart \in Addr
  /\ \A a \in Addr : Following[a] \in Addr
  /\ \A k \in Kind : Entry[k] \in Addr
  BY EngineAssumption

LEMMA ReturnAddrType ==
  ASSUME TypeOK, NEW a \in ReturnAddr
  PROVE  a \in Addr
<1>1. srr0 \in Addr /\ DispatchAddr \in Addr
  BY EngineAssumption DEF TypeOK
<1> QED
  BY <1>1 DEF ReturnAddr

LEMMA ReturnedEeType ==
  ASSUME TypeOK, NEW e \in ReturnedEe
  PROVE  e \in BOOLEAN
<1>1. srr1 \in BOOLEAN /\ ee \in BOOLEAN
  BY DEF TypeOK
<1>2. CASE pc = RettaskAddr
  BY <1>1, <1>2 DEF ReturnedEe
<1>3. CASE pc # RettaskAddr
  BY <1>1, <1>3 DEF ReturnedEe
<1> QED
  BY <1>2, <1>3

(* Opening the mask leaves the pending exception or raises DEC, and that   *)
(* only with the mask open and the decrementer armed.                      *)
LEMMA RaisedOnEnable ==
  ASSUME TypeOK, RaiseOnEnable
  PROVE  /\ pending' \in Kind \cup {None}
         /\ pending' = pending \/ (pending' = "DEC" /\ ee' /\ written)
  BY DEF TypeOK, RaiseOnEnable, DecDue, Kind, Async, None

LEMMA TypeStep == TypeOK /\ [Next]_vars => TypeOK'
<1> SUFFICES ASSUME TypeOK, [Next]_vars PROVE TypeOK'
  OBVIOUS
<1> USE DEF TypeOK, timer, saved
<1>1. CASE Plain
  BY <1>1, RetireType DEF Plain, RetiredOK
<1>2. CASE ReadRx
  <2>1. rx' \in Nat
    BY <1>2 DEF ReadRx
  <2> QED BY <1>2, <2>1, RetireType, SpecialAddresses DEF ReadRx, RetiredOK
<1>3. CASE Mtmsr
  BY <1>3, RetireType, RaisedOnEnable, SpecialAddresses DEF Mtmsr, RetiredOK
<1>4. CASE Rfi
  <2>1. srr0' \in Addr
    BY <1>4, ReturnAddrType DEF Rfi
  <2>2. RetiredOK
    BY <1>4, <2>1, RetireType DEF Rfi
  <2>3. srr1' \in BOOLEAN /\ ee' \in BOOLEAN
    BY <1>4, ReturnedEeType DEF Rfi
  <2> QED
    BY <1>4, <2>1, <2>2, <2>3, RaisedOnEnable DEF Rfi, RetiredOK
<1>5. CASE DrBootResume
  <2>1. DecStart \in 0 .. DecMod - 1
    BY EngineAssumption
  <2> QED
    BY <1>5, <2>1, RetireType, ReturnedEeType, SpecialAddresses
    DEF DrBootResume, RetiredOK
<1>6. CASE MtSrr
  BY <1>6, RetireType, SpecialAddresses DEF MtSrr, RetiredOK
<1>7. CASE MtDec
  <2>1. negative' \in BOOLEAN
    BY <1>7 DEF MtDec
  <2> QED BY <1>7, <2>1, RetireType, SpecialAddresses DEF MtDec, RetiredOK
<1>8. CASE Sc
  BY <1>8, RetireType, SpecialAddresses DEF Sc, RetiredOK, Kind, Sync
<1>9. CASE Trap
  BY <1>9, RetireType, SpecialAddresses DEF Trap, RetiredOK, Kind, Sync
<1>10. CASE FpUnavailable
  BY <1>10, RetireType DEF FpUnavailable, RetiredOK, Kind, Sync
<1>11. CASE Unsupported
  BY <1>11 DEF Unsupported
<1>12. CASE HostTakesOver
  BY <1>12 DEF HostTakesOver
<1>13. CASE QueueInput
  <2>1. Burst \in Nat
    BY EngineAssumption
  <2> QED BY <1>13, <2>1 DEF QueueInput
<1>14. CASE DropDec
  BY <1>14 DEF DropDec, Restart
<1>15. CASE Deliver
  <2>1. pending \in Kind
    BY <1>15 DEF Deliver
  <2> QED BY <1>15, <2>1, SpecialAddresses DEF Deliver, Restart
<1>16. CASE Tick
  <2>1. dec' \in 0 .. DecMod - 1
    BY <1>16, CountedInRange DEF Tick
  <2>2. negative' \in BOOLEAN
    BY <1>16 DEF Tick
  <2>3. pending' \in Kind \cup {None}
    BY <1>16 DEF Tick, Kind, Async, None
  <2> QED BY <1>16, <2>1, <2>2, <2>3 DEF Tick, Restart
<1>17. CASE UNCHANGED vars
  BY <1>17 DEF vars
<1> QED
  BY <1>1, <1>2, <1>3, <1>4, <1>5, <1>6, <1>7, <1>8, <1>9, <1>10, <1>11,
     <1>12, <1>13, <1>14, <1>15, <1>16, <1>17 DEF Next, Execute, Check

(* Every state the exception engine reaches has its type.                  *)
THEOREM TypeCorrect == Spec => []TypeOK
  BY TypeInit, TypeStep, PTL DEF Spec

-----------------------------------------------------------------------------
(* The rules about pending interrupts are inductive together: what an      *)
(* instruction may leave pending depends on what was pending between the   *)
(* turns.                                                                  *)
InterruptRules ==
  /\ PendingIsDeliverable
  /\ DueInterruptIsPending
  /\ InterruptFollowsEnabled
  /\ BootIsNotPreempted

(* What an instruction establishes of the rules it can disturb: the others *)
(* speak of phase "fetch", and gate' => gate.                              *)
RetiredRules ==
  /\ phase' = "check"
  /\ last' = last
  /\ gate' => gate
  /\ pending' \in Async => wasEe' \/ ee'

LEMMA RetiredRulesSuffice ==
  ASSUME InterruptRules, RetiredRules
  PROVE  InterruptRules'
  BY DEF InterruptRules, RetiredRules, PendingIsDeliverable, DueInterruptIsPending,
         InterruptFollowsEnabled, BootIsNotPreempted

(* An instruction that leaves pending alone was fetched with EE on when an *)
(* interrupt is pending.                                                   *)
LEMMA PendingKept ==
  ASSUME TypeOK, InterruptRules, NEW n \in Addr, Retire(n)
  PROVE  pending \in Async => wasEe'
<1>1. phase = "fetch" /\ wasEe' = ee
  BY DEF Retire
<1>2. pending \in Async => pending # None
  BY DEF Async, None
<1> QED
  BY <1>1, <1>2 DEF InterruptRules, PendingIsDeliverable

LEMMA RulesInit == Init => InterruptRules
  BY DEF Init, InterruptRules, PendingIsDeliverable, DueInterruptIsPending,
         InterruptFollowsEnabled, BootIsNotPreempted, Async, None, DecDue

LEMMA RulesStep == TypeOK /\ InterruptRules /\ [Next]_vars => InterruptRules'
<1> SUFFICES ASSUME TypeOK, InterruptRules, [Next]_vars PROVE InterruptRules'
  OBVIOUS
<1>0. srr0 \in Addr /\ pc \in Addr
  BY DEF TypeOK
<1>1. CASE Plain
  BY <1>1, PendingKept, RetiredRulesSuffice DEF Plain, Retire, RetiredRules, timer
<1>2. CASE ReadRx
  BY <1>2, PendingKept, RetiredRulesSuffice, SpecialAddresses, <1>0
  DEF ReadRx, Retire, RetiredRules, timer
<1>3. CASE Mtmsr
  BY <1>3, PendingKept, RaisedOnEnable, RetiredRulesSuffice, SpecialAddresses, <1>0
  DEF Mtmsr, Retire, RetiredRules, timer
<1>4. CASE Rfi
  <2>1. srr0' \in Addr /\ Retire(srr0') /\ UNCHANGED timer /\ RaiseOnEnable
    BY <1>4, ReturnAddrType DEF Rfi
  <2> QED
    BY <2>1, PendingKept, RaisedOnEnable, RetiredRulesSuffice
    DEF Retire, RetiredRules, timer
<1>5. CASE DrBootResume
  BY <1>5, PendingKept, RetiredRulesSuffice, SpecialAddresses
  DEF DrBootResume, Retire, RetiredRules
<1>6. CASE MtSrr
  BY <1>6, PendingKept, RetiredRulesSuffice, SpecialAddresses, <1>0
  DEF MtSrr, Retire, RetiredRules, timer
<1>7. CASE MtDec
  BY <1>7, PendingKept, RetiredRulesSuffice, SpecialAddresses, <1>0
  DEF MtDec, Retire, RetiredRules
<1>8. CASE Sc \/ Trap \/ FpUnavailable
  <2>1. pending' \notin Async
    BY <1>8 DEF Sc, Trap, FpUnavailable, Async
  <2> QED
    BY <1>8, <2>1, RetiredRulesSuffice
    DEF Sc, Trap, FpUnavailable, Retire, RetiredRules, timer
<1>9. CASE Unsupported
  BY <1>9
  DEF Unsupported, timer, InterruptRules, PendingIsDeliverable,
      DueInterruptIsPending, InterruptFollowsEnabled, BootIsNotPreempted
<1>10. CASE HostTakesOver
  BY <1>10
  DEF HostTakesOver, timer, InterruptRules, PendingIsDeliverable,
      DueInterruptIsPending, InterruptFollowsEnabled, BootIsNotPreempted, DecDue
<1>11. CASE QueueInput
  BY <1>11
  DEF QueueInput, timer, InterruptRules, PendingIsDeliverable,
      DueInterruptIsPending, InterruptFollowsEnabled, BootIsNotPreempted
<1>12. CASE DropDec
  BY <1>12
  DEF DropDec, Restart, timer, InterruptRules, PendingIsDeliverable,
      DueInterruptIsPending, InterruptFollowsEnabled, BootIsNotPreempted
<1>13. CASE Deliver
  <2>1. phase' = "fetch" /\ pending' = None /\ ee' = FALSE
    BY <1>13 DEF Deliver, Restart
  <2>2. gate' => last' # "DEC"
    BY <1>13 DEF Deliver, timer
  <2> QED
    BY <2>1, <2>2
    DEF InterruptRules, PendingIsDeliverable, DueInterruptIsPending,
        InterruptFollowsEnabled, BootIsNotPreempted
<1>14. CASE Tick
  <2>1. /\ phase' = "fetch" /\ last' = "tick"
        /\ ee' = ee /\ rx' = rx /\ gate' = gate /\ written' = written
    BY <1>14 DEF Tick, Restart
  <2>2. pending' = IF ee /\ rx > 0 THEN "EXT"
                   ELSE IF ee /\ Due THEN "DEC" ELSE None
    BY <1>14 DEF Tick
  <2>3. PendingIsDeliverable'
    BY <2>1, <2>2 DEF PendingIsDeliverable, Due, Async, None
  <2>4. DueInterruptIsPending'
    BY <2>1, <2>2 DEF DueInterruptIsPending, DecDue, Due, None
  <2> QED
    BY <2>1, <2>3, <2>4 DEF InterruptRules, InterruptFollowsEnabled, BootIsNotPreempted
<1>15. CASE UNCHANGED vars
  BY <1>15
  DEF vars, InterruptRules, PendingIsDeliverable, DueInterruptIsPending,
      InterruptFollowsEnabled, BootIsNotPreempted, DecDue
<1> QED
  BY <1>1, <1>2, <1>3, <1>4, <1>5, <1>6, <1>7, <1>8, <1>9, <1>10, <1>11,
     <1>12, <1>13, <1>14, <1>15 DEF Next, Execute, Check

LEMMA RulesHold == Spec => []InterruptRules
  BY TypeInit, TypeStep, RulesInit, RulesStep, PTL DEF Spec

(* No interrupt that is due is forgotten, whatever the guest executes.     *)
THEOREM NoInterruptForgotten == Spec => []DueInterruptIsPending
<1>1. InterruptRules => DueInterruptIsPending
  BY DEF InterruptRules
<1> QED
  BY <1>1, RulesHold, PTL

(* Between two turns only an armed interrupt is pending, and the guest can *)
(* take it; an interrupt is taken only after the guest had enabled it.     *)
THEOREM OnlyEnabledInterrupts == Spec => []InterruptsNeedEnabling
<1>1. InterruptRules => InterruptsNeedEnabling
  BY DEF InterruptRules, InterruptsNeedEnabling
<1> QED
  BY <1>1, RulesHold, PTL

(* The boot gate keeps the decrementer away from the boot code.            *)
THEOREM BootUndisturbed == Spec => []BootIsNotPreempted
<1>1. InterruptRules => BootIsNotPreempted
  BY DEF InterruptRules
<1> QED
  BY <1>1, RulesHold, PTL
=============================================================================
