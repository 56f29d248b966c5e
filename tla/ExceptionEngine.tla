-------------------------- MODULE ExceptionEngine --------------------------
(***************************************************************************)
(* The exception engine of the PowerPC interpreter: the guest loop         *)
(* PpcRunGuest (src/cpu/interpreter.c), the instructions it executes that  *)
(* touch exception state, and PpcHandleException (translation_impl.c).     *)
(*                                                                         *)
(* One turn of the loop is two steps.  In phase "fetch" the instruction at *)
(* pc is executed, or a host hook takes its place; it may raise a          *)
(* synchronous exception, open the interrupt mask, reload the decrementer  *)
(* or drain the SCC queue.  In phase "check" the loop delivers or drops    *)
(* the exception that is pending or, when there is none, advances the      *)
(* decrementer and raises the interrupts that are due.  What the loop      *)
(* raises in one turn is therefore delivered after the instruction of the  *)
(* next turn.                                                              *)
(*                                                                         *)
(* The guest is arbitrary: any instruction may stand at any address and    *)
(* branch anywhere.  MSR and SRR1 are represented by their EE bit, the SCC *)
(* queue (module SccFifo) by the number of bytes in it.  The time base     *)
(* advances with the decrementer and is left out.                          *)
(***************************************************************************)
EXTENDS Naturals

CONSTANTS
  Addr,        \* the guest's code addresses
  StubAddr,    \* 0xBD80 .. 0xBE80, the soft-function stub
  HookAddr,    \* where the host takes over instead of the instruction
  CellAddr,    \* the translated 68K cells, which the host may take over
  RettaskAddr, \* 0x40B24524, the rfi of the task switch
  IcdAddr,     \* 0x40B14A04, the rfi of the fabricated level-9 dispatch
  ZeroAddr,    \* address 0, where a task without context would resume
  YieldAddr,   \* 0x40B6E8C8, the trap the 68K emulator yields with
  DispatchAddr,\* 0x40B67B60, the emulator's dispatch loop
  DrStart,     \* 0x40B6E964, where the 68K emulator starts
  Entry,       \* the handler the vector table holds for each exception
  Following,   \* the address of the next instruction
  DecMod,      \* 2^32: the decrementer counts modulo this
  Scale,       \* PPC_TIMEBASE_SCALE
  DecStart,    \* 0x01000000, the interval the emulator start parks DEC at
  Burst        \* the bytes the host queues at once ('g' CR 'g' CR)

Sync  == {"TRAP", "SC", "FP"}
Async == {"DEC", "EXT"}
Kind  == Sync \cup Async
None  == "none"

ASSUME EngineAssumption ==
  /\ StubAddr \subseteq Addr
  /\ HookAddr \subseteq Addr
  /\ CellAddr \subseteq Addr
  /\ {RettaskAddr, IcdAddr, ZeroAddr, YieldAddr, DispatchAddr, DrStart} \subseteq Addr
  /\ Entry \in [Kind -> Addr]
  /\ Following \in [Addr -> Addr]
  /\ DecMod \in Nat \ {0}
  /\ Scale \in 1 .. DecMod
  /\ DecStart \in 0 .. DecMod - 1 /\ 2 * DecStart < DecMod
  /\ Burst \in Nat \ {0}

VARIABLES
  phase,     \* "fetch", "check" or "stopped": where the turn stands
  pc,        \* Pc, the local Current during a turn
  next,      \* the local Next of the turn
  pending,   \* ExceptionPending
  ee,        \* MSR[EE]
  srr0,      \* Srr0
  srr1,      \* Srr1[EE]
  dec,       \* Spr[SPR_DEC]
  negative,  \* DecrementerNegative
  written,   \* DecrementerWritten
  gate,      \* g_BootDecGate
  rx,        \* how many bytes the SCC receive queue holds
  last,      \* history: what the loop did last with a pending exception
  wasEe      \* history: MSR[EE] when the turn's instruction was fetched

vars == <<phase, pc, next, pending, ee, srr0, srr1, dec, negative, written,
          gate, rx, last, wasEe>>
timer == <<dec, negative, written, gate>>
saved == <<srr0, srr1>>

TypeOK ==
  /\ phase \in {"fetch", "check", "stopped"}
  /\ pc \in Addr
  /\ next \in Addr
  /\ pending \in Kind \cup {None}
  /\ ee \in BOOLEAN
  /\ srr0 \in Addr
  /\ srr1 \in BOOLEAN
  /\ dec \in 0 .. DecMod - 1
  /\ negative \in BOOLEAN
  /\ written \in BOOLEAN
  /\ gate \in BOOLEAN
  /\ rx \in Nat
  /\ last \in {"start", "tick", "drop"} \cup Kind
  /\ wasEe \in BOOLEAN

\* main.c clears the context and enters the ROM with EE off; the guest loop
\* clears ExceptionPending on entry and is entered once.
Init ==
  /\ phase = "fetch"
  /\ pc \in Addr
  /\ next = pc
  /\ pending = None
  /\ ee = FALSE
  /\ srr0 \in Addr
  /\ srr1 = FALSE
  /\ dec = 0
  /\ negative = FALSE
  /\ written = FALSE
  /\ gate = TRUE
  /\ rx = 0
  /\ last = "start"
  /\ wasEe = FALSE

-----------------------------------------------------------------------------
(* The instruction of a turn.                                              *)

\* The instruction at pc is executed and goes on to n.
Retire(n) ==
  /\ phase = "fetch"
  /\ pc \notin HookAddr
  /\ phase' = "check"
  /\ next' = n
  /\ wasEe' = ee
  /\ UNCHANGED <<pc, last>>

\* An arithmetic, memory or branch instruction.
Plain == /\ \E n \in Addr : Retire(n)
         /\ UNCHANGED <<pending, ee, saved, timer, rx>>

\* A load that covers an SCC data register: it removes one byte or, when it
\* covers both lanes, two.
ReadRx == /\ rx > 0
          /\ Retire(Following[pc])
          /\ rx' \in {rx - 1} \cup (IF rx > 1 THEN {rx - 2} ELSE {})
          /\ UNCHANGED <<pending, ee, saved, timer>>

DecDue == negative /\ written

\* Mutants of RaiseOnEnable: nothing is raised, or whatever the mask is.
NothingOnEnable == UNCHANGED pending
RaiseOnMsrWrite ==
  pending' = IF DecDue /\ pending = None THEN "DEC" ELSE pending

\* Opening the mask raises a decrementer exception that is already due.
RaiseOnEnable ==
  pending' = IF ee' /\ DecDue /\ pending = None THEN "DEC" ELSE pending

Mtmsr == /\ Retire(Following[pc])
         /\ ee' \in BOOLEAN
         /\ RaiseOnEnable
         /\ UNCHANGED <<saved, timer, rx>>

\* The task switch keeps the EE bit it already has, and the fabricated
\* level-9 dispatch may have it forced on.
ReturnedEe == IF pc = RettaskAddr THEN {srr1 \/ ee}
              ELSE {srr1} \cup (IF pc = IcdAddr THEN {TRUE} ELSE {})

\* A task that yielded inside a 68K program resumes at the dispatch loop,
\* not at the trap it yielded with.
ReturnAddr == {srr0} \cup (IF srr0 = YieldAddr THEN {DispatchAddr} ELSE {})

Rfi == /\ srr0' \in ReturnAddr
       /\ Retire(srr0')
       /\ srr1' \in ReturnedEe
       /\ ee' = srr1'
       /\ RaiseOnEnable
       /\ UNCHANGED <<timer, rx>>

\* The rfi that would resume the missing boot task starts the 68K emulator
\* instead, once: DEC is parked positive and the boot gate lifted.
DrBootResume ==
  /\ srr0 = ZeroAddr
  /\ gate
  /\ Retire(DrStart)
  /\ srr0' = DrStart
  /\ srr1' \in ReturnedEe
  /\ ee' = srr1'
  /\ dec' = DecStart
  /\ negative' = FALSE
  /\ gate' = FALSE
  /\ UNCHANGED <<pending, written, rx>>

MtSrr == /\ Retire(Following[pc])
         /\ \/ srr0' \in Addr /\ UNCHANGED srr1
            \/ srr1' \in BOOLEAN /\ UNCHANGED srr0
         /\ UNCHANGED <<pending, ee, timer, rx>>

\* A value with the top bit set counts as already expired.
MtDec == /\ Retire(Following[pc])
         /\ dec' \in 0 .. DecMod - 1
         /\ negative' = (2 * dec' >= DecMod)
         /\ written' = TRUE
         /\ UNCHANGED <<pending, ee, saved, gate, rx>>

\* sc inside a handler that was entered with EE on keeps the outer SRR1.
Sc == /\ Retire(Following[pc])
      /\ pending' = "SC"
      /\ srr0' = Following[pc]
      /\ srr1' = IF ee \/ ~srr1 THEN ee ELSE srr1
      /\ UNCHANGED <<ee, timer, rx>>

\* twi and tw with their condition true.
Trap == /\ Retire(Following[pc])
        /\ pending' = "TRAP"
        /\ srr0' = pc
        /\ srr1' = ee
        /\ UNCHANGED <<ee, timer, rx>>

\* A floating-point instruction with MSR[FP] off is to be executed again.
FpUnavailable == /\ Retire(pc)
                 /\ pending' = "FP"
                 /\ srr0' = pc
                 /\ srr1' = ee
                 /\ UNCHANGED <<ee, timer, rx>>

\* An instruction the interpreter does not know ends the run.
Unsupported == /\ phase = "fetch"
               /\ pc \notin HookAddr
               /\ phase' = "stopped"
               /\ UNCHANGED <<pc, next, pending, ee, saved, timer, rx, last, wasEe>>

\* The host serves the address itself (a Memory Manager import, the 68K
\* RESET escape), or a 68K cell that is not translated yet, and goes on
\* elsewhere; nothing is checked and no time passes.
HostTakesOver == /\ phase = "fetch"
                 /\ pc \in HookAddr \cup CellAddr
                 /\ pc' \in Addr
                 /\ UNCHANGED <<phase, next, pending, ee, saved, timer, rx, last, wasEe>>

Execute == \/ Plain \/ ReadRx \/ Mtmsr \/ Rfi \/ DrBootResume \/ MtSrr \/ MtDec
           \/ Sc \/ Trap \/ FpUnavailable \/ Unsupported \/ HostTakesOver

-----------------------------------------------------------------------------
(* The rest of the turn.                                                   *)

\* The host answers the console's wait loop: it queues a whole line, and
\* only into an empty queue.
QueueInput == /\ phase = "check"
              /\ rx = 0
              /\ rx' = Burst
              /\ UNCHANGED <<phase, pc, next, pending, ee, saved, timer, last, wasEe>>

\* The loop starts over at n.
Restart(n) == /\ phase = "check"
              /\ phase' = "fetch"
              /\ pc' = n
              /\ UNCHANGED <<next, wasEe>>

\* Mutant of InStub: a spin loop counts as glue, like the idle loop did.
InStubOrSpin == pc \in StubAddr \/ next \in StubAddr \/ pc = next

InStub == pc \in StubAddr \/ next \in StubAddr

DropDec == /\ pending = "DEC"
           /\ InStub \/ gate
           /\ Restart(next)
           /\ pending' = None
           /\ last' = "drop"
           /\ UNCHANGED <<ee, saved, timer, rx>>

\* Mutant of Deliver: the boot gate is not looked at.
DeliverUngated ==
  /\ pending # None
  /\ ~(pending = "DEC" /\ InStub)
  /\ Restart(Entry[pending])
  /\ pending' = None
  /\ IF pending = "SC"
       THEN UNCHANGED saved
       ELSE /\ srr0' = IF pending \in Async THEN next ELSE pc
            /\ srr1' = ee
  /\ ee' = FALSE
  /\ last' = pending
  /\ UNCHANGED <<timer, rx>>

\* PpcHandleException: an asynchronous exception resumes at the next
\* instruction, a trap at the one that trapped; sc has saved its pair.
Deliver == /\ pending # None
           /\ ~(pending = "DEC" /\ (InStub \/ gate))
           /\ Restart(Entry[pending])
           /\ pending' = None
           /\ IF pending = "SC"
                THEN UNCHANGED saved
                ELSE /\ srr0' = IF pending \in Async THEN next ELSE pc
                     /\ srr1' = ee
           /\ ee' = FALSE
           /\ last' = pending
           /\ UNCHANGED <<timer, rx>>

Counted == (dec + DecMod - Scale) % DecMod

\* Mutants of Due: an unarmed decrementer fires as well; an expired one fires
\* only in the turn it crosses zero.
DueUnarmed == negative' /\ ~gate
DueOnCrossing == written /\ negative' /\ ~negative /\ ~gate

Due == written /\ negative' /\ ~gate

\* No exception is pending: time passes, and input goes before the timer.
Tick == /\ pending = None
        /\ Restart(next)
        /\ dec' = Counted
        /\ negative' = (negative \/ 2 * dec' >= DecMod)
        /\ pending' = IF ee /\ rx > 0 THEN "EXT"
                      ELSE IF ee /\ Due THEN "DEC" ELSE None
        /\ last' = "tick"
        /\ UNCHANGED <<ee, saved, written, gate, rx>>

Check == DropDec \/ Deliver \/ Tick

Next == Execute \/ QueueInput \/ Check

\* The loop never stops between the two halves of a turn.
Spec == /\ Init /\ [][Next]_vars
        /\ WF_vars(Execute) /\ WF_vars(Check)

-----------------------------------------------------------------------------
(* Between two turns only an interrupt can be pending, never a synchronous *)
(* exception; the guest has interrupts enabled (so that what the wake mask *)
(* of interpreter.c:1411 reports can be taken) and a pending decrementer   *)
(* has been armed by the guest: an unarmed one fires no tick.              *)
PendingIsDeliverable ==
  phase = "fetch" /\ pending # None =>
    pending \in Async /\ ee /\ (pending = "DEC" => written)

(* An interrupt that is due is not forgotten: a guest that is about to     *)
(* execute with interrupts enabled while input waits, or while the armed   *)
(* decrementer has expired outside the boot gate, has an exception         *)
(* pending, whatever was overwritten by a synchronous exception, masked,   *)
(* re-enabled or hooked before; only a drop in the stub delays it, by one  *)
(* turn.                                                                   *)
DueInterruptIsPending ==
  phase = "fetch" /\ ee /\ last # "drop" /\ (rx > 0 \/ (DecDue /\ ~gate))
    => pending # None

(* An interrupt is only taken after an instruction that was fetched with   *)
(* interrupts enabled or that enabled them itself.                         *)
InterruptFollowsEnabled ==
  phase = "check" /\ pending \in Async => wasEe \/ ee

(* Interrupts wait and are taken only as the guest allows.                 *)
InterruptsNeedEnabling == PendingIsDeliverable /\ InterruptFollowsEnabled

(* Until the 68K emulator has started no decrementer exception is taken,   *)
(* although rfi and mtmsr raise it without looking at the gate.            *)
BootIsNotPreempted == gate => last # "DEC"

(* Once the boot gate is lifted, a guest that leaves interrupts enabled    *)
(* outside the stub while one is due does not run on for ever: the idle    *)
(* loop whose decrementer was dropped every time never left its wait       *)
(* (interpreter.c:11240).  The host must let turns complete: a hook may    *)
(* redirect pc to a hook.                                                  *)
Undisturbed ==
  /\ ee
  /\ ~gate
  /\ rx > 0 \/ DecDue
  /\ pc \notin StubAddr
  /\ next \notin StubAddr

TurnsComplete == []<>(phase = "check")

InterruptsAreTaken == TurnsComplete => []<>~Undisturbed

(* Input that is never drained does not starve the timer: as long as the   *)
(* guest keeps enabling interrupts, an expired decrementer is taken again  *)
(* and again, for rfi and mtmsr raise it before the loop raises the input. *)
TimerIsServed ==
  (/\ <>[](DecDue /\ ~gate /\ pc \notin StubAddr /\ next \notin StubAddr)
   /\ []<>(phase = "check" /\ ee)) => []<>(last = "DEC")
=============================================================================
