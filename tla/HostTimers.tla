----------------------------- MODULE HostTimers -----------------------------
(***************************************************************************)
(* The clock, the interrupt flags and the Time Manager queue the host      *)
(* keeps for the guest (src/src/cpu/emul_op.c).  The 68K batch loop        *)
(* advances the clock by the instructions it ran and asks for a due task;  *)
(* the guest reaches the other operations through EMUL_OP selectors, with  *)
(* the task in A0 and a delay, then the result, in D0.                     *)
(***************************************************************************)
EXTENDS Integers, FiniteSets

CONSTANTS Task,        \* addresses of the guest's TMTask records
          Slots,       \* EMUL_MAX_TIMERS
          VblUs,       \* microseconds between two ticks of the VIA
          AdbUs,       \* microseconds between two polls of the ADB
          Step,        \* the microseconds one batch may take
          Delay,       \* the delays the guest asks for
          MaxMicros    \* bound on the clock

ASSUME TaskAssumption == Task \subseteq Nat \ {0}
ASSUME SlotsAssumption == Slots \in Nat
ASSUME TimeAssumption == /\ VblUs \in Nat \ {0} /\ AdbUs \in Nat \ {0}
                         /\ Step \subseteq Nat /\ Delay \subseteq Nat
                         /\ MaxMicros \in Nat

VARIABLES micros,      \* g_EmulMicros
          nextVbl,     \* g_NextVblUs, 0 before the first batch
          nextAdb,     \* g_NextAdbPollUs, likewise
          flags,       \* g_InterruptFlags, as a set
          timers,      \* g_Timers
          popped,      \* what EmulOpPopDueTimer last returned
          d0           \* D0 as the last EMUL_OP left it

timerVars == <<micros, nextVbl, nextAdb, flags, timers, popped, d0>>

Slot == 1 .. Slots
Free == [task |-> 0, due |-> 0, primed |-> FALSE]
TimerSlot == [task : Task \union {0}, due : Nat, primed : BOOLEAN]

\* The results the guest sees.
NoError == 0
QueueFull == -90
NotInserted == -91

TimersInit == /\ micros = 0
              /\ nextVbl = 0
              /\ nextAdb = 0
              /\ flags = {}
              /\ timers = [i \in Slot |-> Free]
              /\ popped = 0
              /\ d0 = 0

Least(S) == CHOOSE i \in S : \A j \in S : i <= j
SlotsOf(t) == {i \in Slot : timers[i].task = t}

-----------------------------------------------------------------------------
\* The deadline of a periodic source once the clock stands at t: a source
\* never armed is armed one period ahead, one that passed is moved ahead.
Deadline(next, period) == IF next = 0 THEN micros' + period ELSE next
Passed(next, period) == micros' >= Deadline(next, period)
Ahead(next, period) ==
  LET d == Deadline(next, period)
  IN  IF micros' >= d THEN d + period * ((micros' - d) \div period + 1) ELSE d

EmulOpAdvanceClock(n) ==
  /\ micros + n <= MaxMicros
  /\ micros' = micros + n
  /\ nextVbl' = Ahead(nextVbl, VblUs)
  /\ nextAdb' = Ahead(nextAdb, AdbUs)
  /\ flags' = flags \union (IF Passed(nextVbl, VblUs) THEN {"VIA"} ELSE {})
                    \union (IF Passed(nextAdb, AdbUs) THEN {"ADB"} ELSE {})
  /\ UNCHANGED <<timers, popped, d0>>

\* The first slot whose task is due gives its task, and is no longer primed.
DueSlots == {i \in Slot : /\ timers[i].task # 0
                          /\ timers[i].primed
                          /\ micros >= timers[i].due}

\* Mutant of EmulOpPopDueTimer: the task served stays primed.
PopKeepsPrimed ==
  /\ popped' = IF DueSlots = {} THEN 0 ELSE timers[Least(DueSlots)].task
  /\ UNCHANGED <<micros, nextVbl, nextAdb, flags, timers, d0>>

EmulOpPopDueTimer ==
  /\ \/ /\ DueSlots = {}
        /\ popped' = 0
        /\ UNCHANGED timers
     \/ /\ DueSlots # {}
        /\ popped' = timers[Least(DueSlots)].task
        /\ timers' = [timers EXCEPT ![Least(DueSlots)].primed = FALSE]
  /\ UNCHANGED <<micros, nextVbl, nextAdb, flags, d0>>

-----------------------------------------------------------------------------
InsTime(t) ==
  /\ \/ /\ SlotsOf(t) # {}
        /\ d0' = NoError
        /\ UNCHANGED timers
     \/ /\ SlotsOf(t) = {} /\ SlotsOf(0) # {}
        /\ timers' = [timers EXCEPT ![Least(SlotsOf(0))] = [Free EXCEPT !.task = t]]
        /\ d0' = NoError
     \/ /\ SlotsOf(t) = {} /\ SlotsOf(0) = {}
        /\ d0' = QueueFull
        /\ UNCHANGED timers
  /\ UNCHANGED <<micros, nextVbl, nextAdb, flags, popped>>

\* The slot keeps its task: a task that was removed may still be primed, and
\* its slot is lost to others until the next reset.
RmvTime(t) ==
  /\ \/ /\ SlotsOf(t) # {}
        /\ d0' = IF timers[Least(SlotsOf(t))].primed THEN 1 ELSE 0
        /\ timers' = [timers EXCEPT ![Least(SlotsOf(t))].primed = FALSE]
     \/ /\ SlotsOf(t) = {}
        /\ d0' = 0
        /\ UNCHANGED timers
  /\ UNCHANGED <<micros, nextVbl, nextAdb, flags, popped>>

PrimeTime(t, delay) ==
  /\ \/ /\ SlotsOf(t) # {}
        /\ timers' = [timers EXCEPT ![Least(SlotsOf(t))].primed = TRUE,
                                    ![Least(SlotsOf(t))].due = micros + delay]
        /\ d0' = NoError
     \/ /\ SlotsOf(t) = {}
        /\ d0' = NotInserted
        /\ UNCHANGED timers
  /\ UNCHANGED <<micros, nextVbl, nextAdb, flags, popped>>

\* Early reset: stale tasks cannot fire into the fresh boot world.
ResetOp == /\ timers' = [i \in Slot |-> Free]
           /\ flags' = {}
           /\ UNCHANGED <<micros, nextVbl, nextAdb, popped, d0>>

\* The level-1 aggregator answers whether the VIA ticked; the ADB poll is
\* kept for the next round and every other flag is dropped.
IrqOp == /\ d0' = IF "VIA" \in flags THEN 1 ELSE 0
         /\ flags' = flags \intersect {"ADB"}
         /\ UNCHANGED <<micros, nextVbl, nextAdb, timers, popped>>

TimersNext ==
  \/ \E n \in Step : EmulOpAdvanceClock(n)
  \/ EmulOpPopDueTimer
  \/ \E t \in Task : InsTime(t) \/ RmvTime(t)
  \/ \E t \in Task, d \in Delay : PrimeTime(t, d)
  \/ ResetOp
  \/ IrqOp

TimersSpec == TimersInit /\ [][TimersNext]_timerVars

-----------------------------------------------------------------------------
\* What a table of slots stands for: a task is known when a slot names it,
\* and armed when that slot is primed.
KnownIn(table) == {t \in Task : \E i \in Slot : table[i].task = t}
PrimedFor(table, t) == {i \in Slot : table[i].task = t /\ table[i].primed}
ArmedIn(table) == [t \in Task |-> IF PrimedFor(table, t) = {} THEN -1
                                  ELSE table[CHOOSE i \in PrimedFor(table, t) : TRUE].due]

Promise == INSTANCE TimeManager
             WITH Capacity <- Slots, now <- micros, known <- KnownIn(timers),
                  armed <- ArmedIn(timers), served <- popped

\* The table of slots keeps the promise of the Time Manager: no task is
\* served early, twice for one PrimeTime, or after RmvTime or a reset, and the
\* batch loop is told that nothing is due only when nothing is
\* (EmulOpPopDueTimer and the INSTIME, RMVTIME and PRIMETIME selectors).
ImplementsTimeManager == Promise!Spec
=============================================================================
