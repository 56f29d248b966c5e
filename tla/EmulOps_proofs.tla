--------------------------- MODULE EmulOps_proofs ---------------------------
(***************************************************************************)
(* The host services, for every set of tasks, size of guest RAM, list of   *)
(* devices and mix of requests: the table of timer slots implements the    *)
(* Time Manager, the disk driver reads exactly what it is asked for, and   *)
(* every device gives back what was stored in it last.                     *)
(*                                                                         *)
(* The argument about the timers rests on one fact: no task is named by    *)
(* two slots, so what a slot says of its task is what the table says.      *)
(***************************************************************************)
EXTENDS EmulOps, FiniteSetTheorems, SequenceTheorems, WellFoundedInduction, TLAPS

-----------------------------------------------------------------------------
(* The timers *)

\* A table whose slots name different tasks.
Table(tab) == /\ tab \in [Slot -> TimerSlot]
              /\ \A i, j \in Slot : tab[i].task = tab[j].task /\ i # j => tab[i].task = 0

\* When a slot has its task due.
Says(s) == IF s.primed THEN s.due ELSE -1

\* One slot differs between two tables, and what that means for the promise.
Replaces(tab2, tab, i, s) == tab2 = [tab EXCEPT ![i] = s]
Rearms(tab2, tab, t, v) ==
  /\ Table(tab2)
  /\ KnownIn(tab2) = KnownIn(tab)
  /\ ArmedIn(tab2) = [ArmedIn(tab) EXCEPT ![t] = v]
Introduces(tab2, tab, t) == /\ Table(tab2)
                            /\ KnownIn(tab2) = KnownIn(tab) \union {t}
                            /\ ArmedIn(tab2) = ArmedIn(tab)

TimersInv == /\ Table(timers)
             /\ micros \in Nat

(* The first of a set of slots is one of them. *)
LEMMA LeastSlot ==
  ASSUME NEW S \in SUBSET Slot, S # {}
  PROVE  Least(S) \in S
<1>1. PICK k \in S : TRUE
  OBVIOUS
<1>2. S \subseteq Nat
  BY DEF Slot
<1> DEFINE R == {ss \in Nat \X Nat : ss[1] < ss[2]}
<1>3. IsWellFoundedOn(R, Nat)
  BY NatLessThanWellFounded, Zenon DEF OpToRel
<1>4. \E i \in S : \A j \in S : ~ (<<j, i>> \in R)
  <2> HIDE DEF R
  <2> QED BY <1>1, <1>2, <1>3, WFMin
<1>5. \E i \in S : \A j \in S : i <= j
  <2>1. PICK i \in S : \A j \in S : ~ (<<j, i>> \in R)
    BY <1>4
  <2>2. ASSUME NEW j \in S PROVE i <= j
    <3>1. i \in Nat /\ j \in Nat /\ <<j, i>> \in Nat \X Nat
      BY <1>2
    <3>2. ~ (j < i)
      <4>1. <<j, i>>[1] = j /\ <<j, i>>[2] = i
        OBVIOUS
      <4> QED BY <2>1, <3>1, <4>1
    <3> QED BY <3>1, <3>2
  <2> QED BY <2>2
<1> QED BY <1>5 DEF Least

(* What a slot says of its task is what the table says of it. *)
LEMMA SlotSpeaks ==
  ASSUME NEW tab, Table(tab), NEW i \in Slot, tab[i].task \in Task
  PROVE  ArmedIn(tab)[tab[i].task] = Says(tab[i])
<1>1. tab[i].task # 0
  BY TaskAssumption
<1>2. \A j \in Slot : tab[j].task = tab[i].task => j = i
  BY <1>1 DEF Table
<1>3. PrimedFor(tab, tab[i].task) = IF tab[i].primed THEN {i} ELSE {}
  BY <1>2 DEF PrimedFor, Table, TimerSlot
<1> QED BY <1>3 DEF ArmedIn, Says

(* A slot may be primed, or no longer be, without a change to any task but *)
(* its own.                                                                *)
LEMMA SlotChanges ==
  ASSUME NEW tab, Table(tab), NEW i \in Slot, tab[i].task \in Task,
         NEW s \in TimerSlot, s.task = tab[i].task,
         NEW tab2, Replaces(tab2, tab, i, s)
  PROVE  Rearms(tab2, tab, s.task, Says(s))
<1>1. /\ tab2 \in [Slot -> TimerSlot]
      /\ \A j \in Slot : tab2[j].task = tab[j].task
      /\ \A j \in Slot : j # i => tab2[j] = tab[j]
      /\ tab2[i] = s
  BY DEF Table, Replaces
<1>2. Table(tab2)
  BY <1>1 DEF Table
<1>3. KnownIn(tab2) = KnownIn(tab)
  BY <1>1 DEF KnownIn
<1>4. ASSUME NEW t \in Task, t # s.task
      PROVE  ArmedIn(tab2)[t] = ArmedIn(tab)[t]
  <2>1. PrimedFor(tab2, t) = PrimedFor(tab, t) /\ i \notin PrimedFor(tab, t)
    BY <1>1, <1>4 DEF PrimedFor
  <2>2. CASE PrimedFor(tab, t) = {}
    BY <2>1, <2>2 DEF ArmedIn
  <2>3. CASE PrimedFor(tab, t) # {}
    <3> DEFINE k == CHOOSE j \in PrimedFor(tab, t) : TRUE
    <3>1. k \in PrimedFor(tab, t)
      BY <2>3
    <3>2. k \in Slot /\ k # i
      BY <2>1, <3>1 DEF PrimedFor
    <3>3. tab2[k].due = tab[k].due
      BY <1>1, <3>2
    <3> QED BY <2>1, <2>3, <3>3 DEF ArmedIn
  <2> QED BY <2>2, <2>3
<1>5. ArmedIn(tab2)[s.task] = Says(s)
  <2>1. tab2[i].task \in Task /\ tab2[i] = s
    BY <1>1
  <2>2. ArmedIn(tab2)[tab2[i].task] = Says(tab2[i])
    BY <1>2, <2>1, SlotSpeaks
  <2> QED BY <2>1, <2>2
<1>6. ArmedIn(tab2) = [ArmedIn(tab) EXCEPT ![s.task] = Says(s)]
  <2>1. /\ ArmedIn(tab2) = [t \in Task |-> ArmedIn(tab2)[t]]
        /\ ArmedIn(tab) = [t \in Task |-> ArmedIn(tab)[t]]
    BY DEF ArmedIn
  <2> QED BY <1>4, <1>5, <2>1
<1> QED BY <1>2, <1>3, <1>6 DEF Rearms

(* As long as a slot is free, fewer tasks are known than there are slots.  *)
LEMMA RoomLeft ==
  ASSUME NEW tab, Table(tab), NEW i \in Slot, tab[i].task = 0
  PROVE  Cardinality(KnownIn(tab)) < Slots
<1> DEFINE S == {j \in Slot : tab[j].task \in Task}
           f == [j \in S |-> tab[j].task]
<1>1. f \in Surjection(S, KnownIn(tab))
  BY DEF KnownIn, Surjection
<1>2. IsFiniteSet(Slot) /\ Cardinality(Slot) = Slots
  BY SlotsAssumption, FS_Interval DEF Slot
<1>3. IsFiniteSet(Slot \ {i}) /\ Cardinality(Slot \ {i}) = Slots - 1
  BY <1>2, FS_RemoveElement
<1>4. S \in SUBSET (Slot \ {i})
  BY TaskAssumption
<1>5. IsFiniteSet(S) /\ Cardinality(S) <= Slots - 1
  BY <1>3, <1>4, FS_Subset
<1>6. Cardinality(KnownIn(tab)) <= Cardinality(S) /\ IsFiniteSet(KnownIn(tab))
  <2> HIDE DEF f, S
  <2> QED BY <1>1, <1>5, FS_Surjection
<1>7. Cardinality(S) \in Nat /\ Cardinality(KnownIn(tab)) \in Nat
  BY <1>5, <1>6, FS_CardinalityType
<1> QED BY <1>5, <1>6, <1>7, SlotsAssumption

(* A task no slot names is given a free one: it is known, and not armed.   *)
LEMMA SlotTaken ==
  ASSUME NEW tab, Table(tab), NEW i \in Slot, tab[i].task = 0,
         NEW t \in Task, \A j \in Slot : tab[j].task # t,
         NEW tab2, Replaces(tab2, tab, i, [Free EXCEPT !.task = t])
  PROVE  Introduces(tab2, tab, t)
<1>1. /\ tab2 \in [Slot -> TimerSlot]
      /\ \A j \in Slot : j # i => tab2[j] = tab[j]
      /\ tab2[i].task = t /\ tab2[i].primed = FALSE
  BY DEF Table, TimerSlot, Free, Replaces
<1>2. Table(tab2)
  BY <1>1 DEF Table
<1>3. KnownIn(tab2) = KnownIn(tab) \union {t}
  BY <1>1, TaskAssumption DEF KnownIn
<1>4. ASSUME NEW u \in Task
      PROVE  /\ PrimedFor(tab2, u) = PrimedFor(tab, u)
             /\ \A j \in PrimedFor(tab, u) : tab2[j] = tab[j]
  <2>1. u # 0
    BY TaskAssumption
  <2> QED BY <1>1, <2>1 DEF PrimedFor
<1>5. ASSUME NEW u \in Task
      PROVE  ArmedIn(tab2)[u] = ArmedIn(tab)[u]
  <2>1. CASE PrimedFor(tab, u) = {}
    BY <1>4, <2>1 DEF ArmedIn
  <2>2. CASE PrimedFor(tab, u) # {}
    <3> DEFINE k == CHOOSE j \in PrimedFor(tab, u) : TRUE
    <3>1. k \in PrimedFor(tab, u)
      BY <2>2
    <3>2. tab2[k] = tab[k]
      BY <1>4, <3>1
    <3>3. PrimedFor(tab2, u) = PrimedFor(tab, u)
      BY <1>4
    <3>4. ArmedIn(tab2)[u] = tab2[k].due /\ ArmedIn(tab)[u] = tab[k].due
      BY <2>2, <3>3 DEF ArmedIn
    <3> QED BY <3>2, <3>4
  <2> QED BY <2>1, <2>2
<1>6. ArmedIn(tab2) = ArmedIn(tab)
  <2>1. /\ ArmedIn(tab2) = [u \in Task |-> ArmedIn(tab2)[u]]
        /\ ArmedIn(tab) = [u \in Task |-> ArmedIn(tab)[u]]
    BY DEF ArmedIn
  <2> QED BY <1>5, <2>1
<1> QED BY <1>2, <1>3, <1>6 DEF Introduces

(* No two slots name one task, in every reachable state. *)
LEMMA InvInitially == TimersInit => TimersInv
BY TaskAssumption, TimeAssumption DEF TimersInit, TimersInv, Table, TimerSlot, Free

LEMMA Popping ==
  ASSUME TimersInv, EmulOpPopDueTimer
  PROVE  /\ TimersInv'
         /\ Promise!ServeNobody \/ \E t \in Task : Promise!Serve(t)
<1>1. CASE DueSlots = {}
  <2>1. UNCHANGED timers /\ popped' = 0 /\ UNCHANGED micros
    BY <1>1 DEF EmulOpPopDueTimer
  <2>2. ASSUME NEW t \in Task PROVE ~ Promise!Due(t)
    <3>1. CASE PrimedFor(timers, t) = {}
      BY <3>1 DEF ArmedIn, Promise!Due, Promise!Never
    <3>2. CASE PrimedFor(timers, t) # {}
      <4>1. PICK i \in Slot : timers[i].task = t /\ timers[i].primed
        BY <3>2 DEF PrimedFor
      <4>2. ArmedIn(timers)[t] = timers[i].due
        BY <4>1, SlotSpeaks DEF TimersInv, Says
      <4>3. ~ (micros >= timers[i].due)
        BY <1>1, <4>1, TaskAssumption DEF DueSlots
      <4>4. timers[i].due \in Nat /\ micros \in Nat
        BY DEF TimersInv, Table, TimerSlot
      <4> QED BY <4>2, <4>3, <4>4 DEF Promise!Due
    <3> QED BY <3>1, <3>2
  <2> QED BY <2>1, <2>2 DEF Promise!ServeNobody, Promise!Nobody, TimersInv
<1>2. CASE DueSlots # {}
  <2> DEFINE i == Least(DueSlots)
             t == timers[i].task
             s == [timers[i] EXCEPT !.primed = FALSE]
  <2>1. i \in DueSlots
    BY <1>2, LeastSlot DEF DueSlots
  <2>2. /\ i \in Slot /\ timers[i].task # 0 /\ timers[i].primed
        /\ micros >= timers[i].due /\ timers[i] \in TimerSlot
    BY <2>1 DEF DueSlots, TimersInv, Table
  <2>3. t \in Task /\ timers[i].due \in Nat
    BY <2>2 DEF TimerSlot
  <2>4. /\ popped' = t /\ UNCHANGED micros
        /\ timers' = [timers EXCEPT ![i].primed = FALSE]
    BY <1>2 DEF EmulOpPopDueTimer
  <2> HIDE DEF i
  <2>5. /\ s \in TimerSlot /\ s.task = t /\ s.primed = FALSE
        /\ timers' = [timers EXCEPT ![i] = s]
    BY <2>2, <2>3, <2>4 DEF TimerSlot
  <2> HIDE DEF s
  <2>6. Rearms(timers', timers, t, -1)
    <3>1. Table(timers) /\ timers[i].task \in Task
      BY <2>2, <2>3 DEF TimersInv
    <3>2. Replaces(timers', timers, i, s)
      BY <2>5 DEF Replaces
    <3>3. Rearms(timers', timers, s.task, Says(s))
      BY <2>2, <2>5, <3>1, <3>2, SlotChanges
    <3> QED BY <2>5, <3>3 DEF Says
  <2>7. ArmedIn(timers)[t] = timers[i].due
    BY <2>2, <2>3, SlotSpeaks DEF TimersInv, Says
  <2>8. Promise!Due(t)
    BY <2>2, <2>3, <2>7 DEF Promise!Due, Promise!Never, TimersInv, Says
  <2>9. Promise!Serve(t)
    BY <2>4, <2>6, <2>8 DEF Promise!Serve, Promise!Never, Rearms
  <2> QED BY <2>3, <2>4, <2>6, <2>9 DEF TimersInv, Rearms
<1> QED BY <1>1, <1>2

(* A step that leaves the table alone leaves the promise alone. *)
LEMMA TableKept ==
  ASSUME TimersInv, UNCHANGED <<micros, timers, popped>>
  PROVE  TimersInv' /\ UNCHANGED Promise!vars
BY DEF TimersInv, Promise!vars

LEMMA Installing ==
  ASSUME TimersInv, NEW t \in Task, InsTime(t)
  PROVE  TimersInv' /\ (Promise!Install(t) \/ UNCHANGED Promise!vars)
<1>1. UNCHANGED <<micros, popped>>
  BY DEF InsTime
<1>2. CASE UNCHANGED timers
  BY <1>1, <1>2, TableKept
<1>3. CASE /\ SlotsOf(t) = {} /\ SlotsOf(0) # {}
           /\ timers' = [timers EXCEPT ![Least(SlotsOf(0))] = [Free EXCEPT !.task = t]]
  <2> DEFINE i == Least(SlotsOf(0))
  <2>1. i \in SlotsOf(0)
    BY <1>3, LeastSlot DEF SlotsOf
  <2>2. i \in Slot /\ timers[i].task = 0
    BY <2>1 DEF SlotsOf
  <2>3. \A j \in Slot : timers[j].task # t
    BY <1>3 DEF SlotsOf
  <2>4. Replaces(timers', timers, i, [Free EXCEPT !.task = t])
    BY <1>3 DEF Replaces
  <2> HIDE DEF i
  <2>5. Table(timers)
    BY DEF TimersInv
  <2>6. Introduces(timers', timers, t)
    BY <2>2, <2>3, <2>4, <2>5, SlotTaken
  <2>7. Cardinality(KnownIn(timers)) < Slots
    BY <2>2, <2>5, RoomLeft
  <2>8. t \notin KnownIn(timers)
    BY <2>3 DEF KnownIn
  <2>9. Promise!Cardinality(KnownIn(timers)) = Cardinality(KnownIn(timers))
    BY DEF Cardinality, Promise!Cardinality
  <2> QED BY <1>1, <2>6, <2>7, <2>8, <2>9 DEF Introduces, Promise!Install, TimersInv
<1> QED BY <1>2, <1>3 DEF InsTime

(* Setting the slot of a task to s gives the promise that s speaks of. *)
LEMMA SettingSlot ==
  ASSUME TimersInv, NEW t \in Task, SlotsOf(t) # {}
  PROVE  \A s \in TimerSlot :
           s.task = t /\ Replaces(timers', timers, Least(SlotsOf(t)), s)
             => /\ Rearms(timers', timers, t, Says(s))
                /\ t \in KnownIn(timers)
<1>1. Least(SlotsOf(t)) \in SlotsOf(t)
  BY LeastSlot DEF SlotsOf
<1>2. PICK i \in Slot : i = Least(SlotsOf(t)) /\ timers[i].task = t
  BY <1>1 DEF SlotsOf
<1>3. Table(timers) /\ timers[i].task \in Task
  BY <1>2 DEF TimersInv
<1>4. t \in KnownIn(timers)
  BY <1>2 DEF KnownIn
<1>5. ASSUME NEW s \in TimerSlot, s.task = t, Replaces(timers', timers, i, s)
      PROVE  Rearms(timers', timers, t, Says(s))
  <2>1. s.task = timers[i].task
    BY <1>2, <1>5
  <2>2. Rearms(timers', timers, s.task, Says(s))
    BY <1>3, <1>5, <2>1, SlotChanges
  <2> QED BY <1>5, <2>2
<1> QED BY <1>2, <1>4, <1>5

LEMMA Removing ==
  ASSUME TimersInv, NEW t \in Task, RmvTime(t)
  PROVE  TimersInv' /\ (Promise!Disarm(t) \/ UNCHANGED Promise!vars)
<1>1. UNCHANGED <<micros, popped>>
  BY DEF RmvTime
<1>2. CASE UNCHANGED timers
  BY <1>1, <1>2, TableKept
<1>3. CASE /\ SlotsOf(t) # {}
           /\ timers' = [timers EXCEPT ![Least(SlotsOf(t))].primed = FALSE]
  <2> DEFINE i == Least(SlotsOf(t))
             s == [timers[i] EXCEPT !.primed = FALSE]
  <2>1. i \in Slot /\ timers[i].task = t
    BY <1>3, LeastSlot DEF SlotsOf
  <2>2. timers[i] \in TimerSlot
    BY <2>1 DEF TimersInv, Table
  <2>3. s \in TimerSlot /\ s.task = t /\ s.primed = FALSE
    BY <2>1, <2>2 DEF TimerSlot
  <2>4. Replaces(timers', timers, i, s)
    BY <1>3 DEF Replaces
  <2> HIDE DEF s
  <2>5. Rearms(timers', timers, t, Says(s)) /\ Says(s) = -1
    BY <1>3, <2>3, <2>4, SettingSlot DEF Says
  <2> QED BY <1>1, <2>5 DEF Rearms, Promise!Disarm, Promise!Never, TimersInv
<1> QED BY <1>2, <1>3 DEF RmvTime

LEMMA Priming ==
  ASSUME TimersInv, NEW t \in Task, NEW d \in Delay, PrimeTime(t, d)
  PROVE  TimersInv' /\ (Promise!Arm(t, d) \/ UNCHANGED Promise!vars)
<1>1. UNCHANGED <<micros, popped>>
  BY DEF PrimeTime
<1>2. CASE UNCHANGED timers
  BY <1>1, <1>2, TableKept
<1>3. CASE /\ SlotsOf(t) # {}
           /\ timers' = [timers EXCEPT ![Least(SlotsOf(t))].primed = TRUE,
                                       ![Least(SlotsOf(t))].due = micros + d]
  <2> DEFINE i == Least(SlotsOf(t))
             s == [timers[i] EXCEPT !.primed = TRUE, !.due = micros + d]
  <2>1. i \in Slot /\ timers[i].task = t
    BY <1>3, LeastSlot DEF SlotsOf
  <2>2. timers[i] \in TimerSlot /\ micros + d \in Nat
    BY <2>1, TimeAssumption DEF TimersInv, Table
  <2>3. /\ s \in TimerSlot /\ s.task = t
        /\ s.primed = TRUE /\ s.due = micros + d
    BY <2>1, <2>2 DEF TimerSlot
  <2>4. Replaces(timers', timers, i, s)
    <3>1. timers \in [Slot -> TimerSlot]
      BY DEF TimersInv, Table
    <3> HIDE DEF i
    <3> QED BY <1>3, <2>1, <3>1 DEF Replaces, TimerSlot, i
  <2> HIDE DEF s
  <2>5. Rearms(timers', timers, t, Says(s)) /\ t \in KnownIn(timers)
    BY <1>3, <2>3, <2>4, SettingSlot
  <2>6. Says(s) = micros + d
    BY <2>3 DEF Says
  <2> QED BY <1>1, <2>5, <2>6 DEF Rearms, Promise!Arm, TimersInv
<1> QED BY <1>2, <1>3 DEF PrimeTime

LEMMA Resetting ==
  ASSUME TimersInv, ResetOp
  PROVE  TimersInv' /\ Promise!Reset
<1>1. timers' = [i \in Slot |-> Free] /\ UNCHANGED <<micros, popped>>
  BY DEF ResetOp
<1>2. Table(timers')
  BY <1>1 DEF Table, TimerSlot, Free
<1>3. KnownIn(timers') = {}
  BY <1>1, TaskAssumption DEF KnownIn, Free
<1>4. \A t \in Task : PrimedFor(timers', t) = {}
  BY <1>1 DEF PrimedFor, Free
<1>5. ArmedIn(timers') = [t \in Task |-> Promise!Never]
  BY <1>4 DEF ArmedIn, Promise!Never
<1> QED BY <1>1, <1>2, <1>3, <1>5 DEF Promise!Reset, TimersInv

(* Every step of the table is a step of the Time Manager, or none, and     *)
(* keeps the tasks of the slots apart.                                     *)
LEMMA EveryStep ==
  ASSUME TimersInv, [TimersNext]_timerVars
  PROVE  TimersInv' /\ [Promise!Next]_(Promise!vars)
<1>1. CASE \E n \in Step : EmulOpAdvanceClock(n)
  <2>1. PICK n \in Step : EmulOpAdvanceClock(n)
    BY <1>1
  <2>2. micros' = micros + n /\ UNCHANGED <<timers, popped>> /\ n \in Nat
    BY <2>1, TimeAssumption DEF EmulOpAdvanceClock
  <2>3. TimersInv' /\ Promise!Tick(n)
    BY <2>2 DEF TimersInv, Promise!Tick
  <2> QED BY <2>3 DEF Promise!Next
<1>2. CASE EmulOpPopDueTimer
  BY <1>2, Popping DEF Promise!Next
<1>3. CASE \E t \in Task : InsTime(t)
  BY <1>3, Installing DEF Promise!Next
<1>4. CASE \E t \in Task : RmvTime(t)
  BY <1>4, Removing DEF Promise!Next
<1>5. CASE \E t \in Task, d \in Delay : PrimeTime(t, d)
  BY <1>5, Priming DEF Promise!Next
<1>6. CASE ResetOp
  BY <1>6, Resetting DEF Promise!Next
<1>7. CASE IrqOp
  <2>1. UNCHANGED <<micros, timers, popped>>
    BY <1>7 DEF IrqOp
  <2> QED BY <2>1, TableKept
<1>8. CASE UNCHANGED timerVars
  <2>1. UNCHANGED <<micros, timers, popped>>
    BY <1>8 DEF timerVars
  <2> QED BY <2>1, TableKept
<1> QED BY <1>1, <1>2, <1>3, <1>4, <1>5, <1>6, <1>7, <1>8 DEF TimersNext

(* A step of another family leaves the clock and the timers alone, and one *)
(* that keeps time is a step of the table.                                 *)
LEMMA OnlyTimekeeping ==
  ASSUME [Next]_vars
  PROVE  [TimersNext]_timerVars \/ UNCHANGED <<micros, timers, popped>>
<1>1. CASE Timekeeping
  BY <1>1 DEF Timekeeping
<1>2. CASE Battery
  BY <1>2 DEF Battery, OthersOfBattery
<1>3. CASE Clipboard
  BY <1>3 DEF Clipboard, timerVars
<1>4. CASE Disk
  BY <1>4 DEF Disk, timerVars
<1>5. CASE Drawing
  BY <1>5 DEF Drawing, timerVars
<1>6. CASE Sounding
  BY <1>6 DEF Sounding, timerVars
<1>7. CASE UNCHANGED vars
  BY <1>7 DEF vars, timerVars
<1> QED BY <1>1, <1>2, <1>3, <1>4, <1>5, <1>6, <1>7 DEF Next

(* The initial table is that of a Time Manager nobody has called.          *)
LEMMA TimersStart == TimersInit => Promise!Init
<1> SUFFICES ASSUME TimersInit PROVE Promise!Init
  OBVIOUS
<1>1. timers = [i \in Slot |-> Free] /\ micros = 0 /\ popped = 0
  BY DEF TimersInit
<1>2. KnownIn(timers) = {}
  BY <1>1, TaskAssumption DEF KnownIn, Free
<1>3. \A t \in Task : PrimedFor(timers, t) = {}
  BY <1>1 DEF PrimedFor, Free
<1>4. ArmedIn(timers) = [t \in Task |-> Promise!Never]
  BY <1>3 DEF ArmedIn, Promise!Never
<1> QED BY <1>1, <1>2, <1>4 DEF Promise!Init, Promise!Nobody

(* For every number of slots, set of tasks and delays: the table by itself *)
(* implements the Time Manager.                                            *)
THEOREM TimersImplementTimeManager == TimersSpec => ImplementsTimeManager
<1>1. TimersInit => Promise!Init /\ TimersInv
  BY TimersStart, InvInitially
<1>2. TimersInv /\ [TimersNext]_timerVars => TimersInv' /\ [Promise!Next]_(Promise!vars)
  BY EveryStep
<1> QED BY <1>1, <1>2, PTL DEF TimersSpec, ImplementsTimeManager, Promise!Spec

(* For every number of slots, set of tasks and delays, and whatever else   *)
(* the guest asks of the host in between: no timer task is served early,   *)
(* twice for one PrimeTime, after RmvTime or after a reset, and the batch  *)
(* loop finds a task whenever one is due.                                  *)
THEOREM HostImplementsTimeManager == Spec => ImplementsTimeManager
<1>1. Init => Promise!Init /\ TimersInv
  BY TimersStart, InvInitially DEF Init
<1>2. TimersInv /\ [Next]_vars => TimersInv' /\ [Promise!Next]_(Promise!vars)
  BY EveryStep, TableKept, OnlyTimekeeping
<1> QED BY <1>1, <1>2, PTL DEF Spec, ImplementsTimeManager, Promise!Spec

-----------------------------------------------------------------------------
(* Numbers *)

LEMMA LeastNumber ==
  ASSUME NEW S, S \subseteq Nat, S # {}
  PROVE  \E n \in S : \A m \in S : n <= m
<1> DEFINE R == OpToRel(<, Nat)
<1>1. IsWellFoundedOn(R, Nat)
  BY NatLessThanWellFounded
<1>2. \A m, n \in Nat : m < n => <<m, n>> \in R
  BY DEF OpToRel
<1> HIDE DEF R
<1>3. PICK n \in S : \A m \in S : <<m, n>> \notin R
  BY <1>1, WFMin
<1>4. \A m \in S : ~(m < n)
  BY <1>2, <1>3
<1> QED
  BY <1>4

LEMMA Induction ==
  ASSUME NEW T, 0 \in T, \A n \in Nat : n \in T => n + 1 \in T
  PROVE  Nat \subseteq T
<1>1. SUFFICES ASSUME Nat \ T # {} PROVE FALSE
  OBVIOUS
<1>2. PICK n \in Nat \ T : \A m \in Nat \ T : n <= m
  BY <1>1, LeastNumber
<1>3. n # 0 /\ n - 1 \in Nat
  BY <1>2
<1> QED
  BY <1>2, <1>3

LEMMA DivMod ==
  ASSUME NEW a \in Nat, NEW B \in Nat \ {0}
  PROVE  /\ a \div B \in Nat /\ (a % B) \in Nat /\ (a % B) < B
         /\ B * (a \div B) \in Nat /\ a = B * (a \div B) + (a % B)
<1> DEFINE q == a \div B
           r == a % B
<1>1. q \in Nat /\ r \in Nat /\ a = B * q + r /\ r < B
  OBVIOUS
<1>2. B * q \in Nat
  <2> HIDE DEF q
  <2> QED BY <1>1
<1> QED BY <1>1, <1>2

\* Quotient and remainder are the only ones.
LEMMA DivModIs ==
  ASSUME NEW B \in Nat \ {0}, NEW q \in Nat, NEW r \in Nat, r < B
  PROVE  /\ B * q + r \in Nat
         /\ (B * q + r) \div B = q /\ (B * q + r) % B = r
<1> DEFINE a == B * q + r
           Q == a \div B
           R == a % B
<1>1. B * q \in Nat /\ a \in Nat
  OBVIOUS
<1>2. Q \in Nat /\ R \in Nat /\ a = B * Q + R /\ R < B
  <2> HIDE DEF a
  <2> QED BY <1>1, DivMod DEF Q, R
<1>3. a = B * q + r
  OBVIOUS
<1> HIDE DEF a, Q, R
<1>4. \A d \in Nat : d # 0 => B * d >= B
  OBVIOUS
<1>5. Q = q
  <2>1. CASE Q < q
    <3> DEFINE d == q - Q
    <3>1. d \in Nat /\ d # 0 /\ q = Q + d
      BY <1>2, <2>1
    <3> HIDE DEF d
    <3>2. B * (Q + d) = B * Q + B * d
      BY <1>2, <3>1
    <3>3. B * Q \in Nat /\ B * d \in Nat /\ B * d >= B
      BY <1>2, <1>4, <3>1
    <3> QED BY <1>2, <1>3, <3>1, <3>2, <3>3
  <2>2. CASE q < Q
    <3> DEFINE d == Q - q
    <3>1. d \in Nat /\ d # 0 /\ Q = q + d
      BY <1>2, <2>2
    <3> HIDE DEF d
    <3>2. B * (q + d) = B * q + B * d
      BY <3>1
    <3>3. B * q \in Nat /\ B * d \in Nat /\ B * d >= B
      BY <1>4, <3>1
    <3> QED BY <1>2, <1>3, <3>1, <3>2, <3>3
  <2> QED BY <1>2, <2>1, <2>2
<1>6. R = r
  BY <1>1, <1>2, <1>3, <1>5
<1>7. a \in Nat /\ Q = q /\ R = r
  BY <1>1, <1>5, <1>6
<1> QED BY <1>7, Zenon DEF a, Q, R

LEMMA DivMonotone ==
  ASSUME NEW B \in Nat \ {0}, NEW a \in Nat, NEW b \in Nat, a <= b
  PROVE  (a \div B) <= (b \div B)
<1> DEFINE p == b \div B
           q == a \div B
           r == b % B
           s == a % B
<1>1. p \in Nat /\ r \in Nat /\ r < B /\ b = B * p + r
  BY DivMod
<1>2. q \in Nat /\ s \in Nat /\ a = B * q + s
  BY DivMod
<1> HIDE DEF p, q, r, s
<1>3. SUFFICES ASSUME p < q PROVE FALSE
  BY <1>1, <1>2 DEF p, q
<1> DEFINE d == q - p
<1>4. d \in Nat /\ d # 0 /\ q = p + d
  BY <1>1, <1>2, <1>3
<1> HIDE DEF d
<1>5. B * (p + d) = B * p + B * d
  BY <1>1, <1>4
<1>6. B * d >= B /\ B * d \in Nat /\ B * p \in Nat
  BY <1>1, <1>4
<1> QED BY <1>1, <1>2, <1>4, <1>5, <1>6

-----------------------------------------------------------------------------
(* The disk driver *)

\* What a call finds: guest RAM of its size, a volume or none, and devices
\* that stand for handles of the firmware.
DiskInv == /\ ram = [a \in 0 .. RamSize - 1 |-> ram[a]]
           /\ volume \in Volume
           /\ devices \in Seq(DOMAIN Handle)

(* The list of devices names handles.                                      *)
LEMMA ListedIs == Listed \in Seq(DOMAIN Handle)
<1> DEFINE N == Len(Handle)
           Turn(l, k) == IF k \in present THEN Append(l, k) ELSE l
           IsRun(g, m) == /\ g = [k \in 0 .. m |-> g[k]]
                          /\ g[0] = <<>>
                          /\ \A k \in 1 .. m : g[k] = Turn(g[k - 1], k)
           T == {m \in Nat : \E g : IsRun(g, m)}
           Body(g) == [n \in 0 .. N |-> IF n = 0 THEN <<>> ELSE Turn(g[n - 1], n)]
           list == CHOOSE g : g = Body(g)
<1>1. N \in Nat /\ DOMAIN Handle = 1 .. N
  BY HandleAssumption
<1>2. \A l \in Seq(1 .. N), k \in 1 .. N : Turn(l, k) \in Seq(1 .. N)
  BY AppendProperties
<1>3. Listed = list[N]
  BY DEF Listed
<1> HIDE DEF Turn, N
<1>4. 0 \in T
  <2> DEFINE g == [k \in 0 .. 0 |-> <<>>]
  <2>1. IsRun(g, 0)
    OBVIOUS
  <2> HIDE DEF IsRun, g
  <2> QED BY <2>1
<1>5. ASSUME NEW m \in Nat, m \in T
      PROVE  m + 1 \in T
  <2>1. PICK g : IsRun(g, m)
    BY <1>5
  <2> DEFINE h == [k \in 0 .. m + 1 |-> IF k <= m THEN g[k] ELSE Turn(g[m], m + 1)]
  <2>2. m \in 0 .. m /\ m + 1 \in Nat
    OBVIOUS
  <2>3. /\ \A k \in 0 .. m : h[k] = g[k]
        /\ h[m + 1] = Turn(g[m], m + 1)
        /\ h = [k \in 0 .. m + 1 |-> h[k]]
    BY <2>2
  <2> HIDE DEF h
  <2>4. ASSUME NEW k \in 1 .. m + 1
        PROVE  h[k] = Turn(h[k - 1], k)
    <3>1. CASE k \in 1 .. m
      <4>1. k \in 0 .. m /\ k - 1 \in 0 .. m
        BY <3>1
      <4> QED BY <2>1, <2>3, <3>1, <4>1
    <3>2. CASE k = m + 1
      <4>1. k - 1 = m
        BY <3>2
      <4> QED BY <2>2, <2>3, <3>2, <4>1
    <3> QED BY <3>1, <3>2
  <2>5. h[0] = <<>>
    <3>1. 0 \in 0 .. m
      OBVIOUS
    <3> QED BY <2>1, <2>3, <3>1
  <2>6. IsRun(h, m + 1)
    BY <2>3, <2>4, <2>5
  <2> HIDE DEF IsRun
  <2> QED BY <2>2, <2>6
<1>6. N \in T
  <2> HIDE DEF T
  <2> QED BY <1>1, <1>4, <1>5, Induction
<1>7. PICK g : IsRun(g, N)
  BY <1>6
<1>8. g = Body(g)
  <2>1. /\ g = [k \in 0 .. N |-> g[k]] /\ g[0] = <<>>
        /\ \A k \in 1 .. N : g[k] = Turn(g[k - 1], k)
    BY <1>7
  <2>2. \A k \in 0 .. N : k # 0 => k \in 1 .. N
    BY <1>1
  <2>3. \A k \in 0 .. N : g[k] = IF k = 0 THEN <<>> ELSE Turn(g[k - 1], k)
    BY <2>1, <2>2
  <2> QED BY <2>1, <2>3
<1>9. list = Body(list)
  <2> HIDE DEF Body
  <2> QED BY <1>8
<1> HIDE DEF list
<1>10. /\ list[0] = <<>>
       /\ \A k \in 1 .. N : list[k] = Turn(list[k - 1], k)
  <2>1. 0 \in 0 .. N /\ \A k \in 1 .. N : k \in 0 .. N /\ k # 0
    BY <1>1
  <2> QED BY <1>9, <2>1
<1> HIDE DEF T
<1> DEFINE U == {k \in Nat : k <= N => list[k] \in Seq(1 .. N)}
<1>11. 0 \in U
  BY <1>10, EmptySeq
<1>12. ASSUME NEW k \in Nat, k \in U
       PROVE  k + 1 \in U
  <2> SUFFICES ASSUME k + 1 <= N PROVE list[k + 1] \in Seq(1 .. N)
    OBVIOUS
  <2>1. k + 1 \in 1 .. N /\ k <= N /\ (k + 1) - 1 = k
    BY <1>1
  <2>2. list[k] \in Seq(1 .. N) /\ list[k + 1] = Turn(list[k], k + 1)
    BY <1>10, <1>12, <2>1
  <2> QED BY <1>2, <2>1, <2>2
<1>13. N \in U
  <2> HIDE DEF U
  <2> QED BY <1>1, <1>11, <1>12, Induction
<1> QED BY <1>1, <1>3, <1>13

\* The turns of the loop of a read, from guest RAM as it is.
IsRead(turn, device, size, pos, left, buffer) ==
  LET N == Turns(size, pos, left, buffer)
  IN  /\ turn[0] = [ok |-> TRUE, m |-> ram, buffer |-> buffer, pos |-> pos, left |-> left]
      /\ \A k \in 1 .. N :
           turn[k] = Transfer(device, size, turn[k - 1], (pos \div size) + (k - 1))
      /\ Blocks(device, size, pos, left, buffer) = turn[N]

LEMMA BlocksRun ==
  ASSUME NEW device, NEW size, NEW pos, NEW left, NEW buffer,
         Turns(size, pos, left, buffer) \in Nat
  PROVE  \E turn : IsRead(turn, device, size, pos, left, buffer)
<1> DEFINE N == Turns(size, pos, left, buffer)
           a == [ok |-> TRUE, m |-> ram, buffer |-> buffer, pos |-> pos, left |-> left]
           Turn(t, k) == Transfer(device, size, t, (pos \div size) + (k - 1))
           IsRun(g, m) == /\ g = [k \in 0 .. m |-> g[k]]
                          /\ g[0] = a
                          /\ \A k \in 1 .. m : g[k] = Turn(g[k - 1], k)
           T == {m \in Nat : \E g : IsRun(g, m)}
           Body(g) == [i \in 0 .. N |-> IF i = 0 THEN a ELSE Turn(g[i - 1], i)]
           turn == CHOOSE g : g = Body(g)
<1>1. N \in Nat
  OBVIOUS
<1>2. Blocks(device, size, pos, left, buffer) = turn[N]
  BY DEF Blocks
<1> HIDE DEF Turn, N, a
<1>3. 0 \in T
  <2> DEFINE g == [k \in 0 .. 0 |-> a]
  <2>1. IsRun(g, 0)
    OBVIOUS
  <2> HIDE DEF IsRun, g
  <2> QED BY <2>1
<1>4. ASSUME NEW m \in Nat, m \in T
      PROVE  m + 1 \in T
  <2>1. PICK g : IsRun(g, m)
    BY <1>4
  <2> DEFINE h == [k \in 0 .. m + 1 |-> IF k <= m THEN g[k] ELSE Turn(g[m], m + 1)]
  <2>2. m \in 0 .. m /\ m + 1 \in Nat
    OBVIOUS
  <2>3. /\ \A k \in 0 .. m : h[k] = g[k]
        /\ h[m + 1] = Turn(g[m], m + 1)
        /\ h = [k \in 0 .. m + 1 |-> h[k]]
    BY <2>2
  <2> HIDE DEF h
  <2>4. ASSUME NEW k \in 1 .. m + 1
        PROVE  h[k] = Turn(h[k - 1], k)
    <3>1. CASE k \in 1 .. m
      <4>1. k \in 0 .. m /\ k - 1 \in 0 .. m
        BY <3>1
      <4> QED BY <2>1, <2>3, <3>1, <4>1
    <3>2. CASE k = m + 1
      <4>1. k - 1 = m
        BY <3>2
      <4> QED BY <2>2, <2>3, <3>2, <4>1
    <3> QED BY <3>1, <3>2
  <2>5. h[0] = a
    <3>1. 0 \in 0 .. m
      OBVIOUS
    <3> QED BY <2>1, <2>3, <3>1
  <2>6. IsRun(h, m + 1)
    BY <2>3, <2>4, <2>5
  <2> HIDE DEF IsRun
  <2> QED BY <2>2, <2>6
<1>5. N \in T
  <2> HIDE DEF T
  <2> QED BY <1>1, <1>3, <1>4, Induction
<1>6. PICK g : IsRun(g, N)
  BY <1>5
<1>7. g = Body(g)
  <2>1. /\ g = [k \in 0 .. N |-> g[k]] /\ g[0] = a
        /\ \A k \in 1 .. N : g[k] = Turn(g[k - 1], k)
    BY <1>6
  <2>2. \A k \in 0 .. N : k # 0 => k \in 1 .. N
    BY <1>1
  <2>3. \A k \in 0 .. N : g[k] = IF k = 0 THEN a ELSE Turn(g[k - 1], k)
    BY <2>1, <2>2
  <2> QED BY <2>1, <2>3
<1>8. turn = Body(turn)
  <2> HIDE DEF Body
  <2> QED BY <1>7
<1> HIDE DEF turn
<1>9. /\ turn[0] = a
      /\ \A k \in 1 .. N : turn[k] = Turn(turn[k - 1], k)
  <2>1. 0 \in 0 .. N /\ \A k \in 1 .. N : k \in 0 .. N /\ k # 0
    BY <1>1
  <2> QED BY <1>8, <2>1
<1>10. /\ turn[0] = [ok |-> TRUE, m |-> ram, buffer |-> buffer, pos |-> pos, left |-> left]
       /\ \A k \in 1 .. N : turn[k] = Transfer(device, size, turn[k - 1], (pos \div size) + (k - 1))
  BY <1>9 DEF a, Turn
<1>11. IsRead(turn, device, size, pos, left, buffer)
  BY <1>2, <1>10 DEF N, IsRead
<1> QED BY <1>11

\* Guest RAM after g bytes of the medium behind handle h were read from a
\* position on.
Delivered(m, g, h, pos, buffer) ==
  m = [a \in 0 .. RamSize - 1 |-> IF a - buffer \in 0 .. g - 1
                                  THEN MediaByte(h, pos + (a - buffer)) ELSE ram[a]]

\* Where the loop stands after i blocks.
Reading(t, i, h, size, pos, left, buffer) ==
  \E g \in 0 .. left :
    /\ t = [ok |-> t.ok, m |-> t.m, buffer |-> buffer + g, pos |-> pos + g, left |-> left - g]
    /\ t.ok \in BOOLEAN
    /\ Delivered(t.m, g, h, pos, buffer)
    /\ t.ok => \/ g = left
               \/ \E o \in 0 .. size - 1 : pos + g = size * ((pos \div size) + i) + o

(* Filling on from where a read stands reads that much further.            *)
LEMMA FillsOn ==
  ASSUME NEW m, NEW g \in Nat, NEW n \in Nat, NEW h, NEW pos \in Nat, NEW buffer \in Nat,
         NEW f, \A k \in 0 .. n - 1 : f[k] = MediaByte(h, pos + g + k),
         RamSize \in Nat,
         Delivered(m, g, h, pos, buffer)
  PROVE  Delivered(Fill(m, buffer + g, n, f), g + n, h, pos, buffer)
<1> DEFINE New(a) == IF a \in buffer + g .. buffer + g + n - 1 THEN f[a - (buffer + g)] ELSE m[a]
           Want(a) == IF a - buffer \in 0 .. (g + n) - 1
                      THEN MediaByte(h, pos + (a - buffer)) ELSE ram[a]
<1>1. Fill(m, buffer + g, n, f) = [a \in 0 .. RamSize - 1 |-> New(a)]
  BY DEF Fill, Delivered
<1>2. ASSUME NEW a \in 0 .. RamSize - 1 PROVE New(a) = Want(a)
  <2>1. a \in Nat
    OBVIOUS
  <2>2. CASE a \in buffer + g .. buffer + g + n - 1
    <3>1. a - (buffer + g) \in 0 .. n - 1 /\ a - buffer \in 0 .. g + n - 1
      BY <2>1, <2>2
    <3>2. pos + g + (a - (buffer + g)) = pos + (a - buffer)
      BY <2>1
    <3> QED BY <2>2, <3>1, <3>2
  <2>3. CASE a \notin buffer + g .. buffer + g + n - 1
    <3>1. a - buffer \in 0 .. g + n - 1 <=> a - buffer \in 0 .. g - 1
      BY <2>1, <2>3
    <3>2. m[a] = IF a - buffer \in 0 .. g - 1 THEN MediaByte(h, pos + (a - buffer)) ELSE ram[a]
      BY DEF Delivered
    <3> QED BY <2>3, <3>1, <3>2
  <2> QED BY <2>2, <2>3
<1> HIDE DEF New
<1>3. [a \in 0 .. RamSize - 1 |-> New(a)] = [a \in 0 .. RamSize - 1 |-> Want(a)]
  BY <1>2
<1> QED BY <1>1, <1>3 DEF Delivered

(* A turn of the loop reads on to the end of a block, or to the end.       *)
LEMMA TurnReads ==
  ASSUME NEW device, NEW size \in Nat \ {0}, NEW pos \in Nat, NEW left \in Nat,
         NEW buffer \in Nat, NEW t, NEW i \in Nat, RamSize \in Nat,
         Reading(t, i, devices[device + 1], size, pos, left, buffer)
  PROVE  Reading(Transfer(device, size, t, (pos \div size) + i), i + 1,
                 devices[device + 1], size, pos, left, buffer)
<1> DEFINE h == devices[device + 1]
           q == pos \div size
           lba == q + i
           u == Transfer(device, size, t, lba)
<1>1. PICK g \in 0 .. left :
        /\ t = [ok |-> t.ok, m |-> t.m, buffer |-> buffer + g, pos |-> pos + g, left |-> left - g]
        /\ t.ok \in BOOLEAN
        /\ Delivered(t.m, g, h, pos, buffer)
        /\ t.ok => g = left \/ \E o \in 0 .. size - 1 : pos + g = size * lba + o
  BY DEF Reading
<1>2. q \in Nat /\ lba \in Nat /\ g \in Nat /\ g <= left
  BY DivMod
<1>3. CASE ~ t.ok
  <2>1. u = t
    BY <1>3 DEF Transfer
  <2> HIDE DEF u, lba, q, h
  <2>2. Reading(u, i + 1, h, size, pos, left, buffer)
    BY <1>1, <1>3, <2>1 DEF Reading
  <2> QED BY <2>2 DEF u, lba, q, h
<1>4. CASE t.ok /\ ~ PpcReadDiskBlock(device, lba, size)
  <2>1. u = [t EXCEPT !.ok = FALSE]
    BY <1>4 DEF Transfer
  <2>2. u = [ok |-> FALSE, m |-> t.m, buffer |-> buffer + g, pos |-> pos + g, left |-> left - g]
    <3> DEFINE v == [ok |-> t.ok, m |-> t.m, buffer |-> buffer + g, pos |-> pos + g,
                     left |-> left - g]
    <3>1. t = v
      BY <1>1
    <3>2. u = [v EXCEPT !.ok = FALSE]
      <4> HIDE DEF u, v
      <4> QED BY <2>1, <3>1
    <3> DEFINE R == [ok : BOOLEAN, m : {t.m}, buffer : {buffer + g}, pos : {pos + g},
                     left : {left - g}]
    <3>3. v \in R
      BY <1>1
    <3> HIDE DEF u, v
    <3>4. u \in R /\ u.ok = FALSE
      BY <3>2, <3>3
    <3> QED BY <3>4
  <2> HIDE DEF u, lba, q, h
  <2>3. Reading(u, i + 1, h, size, pos, left, buffer)
    BY <1>1, <2>2 DEF Reading
  <2> QED BY <2>3 DEF u, lba, q, h
<1>5. CASE t.ok /\ PpcReadDiskBlock(device, lba, size)
  <2> DEFINE off == t.pos % size
             n == Lower(size - off, t.left)
             f == [k \in 0 .. n - 1 |-> MediaByte(h, lba * size + off + k)]
             full == [ok |-> TRUE, m |-> Fill(t.m, t.buffer, n, f),
                      buffer |-> t.buffer + n, pos |-> t.pos + n, left |-> t.left - n]
  <2>1. u = full
    BY <1>5 DEF Transfer
  <2>2. t.pos = pos + g /\ t.left = left - g /\ t.buffer = buffer + g
    BY <1>1
  <2>3. off \in Nat /\ off < size
    BY <1>2, <2>2, DivMod
  <2>4. n \in Nat /\ g + n <= left /\ n <= size - off /\ (n = size - off \/ n = left - g)
    <3> HIDE DEF off
    <3> QED BY <1>2, <2>2, <2>3 DEF Lower
  <2>5. g # left => pos + g = size * lba + off
    <3> SUFFICES ASSUME g # left PROVE pos + g = size * lba + off
      OBVIOUS
    <3>1. PICK o \in 0 .. size - 1 : pos + g = size * lba + o
      BY <1>1, <1>5
    <3>2. o \in Nat /\ o < size
      OBVIOUS
    <3> HIDE DEF lba
    <3>3. (size * lba + o) % size = o
      BY <1>2, <3>2, DivModIs
    <3> QED BY <2>2, <3>1, <3>3
  <2>6. \A k \in 0 .. n - 1 : f[k] = MediaByte(h, pos + g + k)
    <3> TAKE k \in 0 .. n - 1
    <3>1. g # left
      BY <1>2, <2>4
    <3>2. lba * size + off = pos + g
      <4>1. lba * size = size * lba
        BY <1>2
      <4> QED BY <2>5, <3>1, <4>1
    <3>3. f[k] = MediaByte(h, lba * size + off + k)
      OBVIOUS
    <3>4. lba * size + off + k = pos + g + k
      <4> HIDE DEF lba, off
      <4> QED BY <3>2
    <3> QED BY <3>3, <3>4
  <2> HIDE DEF f
  <2>7. Delivered(Fill(t.m, buffer + g, n, f), g + n, h, pos, buffer)
    <3> HIDE DEF n, h
    <3> QED BY <1>1, <1>2, <2>4, <2>6, FillsOn
  <2>8. g + n = left \/ pos + (g + n) = size * (q + (i + 1)) + 0
    <3>1. CASE n = left - g
      <4> HIDE DEF n
      <4> QED BY <1>2, <3>1
    <3>2. CASE n = size - off /\ g # left
      <4>1. pos + g = size * lba + off
        BY <2>5, <3>2
      <4>2. size * (q + (i + 1)) = size * lba + size
        <5>1. q + (i + 1) = lba + 1
          <6> HIDE DEF q
          <6> QED BY <1>2
        <5> HIDE DEF lba
        <5> QED BY <1>2, <5>1
      <4>3. size * lba \in Nat
        <5> HIDE DEF lba
        <5> QED BY <1>2
      <4> DEFINE x == size * lba
                 y == size * (q + (i + 1))
      <4> HIDE DEF n, off, x, y
      <4>4. pos + g = x + off /\ y = x + size /\ x \in Nat
        BY <4>1, <4>2, <4>3 DEF x, y
      <4>5. pos + (g + n) = y + 0
        BY <1>2, <2>3, <3>2, <4>4
      <4> QED BY <4>5 DEF y
    <3>3. CASE g = left
      <4> HIDE DEF n
      <4> QED BY <1>2, <2>4, <3>3
    <3> QED BY <2>4, <3>1, <3>2, <3>3
  <2>9. u = [ok |-> TRUE, m |-> Fill(t.m, buffer + g, n, f), buffer |-> buffer + (g + n),
             pos |-> pos + (g + n), left |-> left - (g + n)]
    <3>1. /\ t.buffer + n = buffer + (g + n) /\ t.pos + n = pos + (g + n)
          /\ t.left - n = left - (g + n)
      <4> HIDE DEF n
      <4> QED BY <1>2, <2>2, <2>4
    <3> QED BY <2>1, <2>2, <3>1
  <2>10. g + n \in 0 .. left /\ 0 \in 0 .. size - 1
    <3> HIDE DEF n
    <3> QED BY <1>2, <2>4
  <2> HIDE DEF u, n, h, q, lba
  <2>11. Delivered(u.m, g + n, h, pos, buffer) /\ u.ok
    BY <2>7, <2>9
  <2>12. u = [ok |-> u.ok, m |-> u.m, buffer |-> buffer + (g + n),
              pos |-> pos + (g + n), left |-> left - (g + n)] /\ u.ok \in BOOLEAN
    BY <2>9
  <2>13. Reading(u, i + 1, h, size, pos, left, buffer)
    BY <2>8, <2>10, <2>11, <2>12 DEF Reading, q
  <2> QED BY <2>13 DEF u, lba, q, h
<1> QED BY <1>1, <1>3, <1>4, <1>5

\* After a read its first g bytes are in the buffer; they are all of them when it
\* did not fail.
ReadUpTo(g, end, h, pos, left, buffer) ==
  /\ g # 0 => g <= left
  /\ Delivered(end.m, g, h, pos, buffer)
  /\ end.ok /\ buffer # 0 /\ left > 0 => g = left

(* A read delivers a part of what it is asked for, and unless a block      *)
(* cannot be read all of it.                                               *)
LEMMA BlocksRead ==
  ASSUME NEW device, NEW size \in Nat \ {0}, NEW pos \in Nat, NEW left \in Int,
         NEW buffer \in Nat, RamSize \in Nat, ram = [a \in 0 .. RamSize - 1 |-> ram[a]]
  PROVE  \E g \in Nat : ReadUpTo(g, Blocks(device, size, pos, left, buffer), devices[device + 1],
                                 pos, left, buffer)
<1> DEFINE N == Turns(size, pos, left, buffer)
           h == devices[device + 1]
           q == pos \div size
           end == Blocks(device, size, pos, left, buffer)
<1>1. CASE left <= 0 \/ buffer = 0
  <2>1. N = 0
    BY <1>1 DEF Turns
  <2>2. PICK turn : IsRead(turn, device, size, pos, left, buffer)
    <3>1. Turns(size, pos, left, buffer) \in Nat
      BY <2>1
    <3> HIDE DEF N, end, q, h
    <3> QED BY <3>1, BlocksRun
  <2>3. end.m = ram
    <3>1. /\ turn[0] = [ok |-> TRUE, m |-> ram, buffer |-> buffer, pos |-> pos, left |-> left]
          /\ end = turn[N]
      BY <2>2 DEF IsRead
    <3> HIDE DEF end, N
    <3>2. turn[N] = turn[0]
      BY <2>1
    <3>3. end = [ok |-> TRUE, m |-> ram, buffer |-> buffer, pos |-> pos, left |-> left]
      BY <3>1, <3>2
    <3> QED BY <3>3
  <2>4. Delivered(ram, 0, h, pos, buffer)
    <3>1. \A a \in 0 .. RamSize - 1 : ~ (a - buffer \in 0 .. 0 - 1)
      OBVIOUS
    <3> QED BY <3>1 DEF Delivered
  <2> HIDE DEF end, h
  <2>5. ReadUpTo(0, end, h, pos, left, buffer)
    BY <1>1, <2>3, <2>4 DEF ReadUpTo
  <2> QED BY <2>5 DEF end, h
<1>2. CASE left > 0 /\ buffer # 0
  <2>1. left \in Nat
    BY <1>2
  <2> DEFINE last == pos + left - 1
             p == last \div size
  <2>2. N = p - q + 1
    BY <1>2 DEF Turns
  <2>3. last \in Nat /\ pos <= last
    BY <1>2, <2>1
  <2>4. /\ p \in Nat /\ last = size * p + (last % size) /\ (last % size) < size
        /\ (last % size) \in Nat
    <3> HIDE DEF last
    <3> QED BY <2>3, DivMod
  <2>5. q \in Nat /\ (pos % size) \in Nat /\ pos = size * q + (pos % size) /\ (pos % size) < size
    BY DivMod
  <2> HIDE DEF last, p, q, N
  <2>6. q <= p
    <3>1. (pos \div size) <= (last \div size)
      BY <2>3, DivMonotone
    <3> QED BY <3>1 DEF p, q
  <2>7. N \in Nat /\ q + N = p + 1
    <3>1. p \in Nat /\ q \in Nat
      BY <2>4, <2>5
    <3> QED BY <2>2, <2>6, <3>1
  <2>7a. PICK turn : IsRead(turn, device, size, pos, left, buffer)
    BY <2>7, BlocksRun DEF N
  <2>8. /\ turn[0] = [ok |-> TRUE, m |-> ram, buffer |-> buffer, pos |-> pos, left |-> left]
        /\ \A k \in 1 .. N : turn[k] = Transfer(device, size, turn[k - 1], (pos \div size) + (k - 1))
        /\ end = turn[N]
    BY <2>7a DEF IsRead, N
  <2> DEFINE T == {k \in Nat : k <= N => Reading(turn[k], k, h, size, pos, left, buffer)}
  <2>9. 0 \in T
    <3> DEFINE t == turn[0]
    <3>1. Delivered(ram, 0, h, pos, buffer)
      <4>1. \A a \in 0 .. RamSize - 1 : ~ (a - buffer \in 0 .. 0 - 1)
        OBVIOUS
      <4> QED BY <4>1 DEF Delivered
    <3>2. t = [ok |-> TRUE, m |-> ram, buffer |-> buffer + 0, pos |-> pos + 0, left |-> left - 0]
      <4>1. buffer + 0 = buffer /\ pos + 0 = pos /\ left - 0 = left
        BY <2>1
      <4> QED BY <2>8, <4>1
    <3>3. 0 \in 0 .. left /\ (pos % size) \in 0 .. size - 1
      BY <2>1, <2>5
    <3>4. pos + 0 = size * (q + 0) + (pos % size)
      BY <2>5
    <3> HIDE DEF t, h
    <3>5. t = [ok |-> t.ok, m |-> t.m, buffer |-> buffer + 0, pos |-> pos + 0, left |-> left - 0]
          /\ t.ok = TRUE /\ t.m = ram
      BY <3>2
    <3>6. Reading(t, 0, h, size, pos, left, buffer)
      BY <3>1, <3>3, <3>4, <3>5 DEF Reading, q
    <3> QED BY <3>6 DEF t, h
  <2>10. ASSUME NEW k \in Nat, k \in T PROVE k + 1 \in T
    <3> SUFFICES ASSUME k + 1 <= N PROVE Reading(turn[k + 1], k + 1, h, size, pos, left, buffer)
      OBVIOUS
    <3>1. k + 1 \in 1 .. N /\ k <= N /\ (k + 1) - 1 = k
      BY <2>7
    <3>2. Reading(turn[k], k, h, size, pos, left, buffer)
      BY <2>10, <3>1
    <3>3. turn[k + 1] = Transfer(device, size, turn[k], (pos \div size) + k)
      BY <2>8, <3>1
    <3> QED BY <2>1, <3>2, <3>3, TurnReads
  <2>11. N \in T
    <3> HIDE DEF T
    <3> QED BY <2>7, <2>9, <2>10, Induction
  <2>12. Reading(end, N, h, size, pos, left, buffer)
    BY <2>7, <2>8, <2>11
  <2> HIDE DEF end, h
  <2>13. PICK g \in 0 .. left :
           /\ Delivered(end.m, g, h, pos, buffer)
           /\ end.ok => g = left \/ \E o \in 0 .. size - 1 : pos + g = size * (q + N) + o
    BY <2>12 DEF Reading, q
  <2>14. g \in Nat /\ g <= left
    BY <2>1
  <2>15. end.ok => g = left
    <3> SUFFICES ASSUME NEW o \in 0 .. size - 1, pos + g = size * (q + N) + o PROVE g = left
      BY <2>13
    <3> DEFINE r == last % size
    <3>0. p \in Nat
      BY <2>4
    <3>1. size * (p + 1) = size * p + size /\ size * p \in Nat
      BY <3>0
    <3>2. last = size * p + r /\ r < size /\ r \in Nat
      BY <2>4
    <3> HIDE DEF r
    <3>3. pos + g > last
      BY <2>7, <3>1, <3>2
    <3> QED BY <2>1, <2>14, <3>3 DEF last
  <2>16. ReadUpTo(g, end, h, pos, left, buffer)
    BY <2>13, <2>14, <2>15 DEF ReadUpTo
  <2> QED BY <2>14, <2>16 DEF end, h
<1> QED BY <1>1, <1>2

(* What the assumptions say of a request.                                  *)
LEMMA RequestTypes ==
  /\ RamSize \in Nat /\ Align \in Nat \ {0} /\ SectorMax \in Nat \ {0}
  /\ Buffer \subseteq Nat /\ Count \subseteq Nat /\ Offset \subseteq Nat
  /\ \A b \in Buffer, n \in Count : b + n <= RamSize
  /\ \A v \in Volume : v.device \in Int /\ v.base \in Nat /\ v.bytes \in Nat
<1>1. RamSize \in Nat
  BY WindowAssumption
<1>2. Align \in Nat \ {0} /\ SectorMax \in Nat \ {0}
  BY ServiceAssumption
<1>3. /\ Buffer \subseteq Nat /\ Count \subseteq Nat /\ Offset \subseteq Nat
      /\ \A b \in Buffer, n \in Count : b + n <= RamSize
  BY RequestAssumption
<1>4. \A v \in Volume : v.device \in Int /\ v.base \in Nat /\ v.bytes \in Nat
  <2>1. \A v \in Volume : v \in [device : Nat \union {-1}, base : Nat, bytes : Nat]
    BY RequestAssumption
  <2> QED BY <2>1
<1> QED BY <1>1, <1>2, <1>3, <1>4

(* A device takes blocks of at least a byte.                               *)
LEMMA BlockOfDevice ==
  ASSUME DiskInv, NEW device \in Nat, PpcGetBlockDeviceInfo(device)
  PROVE  Lower(DeviceAt(device).block, SectorMax) \in Nat \ {0}
<1> DEFINE S == DOMAIN Handle
           R == [block : Nat \ {0}, blocks : Nat, bad : SUBSET Nat]
<1>1. devices \in Seq(S) /\ device < Len(devices)
  BY DEF DiskInv, PpcGetBlockDeviceInfo
<1>2. device + 1 \in 1 .. Len(devices)
  <2> HIDE DEF S
  <2> QED BY <1>1
<1>3. devices[device + 1] \in S
  <2> HIDE DEF S
  <2> QED BY <1>1, <1>2, ElementOfSeq
<1>4. Handle \in Seq(R)
  BY HandleAssumption
<1>5. Handle[devices[device + 1]] \in R
  <2> HIDE DEF R
  <2> QED BY <1>3, <1>4, ElementOfSeq
<1>6. DeviceAt(device).block \in Nat \ {0}
  BY <1>5 DEF DeviceAt
<1> QED BY <1>6, RequestTypes DEF Lower

(* A Prime call delivers what it is asked for.                             *)
LEMMA PrimeDelivers ==
  ASSUME DiskInv, NEW ref, NEW w \in BOOLEAN, NEW b \in Buffer, NEW n \in Count,
         NEW k \in Offset, EmulDiskPrimeTransfer(ref, w, b, n, k)
  PROVE  DeliversMedium(request') /\ ram' = [a \in 0 .. RamSize - 1 |-> ram'[a]]
<1> DEFINE device == EmulDriveToDevice(ref)
           pos == (k \div Align) * Align
           left == Clipped(device, pos, n)
           size == Lower(DeviceAt(device).block, SectorMax)
           h == devices[device + 1]
           end == Blocks(device, size, pos, left, b)
           from == k - (k % Align)
<1>1. /\ request'.device = device /\ request'.buffer = b
      /\ request'.count = n /\ request'.offset = k
  BY DEF EmulDiskPrimeTransfer
<1>2. /\ RamSize \in Nat /\ b \in Nat /\ n \in Nat /\ k \in Nat /\ b + n <= RamSize
      /\ volume.base \in Nat /\ volume.bytes \in Nat /\ ram = [a \in 0 .. RamSize - 1 |-> ram[a]]
  BY RequestTypes DEF DiskInv
<1>3. from = pos /\ pos \in Nat
  <2> DEFINE q == k \div Align
             r == k % Align
  <2>1. q \in Nat /\ r \in Nat /\ Align * q \in Nat /\ k = Align * q + r
    BY <1>2, DivMod, RequestTypes
  <2>2. q * Align = Align * q
    <3> HIDE DEF q
    <3> QED BY <2>1, RequestTypes
  <2> HIDE DEF q, r
  <2>3. k - r = q * Align /\ q * Align \in Nat
    BY <2>1, <2>2
  <2> QED BY <2>3 DEF q, r
<1> HIDE DEF pos, from
<1>4. left \in Int /\ left <= n
  BY <1>2, <1>3 DEF Clipped, Bounded
<1> HIDE DEF left
<1>5. SUFFICES /\ \A a \in DOMAIN ram : ram'[a] # ram[a] =>
                    /\ a - b \in 0 .. left - 1
                    /\ ram'[a] = MediaByte(h, pos + (a - b))
               /\ d0' = NoError /\ b # 0 =>
                    \A x \in 0 .. left - 1 : ram'[b + x] = MediaByte(h, pos + x)
               /\ ram' = [a \in 0 .. RamSize - 1 |-> ram'[a]]
  <2> HIDE DEF device, h
  <2>1. \A x \in Int : x \in 0 .. left - 1 <=> x \in 0 .. n - 1 /\ Within(device, pos + x)
    <3> TAKE x \in Int
    <3>1. CASE volume.device = device
      <4>1. left = IF pos + n > volume.bytes THEN volume.bytes - pos ELSE n
        BY <3>1 DEF left, Clipped, Bounded
      <4>2. ASSUME x >= 0 PROVE Within(device, pos + x) <=> pos + x < volume.bytes
        <5>1. CASE volume.base = 0
          <6>1. Within(device, pos + x)
                  <=> pos + x \in volume.base .. volume.base + volume.bytes - 1
            BY <3>1, <5>1 DEF Within
          <6> QED BY <1>2, <1>3, <4>2, <5>1, <6>1
        <5>2. CASE volume.base # 0
          BY <3>1, <5>2 DEF Within
        <5> QED BY <5>1, <5>2
      <4> QED BY <1>2, <1>3, <4>1, <4>2
    <3>2. CASE volume.device # device
      <4>1. left = n /\ Within(device, pos + x)
        BY <3>2 DEF left, Clipped, Bounded, Within
      <4> QED BY <1>2, <4>1
    <3> QED BY <3>1, <3>2
  <2>2. \A a \in DOMAIN ram : a - b \in Int
    BY <1>2
  <2>3. \A x \in 0 .. n - 1 : x \in Int
    OBVIOUS
  <2>4. k - (k % Align) = pos
    BY <1>3 DEF from
  <2>5. devices[device + 1] = h
    BY DEF h
  <2> QED BY <1>1, <2>1, <2>2, <2>3, <2>4, <2>5 DEF DeliversMedium
<1>6. CASE UNCHANGED ram /\ d0' # NoError
  BY <1>2, <1>6
<1>7. CASE device # -1 /\ PpcGetBlockDeviceInfo(device) /\ ram' = end.m
           /\ d0' = (IF end.ok THEN NoError ELSE ReadError)
  <2>1. device \in Nat
    BY <1>7 DEF EmulDriveToDevice
  <2>2. size \in Nat \ {0}
    BY <1>7, <2>1, BlockOfDevice
  <2> HIDE DEF size, device
  <2>3. PICK g \in Nat : ReadUpTo(g, end, h, pos, left, b)
    <3>1. /\ pos \in Nat /\ left \in Int /\ b \in Nat /\ RamSize \in Nat
          /\ ram = [a \in 0 .. RamSize - 1 |-> ram[a]]
      BY <1>2, <1>3, <1>4
    <3> QED BY <2>2, <3>1, BlocksRead
  <2> HIDE DEF end, h
  <2>4. ram' = [a \in 0 .. RamSize - 1 |-> IF a - b \in 0 .. g - 1
                                           THEN MediaByte(h, pos + (a - b)) ELSE ram[a]]
    BY <1>7, <2>3 DEF Delivered, ReadUpTo
  <2>5. ASSUME NEW a \in DOMAIN ram, ram'[a] # ram[a]
        PROVE  a - b \in 0 .. left - 1 /\ ram'[a] = MediaByte(h, pos + (a - b))
    <3>1. a \in 0 .. RamSize - 1
      BY <1>2
    <3>2. a - b \in 0 .. g - 1 /\ ram'[a] = MediaByte(h, pos + (a - b))
      BY <2>4, <2>5, <3>1
    <3> QED BY <1>2, <1>4, <2>3, <3>1, <3>2 DEF ReadUpTo
  <2>6. ASSUME d0' = NoError, b # 0, NEW x \in 0 .. left - 1
        PROVE  ram'[b + x] = MediaByte(h, pos + x)
    <3>1. end.ok
      BY <1>7, <2>6 DEF NoError, ReadError
    <3>2. g = left /\ x \in Nat /\ x < left
      BY <1>4, <2>3, <2>6, <3>1 DEF ReadUpTo
    <3>3. b + x \in 0 .. RamSize - 1 /\ (b + x) - b = x /\ x \in 0 .. g - 1
      BY <1>2, <1>4, <3>2
    <3> QED BY <2>4, <3>3
  <2>7. ram' = [a \in 0 .. RamSize - 1 |-> ram'[a]]
    BY <2>4
  <2> QED BY <2>5, <2>6, <2>7
<1>8. \/ UNCHANGED ram /\ d0' # NoError
      \/ /\ device # -1 /\ PpcGetBlockDeviceInfo(device) /\ ram' = end.m
         /\ d0' = (IF end.ok THEN NoError ELSE ReadError)
  BY DEF EmulDiskPrimeTransfer, NoError, WritePermission, NoDrive, pos, left
<1> QED BY <1>6, <1>7, <1>8

(* Guest RAM keeps its size.                                               *)
LEMMA FillKeepsSize ==
  ASSUME NEW m, m = [a \in 0 .. RamSize - 1 |-> m[a]], NEW base, NEW n, NEW f
  PROVE  Fill(m, base, n, f) = [a \in 0 .. RamSize - 1 |-> Fill(m, base, n, f)[a]]
BY DEF Fill

LEMMA DiskInvKept ==
  ASSUME DiskInv, [Next]_vars
  PROVE  DiskInv'
<1> DEFINE Sized(m) == m = [a \in 0 .. RamSize - 1 |-> m[a]]
<1>1. SUFFICES Sized(ram') /\ volume' \in Volume /\ devices' \in Seq(DOMAIN Handle)
  BY DEF DiskInv
<1>2. Sized(ram) /\ volume \in Volume /\ devices \in Seq(DOMAIN Handle)
  BY DEF DiskInv
<1>3. \A base, n, f : Sized(Fill(ram, base, n, f))
  BY <1>2, FillKeepsSize
<1>4. \A shape, c : Sized(Painted(shape, c))
  BY <1>2 DEF Painted
<1> HIDE DEF Sized
<1>5. CASE Timekeeping
  BY <1>2, <1>5 DEF Timekeeping, deviceVars, serviceVars
<1>6. CASE Battery
  <2>1. UNCHANGED <<volume, devices>>
    BY <1>6 DEF Battery, OthersOfBattery
  <2>2. UNCHANGED ram \/ \E a, n, f : ram' = Fill(ram, a, n, f)
    <3>1. CASE BatteryStore
      BY <3>1 DEF BatteryStore, Xpram1Write, Xpram3, Nvram2, Nvram3Write, StoresCell
    <3>2. CASE \E k \in Offset, n \in Extent, a \in Scratch : Xpram1Read(k, n, a)
      BY <3>2 DEF Xpram1Read
    <3>3. CASE \E k \in Offset : Xpram2(k) \/ Nvram1(k) \/ Nvram3Read(k)
      BY <3>3 DEF Xpram2, Nvram1, Nvram3Read
    <3> QED BY <1>6, <3>1, <3>2, <3>3 DEF Battery
  <2> QED BY <1>2, <1>3, <2>1, <2>2
<1>7. CASE Clipboard
  <2>1. UNCHANGED <<volume, devices>>
    BY <1>7 DEF Clipboard
  <2>2. UNCHANGED ram \/ \E a, n, f : ram' = Fill(ram, a, n, f)
    <3>1. CASE ZeroScrap \/ \E s \in Bytes : PutScrap(s)
      BY <3>1 DEF ZeroScrap, PutScrap
    <3>2. CASE \E k \in Index, a \in Scratch : GetScrap(k, a)
      BY <3>2 DEF GetScrap
    <3> QED BY <1>7, <3>1, <3>2 DEF Clipboard
  <2> QED BY <1>2, <1>3, <2>1, <2>2
<1>8. CASE Disk
  <2>1. CASE Prime /\ UNCHANGED <<devices, volume>>
    <3>1. Sized(ram')
      BY <2>1, PrimeDelivers DEF Prime, Sized
    <3> QED BY <1>2, <2>1, <3>1
  <2>2. CASE PpcInitializeBlockIo /\ UNCHANGED volume
    <3>1. <<>> \in Seq(DOMAIN Handle)
      BY EmptySeq
    <3>2. UNCHANGED ram /\ (devices' = Listed \/ devices' = devices \/ devices' = <<>>)
      BY <2>2 DEF PpcInitializeBlockIo
    <3> QED BY <1>2, <2>2, <3>1, <3>2, ListedIs
  <2>3. CASE \E i \in DOMAIN Handle : MediumChanges(i) /\ UNCHANGED volume
    BY <1>2, <2>3 DEF MediumChanges
  <2> QED BY <1>8, <2>1, <2>2, <2>3 DEF Disk, serviceVars
<1>9. CASE Drawing
  <2>1. UNCHANGED volume
    BY <1>9 DEF Drawing, serviceVars
  <2>2. \A shape, meant, c : Draws(shape, meant, c) => UNCHANGED devices /\ Sized(ram')
    BY <1>2, <1>4 DEF Draws
  <2>3. \A m : PpcInitializeGraphics(m) => UNCHANGED devices /\ Sized(ram')
    BY <1>2, <1>3 DEF PpcInitializeGraphics
  <2>4. PpcInitializeHardwareAbstraction \/ PpcGraphicsBlitToDisplay =>
          UNCHANGED devices /\ Sized(ram')
    BY <1>2 DEF PpcInitializeHardwareAbstraction, PpcGraphicsBlitToDisplay
  <2>5. UNCHANGED devices /\ Sized(ram')
    BY <1>9, <2>2, <2>3, <2>4, Zenon
       DEF Drawing, PpcGraphicsClear, PpcGraphicsSetPixel, PpcGraphicsDrawRect
  <2> QED BY <1>2, <2>1, <2>5
<1>10. CASE Sounding
  <2>1. UNCHANGED volume
    BY <1>10 DEF Sounding, serviceVars
  <2>2. PpcInitializeAudio \/ PpcAudioReset => UNCHANGED devices /\ Sized(ram')
    BY <1>2, <1>3 DEF PpcInitializeAudio, PpcAudioReset, ZeroAudio
  <2>3. \A i, v : PpcAudioWriteSample(i, v) \/ GuestStoresSample(i, v) =>
          UNCHANGED devices /\ Sized(ram')
    BY <1>2, <1>3 DEF PpcAudioWriteSample, GuestStoresSample
  <2>4. \A i : PpcAudioReadSample(i) \/ PpcAudioAdvancePlayback(i) =>
          UNCHANGED devices /\ Sized(ram')
    BY <1>2 DEF PpcAudioReadSample, PpcAudioAdvancePlayback
  <2>5. UNCHANGED devices /\ Sized(ram')
    BY <1>10, <2>2, <2>3, <2>4, Zenon DEF Sounding
  <2> QED BY <1>2, <2>1, <2>5
<1>11. CASE UNCHANGED vars
  BY <1>2, <1>11 DEF vars, deviceVars, serviceVars
<1> QED BY <1>5, <1>6, <1>7, <1>8, <1>9, <1>10, <1>11 DEF Next

LEMMA DiskStart == Init => DiskInv
<1> SUFFICES ASSUME Init PROVE DiskInv
  OBVIOUS
<1>1. volume \in Volume /\ ram = [a \in 0 .. RamSize - 1 |-> 0] /\ devices = <<>>
  BY DEF Init, DevicesInit
<1> QED BY <1>1, EmptySeq DEF DiskInv

(* For every size of guest RAM, list of devices, mounted volume and mix of *)
(* requests: a disk read changes only bytes of the buffer, to the bytes of *)
(* the medium at the position asked for that are within reach, and has     *)
(* delivered all of them when it reports no error.  Within reach on a      *)
(* drive with a volume are the bytes of the volume where it begins with    *)
(* the medium, and the positions below its length where it does not.       *)
THEOREM DiskDeliversExactly == Spec => DiskReadsAreExact
<1>1. ASSUME DiskInv, [Next]_vars
      PROVE  [request' # request => DeliversMedium(request')]_vars
  <2>1. CASE Prime
    BY <1>1, <2>1, PrimeDelivers DEF Prime
  <2>2. CASE UNCHANGED request
    BY <2>2
  <2> QED BY <1>1, <2>1, <2>2
          DEF Next, Timekeeping, Battery, OthersOfBattery, Clipboard, Disk, Drawing, Sounding,
              serviceVars, vars
<1> QED BY <1>1, DiskStart, DiskInvKept, PTL DEF Spec, DiskReadsAreExact

-----------------------------------------------------------------------------
(* Histories *)

\* A history, and what it says was stored last at a place.
IsHistory(d) == \E S : d \in Seq(S)
HitsIn(d, place) == {i \in DOMAIN d : place \in d[i].places}
LatestIn(d, place) ==
  IF HitsIn(d, place) = {} THEN Initial(place)
  ELSE d[CHOOSE i \in HitsIn(d, place) : \A j \in HitsIn(d, place) : j <= i].value

LEMMA LatestOfDrawn == \A place : Latest(place) = LatestIn(drawn, place)
BY DEF Latest, LatestIn, HitsIn

\* A set of numbers with a bound has a greatest element.
LEMMA GreatestNumber ==
  ASSUME NEW S, S \subseteq Nat, S # {}, NEW b \in Nat, \A n \in S : n <= b
  PROVE  \E n \in S : \A m \in S : m <= n
<1> DEFINE T == {k \in Nat : \E n \in S : n + k = b}
<1>1. \A n \in S : n \in Nat /\ b - n \in Nat /\ n + (b - n) = b
  OBVIOUS
<1>2. \A n \in S : b - n \in T
  BY <1>1
<1>3. T \subseteq Nat /\ T # {}
  BY <1>2
<1>4. PICK t \in T : \A u \in T : t <= u
  <2> HIDE DEF T
  <2> QED BY <1>3, LeastNumber
<1>5. PICK n \in S : n + t = b
  BY <1>4
<1>6. \A m \in S : t <= b - m
  BY <1>2, <1>4
<1>7. t \in Nat
  BY <1>4
<1>8. \A m \in S : m <= n
  <2> HIDE DEF T
  <2> QED BY <1>1, <1>5, <1>6, <1>7
<1> QED BY <1>8

(* The last entry that stored at a place says what is there.               *)
LEMMA LatestIs ==
  ASSUME NEW d, IsHistory(d), NEW place, NEW j \in DOMAIN d, place \in d[j].places,
         \A i \in DOMAIN d : place \in d[i].places => i <= j
  PROVE  LatestIn(d, place) = d[j].value
<1> DEFINE at == HitsIn(d, place)
           last == CHOOSE i \in at : \A k \in at : k <= i
<1>1. DOMAIN d \subseteq Nat
  BY DEF IsHistory
<1>2. j \in at /\ \A k \in at : k <= j /\ k \in Nat
  BY <1>1 DEF HitsIn
<1>3. last \in at /\ \A k \in at : k <= last
  <2> HIDE DEF at
  <2> QED BY <1>2
<1>4. last = j
  <2> HIDE DEF at, last
  <2>1. last <= j /\ j <= last /\ last \in Nat /\ j \in Nat
    BY <1>2, <1>3
  <2> QED BY <2>1
<1> QED BY <1>2, <1>4, Zenon DEF LatestIn

\* One history goes on from another.
GoesOn(d2, d) == /\ IsHistory(d) /\ IsHistory(d2)
                 /\ Len(d) <= Len(d2)
                 /\ \A i \in 1 .. Len(d) : d2[i] = d[i]

(* Entries that store nothing at a place change nothing there.             *)
LEMMA LatestStays ==
  ASSUME NEW d, NEW d2, GoesOn(d2, d), NEW place,
         \A i \in DOMAIN d2 : i > Len(d) => place \notin d2[i].places
  PROVE  LatestIn(d2, place) = LatestIn(d, place)
<1>1. /\ Len(d) \in Nat /\ Len(d2) \in Nat /\ Len(d) <= Len(d2)
      /\ DOMAIN d = 1 .. Len(d) /\ DOMAIN d2 = 1 .. Len(d2)
  BY DEF GoesOn, IsHistory
<1>2. \A i \in DOMAIN d : i \in DOMAIN d2 /\ d2[i] = d[i]
  BY <1>1 DEF GoesOn
<1>3. \A i \in DOMAIN d2 : i > Len(d) \/ i \in DOMAIN d
  BY <1>1
<1>4. HitsIn(d2, place) = HitsIn(d, place)
  BY <1>2, <1>3 DEF HitsIn
<1>5. CASE HitsIn(d, place) = {}
  BY <1>4, <1>5 DEF LatestIn
<1>6. CASE HitsIn(d, place) # {}
  <2>1. PICK j \in HitsIn(d, place) : \A k \in HitsIn(d, place) : k <= j
    <3>1. HitsIn(d, place) \subseteq Nat /\ \A k \in HitsIn(d, place) : k <= Len(d)
      BY <1>1 DEF HitsIn
    <3> QED BY <1>1, <1>6, <3>1, GreatestNumber
  <2>2. /\ j \in DOMAIN d /\ place \in d[j].places
        /\ \A i \in DOMAIN d : place \in d[i].places => i <= j
    BY <2>1 DEF HitsIn
  <2>3. LatestIn(d, place) = d[j].value
    BY <2>2, LatestIs DEF GoesOn
  <2>4. /\ j \in DOMAIN d2 /\ place \in d2[j].places
        /\ \A i \in DOMAIN d2 : place \in d2[i].places => i <= j
    BY <1>2, <1>4, <2>1, <2>2 DEF HitsIn
  <2>5. LatestIn(d2, place) = d2[j].value
    BY <2>4, LatestIs DEF GoesOn
  <2> QED BY <1>2, <2>2, <2>3, <2>5
<1> QED BY <1>5, <1>6

(* Entries go behind those that are there.                                 *)
LEMMA ConcatGoesOn ==
  ASSUME NEW d, IsHistory(d), NEW s, IsHistory(s)
  PROVE  /\ GoesOn(d \o s, d) /\ Len(d \o s) = Len(d) + Len(s)
         /\ Len(d) \in Nat /\ Len(s) \in Nat
         /\ \A i \in 1 .. Len(s) : (d \o s)[Len(d) + i] = s[i]
<1>1. PICK S : d \in Seq(S)
  BY DEF IsHistory
<1>2. PICK T : s \in Seq(T)
  BY DEF IsHistory
<1> DEFINE U == S \union T
<1>3. d \in Seq(U) /\ s \in Seq(U)
  BY <1>1, <1>2, SeqMonotonic
<1> HIDE DEF U
<1>4. /\ d \o s \in Seq(U) /\ Len(d \o s) = Len(d) + Len(s)
      /\ Len(d) \in Nat /\ Len(s) \in Nat
      /\ \A i \in 1 .. Len(d) + Len(s) : (d \o s)[i] = IF i <= Len(d) THEN d[i] ELSE s[i - Len(d)]
  BY <1>3, ConcatProperties, LenProperties
<1>5. \A i \in 1 .. Len(s) : (d \o s)[Len(d) + i] = s[i]
  <2> TAKE i \in 1 .. Len(s)
  <2>1. Len(d) + i \in 1 .. Len(d) + Len(s) /\ ~ (Len(d) + i <= Len(d)) /\ (Len(d) + i) - Len(d) = i
    BY <1>4
  <2> QED BY <1>4, <2>1
<1>6. \A i \in 1 .. Len(d) : (d \o s)[i] = d[i]
  <2> TAKE i \in 1 .. Len(d)
  <2>1. i \in 1 .. Len(d) + Len(s) /\ i <= Len(d)
    BY <1>4
  <2> QED BY <1>4, <2>1
<1>7. Len(d) <= Len(d \o s)
  BY <1>4
<1> QED BY <1>4, <1>5, <1>6, <1>7 DEF GoesOn, IsHistory

LEMMA AppendGoesOn ==
  ASSUME NEW d, IsHistory(d), NEW e
  PROVE  /\ GoesOn(Append(d, e), d) /\ Len(Append(d, e)) = Len(d) + 1
         /\ Len(d) \in Nat /\ Append(d, e)[Len(d) + 1] = e
<1>1. PICK S : d \in Seq(S)
  BY DEF IsHistory
<1> DEFINE U == S \union {e}
<1>2. d \in Seq(U) /\ e \in U
  BY <1>1, SeqMonotonic
<1> HIDE DEF U
<1>3. /\ Append(d, e) \in Seq(U) /\ Len(Append(d, e)) = Len(d) + 1 /\ Len(d) \in Nat
      /\ \A i \in 1 .. Len(d) : Append(d, e)[i] = d[i]
      /\ Append(d, e)[Len(d) + 1] = e
  BY <1>2, AppendProperties, LenProperties
<1>4. Len(d) <= Len(d) + 1
  BY <1>3
<1> QED BY <1>3, <1>4 DEF GoesOn, IsHistory

(* What an entry stores is there.                                          *)
LEMMA LatestOfAppend ==
  ASSUME NEW d, IsHistory(d), NEW places, NEW value, NEW place
  PROVE  LatestIn(Append(d, [places |-> places, value |-> value]), place)
           = IF place \in places THEN value ELSE LatestIn(d, place)
<1> DEFINE e == [places |-> places, value |-> value]
           d2 == Append(d, e)
<1>1. e.places = places /\ e.value = value
  OBVIOUS
<1> HIDE DEF e
<1>2. /\ GoesOn(d2, d) /\ Len(d2) = Len(d) + 1 /\ Len(d) \in Nat /\ d2[Len(d) + 1] = e
  BY AppendGoesOn
<1>3. IsHistory(d2) /\ DOMAIN d2 = 1 .. Len(d) + 1
  BY <1>2 DEF GoesOn, IsHistory
<1> HIDE DEF d2
<1>4. CASE place \in places
  <2>1. Len(d) + 1 \in DOMAIN d2 /\ \A i \in DOMAIN d2 : i <= Len(d) + 1
    BY <1>2, <1>3
  <2>2. LatestIn(d2, place) = d2[Len(d) + 1].value
    BY <1>1, <1>2, <1>3, <1>4, <2>1, LatestIs
  <2> QED BY <1>1, <1>2, <1>4, <2>2 DEF d2, e
<1>5. CASE place \notin places
  <2>1. \A i \in DOMAIN d2 : i > Len(d) => i = Len(d) + 1
    BY <1>2, <1>3
  <2>2. LatestIn(d2, place) = LatestIn(d, place)
    BY <1>1, <1>2, <1>5, <2>1, LatestStays
  <2> QED BY <1>5, <2>2 DEF d2, e
<1> QED BY <1>4, <1>5

\* The entries of bytes stored one after the other.
Entries(where, bytes) == [i \in DOMAIN bytes |-> [places |-> {where[i]}, value |-> bytes[i]]]

LEMMA LatestOfEntries ==
  ASSUME NEW d, IsHistory(d), NEW bytes, IsHistory(bytes), NEW where, NEW place
  PROVE  LET d2 == d \o Entries(where, bytes)
         IN  /\ GoesOn(d2, d)
             /\ \A i \in DOMAIN d2 : i > Len(d) =>
                  \E j \in DOMAIN bytes : d2[i].places = {where[j]}
             /\ (\A i \in DOMAIN bytes : where[i] # place) =>
                  LatestIn(d2, place) = LatestIn(d, place)
             /\ \A i \in DOMAIN bytes :
                  where[i] = place /\ (\A j \in DOMAIN bytes : where[j] = place => j <= i) =>
                    LatestIn(d2, place) = bytes[i]
<1> DEFINE s == Entries(where, bytes)
           d2 == d \o s
<1>1. DOMAIN bytes = 1 .. Len(bytes) /\ Len(bytes) \in Nat
  BY DEF IsHistory
<1>2. /\ s = [i \in 1 .. Len(bytes) |-> s[i]]
      /\ \A i \in 1 .. Len(bytes) : s[i].places = {where[i]} /\ s[i].value = bytes[i]
  BY <1>1 DEF Entries
<1> HIDE DEF s
<1>3. IsHistory(s) /\ Len(s) = Len(bytes)
  <2> DEFINE S == {s[i] : i \in 1 .. Len(bytes)}
  <2>1. s \in [1 .. Len(bytes) -> S]
    BY <1>2
  <2> HIDE DEF S
  <2>2. s \in Seq(S) /\ Len(s) = Len(bytes)
    BY <1>1, <2>1
  <2> QED BY <2>2 DEF IsHistory
<1>4. /\ GoesOn(d2, d) /\ Len(d2) = Len(d) + Len(bytes) /\ Len(d) \in Nat
      /\ \A i \in 1 .. Len(bytes) : d2[Len(d) + i] = s[i]
  BY <1>3, ConcatGoesOn
<1>5. IsHistory(d2) /\ DOMAIN d2 = 1 .. Len(d) + Len(bytes)
  BY <1>4 DEF GoesOn, IsHistory
<1> HIDE DEF d2
<1>6. \A i \in DOMAIN d2 : i > Len(d) =>
        i - Len(d) \in 1 .. Len(bytes) /\ Len(d) + (i - Len(d)) = i
  BY <1>1, <1>4, <1>5
<1>7. \A i \in DOMAIN d2 : i > Len(d) =>
        /\ i - Len(d) \in DOMAIN bytes /\ Len(d) + (i - Len(d)) = i
        /\ d2[i].places = {where[i - Len(d)]}
  <2> TAKE i \in DOMAIN d2
  <2> HAVE i > Len(d)
  <2> DEFINE j == i - Len(d)
  <2>1. j \in 1 .. Len(bytes) /\ Len(d) + j = i
    BY <1>6
  <2> HIDE DEF j
  <2>2. d2[i] = s[j]
    BY <1>4, <2>1
  <2>3. j \in DOMAIN bytes /\ Len(d) + j = i /\ d2[i].places = {where[j]}
    BY <1>1, <1>2, <2>1, <2>2
  <2> QED BY <2>3 DEF j
<1>8. ASSUME \A i \in DOMAIN bytes : where[i] # place
      PROVE  LatestIn(d2, place) = LatestIn(d, place)
  <2>1. \A i \in DOMAIN d2 : i > Len(d) => place \notin d2[i].places
    BY <1>7, <1>8
  <2> QED BY <1>4, <2>1, LatestStays
<1>9. ASSUME NEW i \in DOMAIN bytes, where[i] = place,
             \A j \in DOMAIN bytes : where[j] = place => j <= i
      PROVE  LatestIn(d2, place) = bytes[i]
  <2> DEFINE k == Len(d) + i
  <2>1. /\ i \in Nat /\ i >= 1 /\ k \in DOMAIN d2 /\ d2[k] = s[i]
        /\ s[i].places = {place} /\ s[i].value = bytes[i]
    BY <1>1, <1>2, <1>4, <1>5, <1>9
  <2>2. ASSUME NEW m \in DOMAIN d2, place \in d2[m].places PROVE m <= k
    <3>1. CASE m > Len(d)
      <4>1. m - Len(d) \in DOMAIN bytes /\ place = where[m - Len(d)]
        BY <1>7, <2>2, <3>1
      <4>2. m - Len(d) <= i
        BY <1>9, <4>1
      <4>3. m \in Nat
        BY <1>4, <1>5
      <4> QED BY <1>4, <2>1, <4>2, <4>3
    <3>2. CASE ~ (m > Len(d))
      <4>1. m \in Nat
        BY <1>4, <1>5
      <4> QED BY <1>4, <2>1, <3>2, <4>1
    <3> QED BY <3>1, <3>2
  <2> HIDE DEF k
  <2>3. place \in d2[k].places /\ d2[k].value = bytes[i]
    BY <2>1
  <2> QED BY <1>5, <2>1, <2>2, <2>3, LatestIs
<1>10. \A i \in DOMAIN d2 : i > Len(d) => \E j \in DOMAIN bytes : d2[i].places = {where[j]}
  BY <1>7
<1> QED BY <1>4, <1>8, <1>9, <1>10 DEF d2, s

-----------------------------------------------------------------------------
(* The battery-backed memory *)

BatteryInv == family = "battery" =>
                /\ xpram = [k \in 0 .. NvramSize - 1 |-> xpram[k]]
                /\ \A k \in 0 .. NvramSize - 1 : xpram[k] = LatestIn(drawn, Cell(k))

(* The cells of the XPRAM window lie in the memory.                        *)
LEMMA CellsOfWindow ==
  /\ NvramSize \in Nat \ {0} /\ XpramBase \in Nat /\ XpramSize \in Nat \ {0} /\ LocalTalk \in Nat
  /\ LocalTalk + 3 < NvramSize
  /\ \A o \in Nat : XpramCell(o) \in 0 .. NvramSize - 1
  /\ \A o \in Nat : (o % NvramSize) \in 0 .. NvramSize - 1
<1>1. /\ NvramSize \in Nat /\ XpramBase \in Nat /\ XpramSize \in Nat \ {0} /\ LocalTalk \in Nat
      /\ XpramBase + XpramSize <= NvramSize /\ LocalTalk + 3 < NvramSize
  BY ServiceAssumption
<1>2. NvramSize \in Nat \ {0}
  BY <1>1
<1>3. \A o \in Nat : (o % XpramSize) \in Nat /\ (o % XpramSize) < XpramSize
  BY <1>1, DivMod
<1>4. \A o \in Nat : (o % NvramSize) \in Nat /\ (o % NvramSize) < NvramSize
  BY <1>2, DivMod
<1>5. \A o \in Nat : XpramCell(o) \in 0 .. NvramSize - 1
  <2> TAKE o \in Nat
  <2> DEFINE r == o % XpramSize
  <2>1. r \in Nat /\ r < XpramSize
    BY <1>3
  <2> HIDE DEF r
  <2>2. r + XpramBase \in 0 .. NvramSize - 1
    BY <1>1, <2>1
  <2> QED BY <2>2 DEF XpramCell, r
<1>6. \A o \in Nat : (o % NvramSize) \in 0 .. NvramSize - 1
  <2> TAKE o \in Nat
  <2> DEFINE r == o % NvramSize
  <2>1. r \in Nat /\ r < NvramSize
    BY <1>4
  <2> HIDE DEF r
  <2>2. r \in 0 .. NvramSize - 1
    BY <1>1, <2>1
  <2> QED BY <2>2 DEF r
<1> QED BY <1>1, <1>2, <1>5, <1>6

LEMMA CellsDiffer == \A j, k : Cell(j) = Cell(k) => j = k
BY DEF Cell

\* What was read from places is what a history says of them.
Answered(given, d) == \A r \in given : r.value = LatestIn(d, r.place)

LEMMA OffsetsAndBytes == /\ Offset \subseteq Nat /\ Bytes \subseteq Seq(Nat)
                         /\ \A s \in Bytes : IsHistory(s) /\ DOMAIN s \subseteq Nat
<1>1. Offset \subseteq Nat /\ Bytes \subseteq Seq(Nat)
  BY RequestAssumption
<1>2. \A s \in Bytes : IsHistory(s)
  BY <1>1 DEF IsHistory
<1>3. \A s \in Bytes : DOMAIN s \subseteq Nat
  BY <1>1
<1> QED BY <1>1, <1>2, <1>3

(* A string of bytes written through the window is what is there.          *)
LEMMA XpramWritten ==
  ASSUME IsHistory(drawn), family = "battery", BatteryInv, NEW ofs \in Offset, NEW bytes \in Bytes,
         Xpram1Write(ofs, bytes), family' = family
  PROVE  GoesOn(drawn', drawn) /\ BatteryInv' /\ answer' = {}
<1> DEFINE cell(i) == XpramCell(ofs + i - 1)
           where == [i \in DOMAIN bytes |-> Cell(XpramBase + ((ofs + (i - 1)) % XpramSize))]
           hits(k) == {i \in DOMAIN bytes : cell(i) = k}
           last(k) == CHOOSE i \in hits(k) : \A j \in hits(k) : j <= i
<1>1. drawn' = drawn \o Entries(where, bytes) /\ answer' = {}
  BY DEF Xpram1Write, StoredBytes, Entries
<1>2. xpram' = [k \in DOMAIN xpram |-> IF hits(k) = {} THEN xpram[k] ELSE bytes[last(k)]]
  BY DEF Xpram1Write
<1>3. \A i \in DOMAIN bytes : cell(i) \in 0 .. NvramSize - 1 /\ where[i] = Cell(cell(i))
  <2> TAKE i \in DOMAIN bytes
  <2>1. ofs \in Nat /\ i \in Nat /\ i >= 1
    BY OffsetsAndBytes
  <2>2. ofs + (i - 1) \in Nat
    BY <2>1
  <2> DEFINE r == (ofs + (i - 1)) % XpramSize
  <2>3. r \in Nat
    BY <2>2, CellsOfWindow, DivMod
  <2>4. where[i] = Cell(XpramBase + r) /\ cell(i) = r + XpramBase
    BY DEF XpramCell
  <2>5. cell(i) \in 0 .. NvramSize - 1
    BY <2>2, CellsOfWindow
  <2>6. XpramBase + r = r + XpramBase
    <3> HIDE DEF r
    <3> QED BY <2>3, CellsOfWindow
  <2> HIDE DEF cell, where, r
  <2> QED BY <2>4, <2>5, <2>6
<1> HIDE DEF where, cell
<1>4. IsHistory(bytes) /\ DOMAIN bytes = 1 .. Len(bytes) /\ Len(bytes) \in Nat
  BY OffsetsAndBytes
<1>5. GoesOn(drawn', drawn)
  BY <1>1, <1>4, LatestOfEntries
<1>6. xpram = [k \in 0 .. NvramSize - 1 |-> xpram[k]]
  BY DEF BatteryInv
<1>7. xpram' = [k \in 0 .. NvramSize - 1 |-> IF hits(k) = {} THEN xpram[k] ELSE bytes[last(k)]]
  BY <1>2, <1>6
<1>8. ASSUME NEW k \in 0 .. NvramSize - 1
      PROVE  xpram'[k] = LatestIn(drawn', Cell(k))
  <2>1. \A i \in DOMAIN bytes : where[i] = Cell(k) <=> i \in hits(k)
    BY <1>3, CellsDiffer
  <2>2. CASE hits(k) = {}
    <3>1. LatestIn(drawn', Cell(k)) = LatestIn(drawn, Cell(k))
      BY <1>1, <1>4, <2>1, <2>2, LatestOfEntries
    <3>2. xpram'[k] = xpram[k]
      BY <1>7, <2>2
    <3> QED BY <3>1, <3>2 DEF BatteryInv
  <2>3. CASE hits(k) # {}
    <3>1. hits(k) \subseteq Nat /\ \A i \in hits(k) : i <= Len(bytes)
      BY <1>4
    <3>2. PICK m \in hits(k) : \A j \in hits(k) : j <= m
      <4> HIDE DEF hits
      <4> QED BY <1>4, <2>3, <3>1, GreatestNumber
    <3>3. last(k) \in hits(k) /\ \A j \in hits(k) : j <= last(k)
      <4> HIDE DEF hits
      <4> QED BY <3>2
    <3>4. xpram'[k] = bytes[last(k)]
      BY <1>7, <2>3
    <3> DEFINE n == last(k)
    <3> HIDE DEF n, last
    <3>5. n \in hits(k) /\ (\A j \in hits(k) : j <= n) /\ xpram'[k] = bytes[n]
      BY <3>3, <3>4 DEF n
    <3>6. /\ n \in DOMAIN bytes /\ where[n] = Cell(k)
          /\ \A j \in DOMAIN bytes : where[j] = Cell(k) => j <= n
      BY <2>1, <3>5
    <3>7. LatestIn(drawn', Cell(k)) = bytes[n]
      BY <1>1, <1>4, <3>6, LatestOfEntries
    <3> QED BY <3>5, <3>7
  <2> QED BY <2>2, <2>3
<1>9. xpram' = [k \in 0 .. NvramSize - 1 |-> xpram'[k]]
  BY <1>7
<1> QED BY <1>1, <1>5, <1>8, <1>9 DEF BatteryInv

(* So is a byte stored in a cell.                                          *)
LEMMA CellStored ==
  ASSUME IsHistory(drawn), family = "battery", BatteryInv, NEW k \in 0 .. NvramSize - 1, NEW v,
         StoresCell(k, k, v), family' = family
  PROVE  GoesOn(drawn', drawn) /\ BatteryInv' /\ answer' = {}
<1> DEFINE e == [places |-> {Cell(k)}, value |-> v]
           bytes == <<v>>
           where == [i \in DOMAIN bytes |-> Cell(k)]
<1>1. drawn' = drawn \o Entries(where, bytes) /\ answer' = {} /\ xpram' = [xpram EXCEPT ![k] = v]
  BY DEF StoresCell, StoredBytes, Entries
<1>2. DOMAIN bytes = {1} /\ bytes[1] = v /\ where[1] = Cell(k)
  OBVIOUS
<1>3. IsHistory(bytes)
  <2>1. bytes \in Seq({v})
    OBVIOUS
  <2> QED BY <2>1 DEF IsHistory
<1> HIDE DEF bytes, where
<1>4. GoesOn(drawn', drawn)
  BY <1>1, <1>3, LatestOfEntries
<1>5. xpram = [j \in 0 .. NvramSize - 1 |-> xpram[j]]
  BY DEF BatteryInv
<1>6. xpram' = [j \in 0 .. NvramSize - 1 |-> IF j = k THEN v ELSE xpram[j]]
  BY <1>1, <1>5
<1>7. ASSUME NEW j \in 0 .. NvramSize - 1
      PROVE  xpram'[j] = LatestIn(drawn', Cell(j))
  <2>1. CASE j = k
    <3>1. LatestIn(drawn', Cell(j)) = bytes[1]
      BY <1>1, <1>2, <1>3, <2>1, LatestOfEntries
    <3> QED BY <1>2, <1>6, <2>1, <3>1
  <2>2. CASE j # k
    <3>1. \A i \in DOMAIN bytes : where[i] # Cell(j)
      BY <1>2, <2>2, CellsDiffer
    <3>2. LatestIn(drawn', Cell(j)) = LatestIn(drawn, Cell(j))
      BY <1>1, <1>3, <3>1, LatestOfEntries
    <3> QED BY <1>6, <2>2, <3>2 DEF BatteryInv
  <2> QED BY <2>1, <2>2
<1>8. xpram' = [j \in 0 .. NvramSize - 1 |-> xpram'[j]]
  BY <1>6
<1> QED BY <1>1, <1>4, <1>7, <1>8 DEF BatteryInv

LEMMA GoesOnSame ==
  ASSUME NEW d, IsHistory(d)
  PROVE  GoesOn(d, d)
<1>1. Len(d) \in Nat
  BY DEF IsHistory
<1> QED BY <1>1 DEF GoesOn

\* The windows do not overlap, as far as a history knows.
Apart(d) == \A i \in DOMAIN d : FbBase + 4 * PixelsIn(d[i].places) <= AudioBase

\* The services' part of an action: the history goes on, and what was read
\* is what it says.
Honest == /\ GoesOn(drawn', drawn)
          /\ Apart(drawn') => Answered(answer', drawn')

(* A copy of cells in guest RAM holds what the cells hold.                 *)
LEMMA XpramCopied ==
  ASSUME DiskInv, IsHistory(drawn), family = "battery", BatteryInv, NEW ofs \in Offset,
         NEW n \in Extent, NEW adr \in Scratch, Xpram1Read(ofs, n, adr), family' = family
  PROVE  Honest /\ BatteryInv'
<1> DEFINE where(i) == Cell(XpramBase + ((ofs + (i - 1)) % XpramSize))
           f == [i \in 0 .. n - 1 |-> xpram[XpramCell(ofs + i)]]
<1>1. /\ ram' = Fill(ram, adr, n, f)
      /\ UNCHANGED <<xpram, drawn>>
  BY DEF Xpram1Read
<1>2. answer' = {[place |-> where(i), value |-> [j \in 1 .. n |-> ram'[adr + j - 1]][i]]
                   : i \in DOMAIN [j \in 1 .. n |-> ram'[adr + j - 1]]}
  BY DEF Xpram1Read, Answers
<1>3. answer' = {[place |-> where(i), value |-> ram'[adr + i - 1]] : i \in 1 .. n}
  <2>1. DOMAIN [j \in 1 .. n |-> ram'[adr + j - 1]] = 1 .. n
    OBVIOUS
  <2>2. \A i \in 1 .. n : [j \in 1 .. n |-> ram'[adr + j - 1]][i] = ram'[adr + i - 1]
    OBVIOUS
  <2> HIDE DEF where
  <2> QED BY <1>2, <2>1, <2>2
<1>4. ofs \in Nat /\ n \in Nat /\ adr \in Nat /\ adr + n <= RamSize /\ RamSize \in Nat
  <2>1. n \in Nat
    BY RequestAssumption, ServiceAssumption
  <2> QED BY <2>1, RequestAssumption, OffsetsAndBytes, RequestTypes
<1>5. ASSUME NEW i \in 1 .. n
      PROVE  ram'[adr + i - 1] = LatestIn(drawn', where(i))
  <2> DEFINE o == ofs + (i - 1)
             r == o % XpramSize
             k == XpramCell(o)
  <2>1. i - 1 \in 0 .. n - 1 /\ o \in Nat /\ adr + i - 1 \in adr .. adr + n - 1
        /\ adr + i - 1 \in 0 .. RamSize - 1 /\ (adr + i - 1) - adr = i - 1
    BY <1>4
  <2>2. ram'[adr + i - 1] = f[i - 1]
    <3> HIDE DEF f
    <3>1. ram' = [a \in 0 .. RamSize - 1 |-> IF a \in adr .. adr + n - 1 THEN f[a - adr] ELSE ram[a]]
      BY <1>1 DEF Fill, DiskInv
    <3> QED BY <2>1, <3>1
  <2>3. f[i - 1] = xpram[k]
    BY <2>1
  <2>4. k \in 0 .. NvramSize - 1
    <3> HIDE DEF o
    <3> QED BY <2>1, CellsOfWindow
  <2>5. r \in Nat
    <3> HIDE DEF o
    <3> QED BY <2>1, CellsOfWindow, DivMod
  <2>6. k = r + XpramBase /\ where(i) = Cell(XpramBase + r)
    BY DEF XpramCell
  <2> HIDE DEF f, k, r, where
  <2>7. where(i) = Cell(k)
    BY <2>5, <2>6, CellsOfWindow
  <2>8. xpram[k] = LatestIn(drawn, Cell(k))
    BY <2>4 DEF BatteryInv
  <2> QED BY <1>1, <2>2, <2>3, <2>7, <2>8
<1> HIDE DEF where
<1>6. Answered(answer', drawn')
  BY <1>3, <1>5 DEF Answered
<1>7. GoesOn(drawn', drawn) /\ BatteryInv'
  BY <1>1, GoesOnSame DEF BatteryInv
<1> QED BY <1>6, <1>7 DEF Honest

(* So the battery memory gives back what was stored last.                  *)
LEMMA BatteryStep ==
  ASSUME DiskInv, IsHistory(drawn), BatteryInv, Battery, family' = family
  PROVE  Honest /\ BatteryInv'
<1>1. family = "battery"
  BY DEF Battery
<1>2. ASSUME GoesOn(drawn', drawn), answer' = {} PROVE Honest
  BY <1>2 DEF Honest, Answered
<1>3. ASSUME NEW k \in 0 .. NvramSize - 1, UNCHANGED <<xpram, drawn>>,
             answer' = {[place |-> Cell(k), value |-> xpram[k]]}
      PROVE  Honest /\ BatteryInv'
  <2>1. xpram[k] = LatestIn(drawn', Cell(k))
    BY <1>1, <1>3 DEF BatteryInv
  <2>2. GoesOn(drawn', drawn) /\ BatteryInv'
    BY <1>3, GoesOnSame DEF BatteryInv
  <2> QED BY <1>3, <2>1, <2>2 DEF Honest, Answered
<1>4. \A o \in Nat : XpramCell(o) = XpramBase + (o % XpramSize)
  <2> TAKE o \in Nat
  <2> DEFINE r == o % XpramSize
  <2>1. r \in Nat
    BY CellsOfWindow, DivMod
  <2>2. XpramCell(o) = r + XpramBase
    BY DEF XpramCell
  <2> HIDE DEF r
  <2>3. XpramCell(o) = XpramBase + r
    BY <2>1, <2>2, CellsOfWindow
  <2> QED BY <2>3 DEF r
<1>5. CASE \E k \in Offset, s \in Bytes : Xpram1Write(k, s)
  BY <1>1, <1>2, <1>5, XpramWritten
<1>6. CASE \E k \in Offset, s \in Bytes :
             s # <<>> /\ (Xpram3(k, s[1]) \/ Nvram2(k, s[1]) \/ Nvram3Write(k, s[1]))
  <2>1. PICK k \in Offset, s \in Bytes :
          Xpram3(k, s[1]) \/ Nvram2(k, s[1]) \/ Nvram3Write(k, s[1])
    BY <1>6
  <2> DEFINE v == s[1]
  <2> HIDE DEF v
  <2>0. Xpram3(k, v) \/ Nvram2(k, v) \/ Nvram3Write(k, v)
    BY <2>1 DEF v
  <2>2. k \in Nat /\ k + XpramBase \in Nat
    BY OffsetsAndBytes, CellsOfWindow
  <2>3. PICK c \in 0 .. NvramSize - 1 : StoresCell(c, c, v)
    <3>1. CASE Xpram3(k, v)
      <4>1. StoresCell(XpramCell(k), XpramBase + (k % XpramSize), v)
        BY <3>1 DEF Xpram3
      <4> QED BY <1>4, <2>2, <4>1, CellsOfWindow, Zenon
    <3>2. CASE Nvram2(k, v)
      BY <2>2, <3>2, CellsOfWindow, Zenon DEF Nvram2
    <3>3. CASE Nvram3Write(k, v)
      BY <2>2, <3>3, CellsOfWindow, Zenon DEF Nvram3Write
    <3> QED BY <2>0, <3>1, <3>2, <3>3
  <2> QED BY <1>1, <1>2, <2>3, CellStored
<1>7. CASE \E k \in Offset, n \in Extent, a \in Scratch : Xpram1Read(k, n, a)
  BY <1>1, <1>7, XpramCopied
<1>8. CASE \E k \in Offset : Xpram2(k)
  <2>1. PICK k \in Offset : Xpram2(k)
    BY <1>8
  <2>2. k \in Nat
    BY OffsetsAndBytes
  <2>3. XpramCell(k) \in 0 .. NvramSize - 1 /\ XpramBase + (k % XpramSize) = XpramCell(k)
    BY <1>4, <2>2, CellsOfWindow, Zenon
  <2>4. UNCHANGED <<xpram, drawn>>
        /\ answer' = {[place |-> Cell(XpramCell(k)), value |-> xpram[XpramCell(k)]]}
    BY <2>1, <2>3, Zenon DEF Xpram2
  <2> QED BY <1>3, <2>3, <2>4
<1>9. CASE \E k \in Offset : Nvram1(k)
  <2>1. PICK o \in Offset : Nvram1(o)
    BY <1>9
  <2>2. (o % NvramSize) \in 0 .. NvramSize - 1
    BY OffsetsAndBytes, CellsOfWindow, Zenon
  <2>3. CASE answer' = {}
    <3>1. UNCHANGED <<xpram, drawn>>
      BY <2>1 DEF Nvram1
    <3> QED BY <1>2, <2>3, <3>1, GoesOnSame DEF BatteryInv
  <2>4. CASE answer' # {}
    <3>1. UNCHANGED <<xpram, drawn>>
          /\ answer' = {[place |-> Cell(o % NvramSize), value |-> xpram[o % NvramSize]]}
      BY <2>1, <2>4 DEF Nvram1
    <3> QED BY <1>3, <2>2, <3>1
  <2> QED BY <2>3, <2>4
<1>10. CASE \E k \in Offset : Nvram3Read(k)
  <2>1. PICK o \in Offset : Nvram3Read(o)
    BY <1>10
  <2> DEFINE k == (o + XpramBase) % NvramSize
  <2>2. o + XpramBase \in Nat
    BY OffsetsAndBytes, CellsOfWindow
  <2>3. k \in 0 .. NvramSize - 1
    BY <2>2, CellsOfWindow, Zenon
  <2>4. UNCHANGED <<xpram, drawn>> /\ answer' = {[place |-> Cell(k), value |-> xpram[k]]}
    BY <2>1, Zenon DEF Nvram3Read
  <2> HIDE DEF k
  <2> QED BY <1>3, <2>3, <2>4
<1> QED BY <1>5, <1>6, <1>7, <1>8, <1>9, <1>10 DEF Battery, BatteryStore

-----------------------------------------------------------------------------
(* The clipboard *)

ScrapInv == family = "scrap" =>
              /\ scrap = [k \in 0 .. ScrapSize - 1 |-> scrap[k]]
              /\ scrapLen \in 0 .. ScrapSize
              /\ \A k \in 0 .. scrapLen - 1 : scrap[k] = LatestIn(drawn, <<"scrap", k>>)

LEMMA GoesOnFurther ==
  ASSUME NEW d, NEW d2, NEW d3, GoesOn(d2, d), GoesOn(d3, d2)
  PROVE  GoesOn(d3, d)
<1>1. Len(d) \in Nat /\ Len(d2) \in Nat /\ Len(d3) \in Nat /\ Len(d) <= Len(d2) /\ Len(d2) <= Len(d3)
  BY DEF GoesOn, IsHistory
<1>2. \A i \in 1 .. Len(d) : i \in 1 .. Len(d2) /\ d2[i] = d[i] /\ d3[i] = d2[i]
  BY <1>1 DEF GoesOn
<1> QED BY <1>1, <1>2 DEF GoesOn

(* A text put on the clipboard is there as far as there is room.           *)
LEMMA ScrapPut ==
  ASSUME IsHistory(drawn), family = "scrap", ScrapInv, NEW bytes \in Bytes, PutScrap(bytes),
         family' = family
  PROVE  Honest /\ ScrapInv'
<1> DEFINE n == Lower(Len(bytes), ScrapSize)
           text == SubSeq(bytes, 1, n)
           where == [i \in DOMAIN text |-> <<"scrap", i - 1>>]
<1>1. /\ scrap' = [k \in DOMAIN scrap |-> IF k < n THEN bytes[k + 1] ELSE scrap[k]]
      /\ scrapLen' = n /\ answer' = {}
      /\ drawn' = TextGone \o Entries(where, text)
  BY DEF PutScrap, StoredBytes, Entries
<1>2. bytes \in Seq(Nat) /\ n \in 0 .. Len(bytes) /\ n \in 0 .. ScrapSize
             /\ ScrapSize \in Nat
  BY OffsetsAndBytes, ServiceAssumption DEF Lower
<1>3. /\ text \in Seq(Nat) /\ DOMAIN text = 1 .. n
      /\ \A i \in 1 .. n : text[i] = bytes[i]
  <2> HIDE DEF n
  <2>1. \A i \in 1 .. n : i \in 1 .. Len(bytes)
    BY <1>2
  <2> QED BY <1>2, <2>1
<1> HIDE DEF n, text
<1>4. IsHistory(text) /\ DOMAIN where = 1 .. n /\ \A i \in 1 .. n : where[i] = <<"scrap", i - 1>>
  BY <1>3 DEF IsHistory
<1> HIDE DEF where
<1>5. GoesOn(TextGone, drawn)
  BY AppendGoesOn DEF TextGone
<1>6. IsHistory(TextGone)
  BY <1>5 DEF GoesOn
<1>6a. GoesOn(drawn', TextGone)
  BY <1>1, <1>4, <1>6, LatestOfEntries
<1>7. GoesOn(drawn', drawn)
  BY <1>5, <1>6a, GoesOnFurther
<1>8. scrap' = [k \in 0 .. ScrapSize - 1 |-> IF k < n THEN bytes[k + 1] ELSE scrap[k]]
  BY <1>1 DEF ScrapInv
<1>9. ASSUME NEW k \in 0 .. n - 1
      PROVE  scrap'[k] = LatestIn(drawn', <<"scrap", k>>)
  <2> DEFINE i == k + 1
             place == <<"scrap", k>>
             d2 == TextGone \o Entries(where, text)
  <2>1. k \in 0 .. ScrapSize - 1 /\ k < n /\ i \in 1 .. n /\ i - 1 = k
    BY <1>2
  <2>2. scrap'[k] = text[i]
    BY <1>3, <1>8, <2>1
  <2>3. \A j \in 1 .. n : where[j] = place => j <= i
    <3> TAKE j \in 1 .. n
    <3> HAVE where[j] = place
    <3>1. <<"scrap", j - 1>>[2] = <<"scrap", k>>[2]
      BY <1>4
    <3>2. j - 1 = k
      BY <3>1
    <3> QED BY <1>2, <3>2
  <2>4. /\ where[i] = place /\ i \in DOMAIN text /\ IsHistory(text) /\ IsHistory(TextGone)
        /\ \A j \in DOMAIN text : where[j] = place => j <= i
    BY <1>3, <1>4, <1>6, <2>1, <2>3
  <2> HIDE DEF place, d2, i
  <2>5. LatestIn(d2, place) = text[i]
    BY <2>4, LatestOfEntries DEF d2
  <2> QED BY <1>1, <2>2, <2>5 DEF place, d2
<1> QED BY <1>1, <1>2, <1>7, <1>8, <1>9 DEF Honest, Answered, ScrapInv

(* A copy of a part of the clipboard holds what is there.                  *)
LEMMA ScrapCopied ==
  ASSUME DiskInv, IsHistory(drawn), family = "scrap", ScrapInv, NEW ofs \in Index,
         NEW dst \in Scratch, GetScrap(ofs, dst), family' = family
  PROVE  Honest /\ ScrapInv'
<1> DEFINE n == Lower(scrapLen - ofs, ScrapWindow)
           f == [i \in 0 .. n - 1 |-> scrap[ofs + i]]
           where(i) == <<"scrap", ofs + (i - 1)>>
<1>1. UNCHANGED <<scrap, scrapLen, drawn>>
  BY DEF GetScrap
<1>2. GoesOn(drawn', drawn) /\ ScrapInv'
  BY <1>1, GoesOnSame DEF ScrapInv
<1>3. CASE answer' = {}
  BY <1>2, <1>3 DEF Honest, Answered
<1>4. CASE n > 0 /\ ram' = Fill(ram, dst, n, f)
           /\ answer' = {[place |-> where(i), value |-> [j \in 1 .. n |-> ram'[dst + j - 1]][i]]
                           : i \in DOMAIN [j \in 1 .. n |-> ram'[dst + j - 1]]}
  <2>1. answer' = {[place |-> where(i), value |-> ram'[dst + i - 1]] : i \in 1 .. n}
    <3>1. DOMAIN [j \in 1 .. n |-> ram'[dst + j - 1]] = 1 .. n
      OBVIOUS
    <3>2. \A i \in 1 .. n : [j \in 1 .. n |-> ram'[dst + j - 1]][i] = ram'[dst + i - 1]
      OBVIOUS
    <3> HIDE DEF where, n
    <3> QED BY <1>4, <3>1, <3>2
  <2>2. /\ scrapLen \in Nat
        /\ ofs \in Nat /\ dst \in Nat /\ ScrapWindow \in Nat /\ RamSize \in Nat
        /\ dst + ScrapWindow <= RamSize
    <3>1. scrapLen \in Nat
      BY ServiceAssumption DEF ScrapInv
    <3>2. ofs \in Nat /\ dst \in Nat /\ ScrapWindow \in Nat /\ dst + ScrapWindow <= RamSize
      BY RequestAssumption, ServiceAssumption
    <3> QED BY <3>1, <3>2, RequestTypes
  <2>3. n \in Nat /\ n <= ScrapWindow /\ ofs + n <= scrapLen
    BY <1>4, <2>2 DEF Lower
  <2>4. ram' = [a \in 0 .. RamSize - 1 |-> IF a \in dst .. dst + n - 1 THEN f[a - dst] ELSE ram[a]]
    BY <1>4 DEF Fill, DiskInv
  <2> HIDE DEF n
  <2>5. ASSUME NEW i \in 1 .. n
        PROVE  ram'[dst + i - 1] = LatestIn(drawn', where(i))
    <3>1. i - 1 \in 0 .. n - 1 /\ dst + i - 1 \in dst .. dst + n - 1
          /\ dst + i - 1 \in 0 .. RamSize - 1 /\ (dst + i - 1) - dst = i - 1
      BY <2>2, <2>3
    <3>2. ofs + (i - 1) \in 0 .. scrapLen - 1
      BY <2>2, <2>3
    <3>3. f[i - 1] = scrap[ofs + (i - 1)]
      BY <3>1
    <3> HIDE DEF f
    <3>4. ram'[dst + i - 1] = scrap[ofs + (i - 1)]
      BY <2>4, <3>1, <3>3
    <3>5. scrap[ofs + (i - 1)] = LatestIn(drawn, <<"scrap", ofs + (i - 1)>>)
      BY <3>2 DEF ScrapInv
    <3> QED BY <1>1, <3>4, <3>5
  <2> HIDE DEF where
  <2>6. Answered(answer', drawn')
    BY <2>1, <2>5 DEF Answered
  <2> QED BY <1>2, <2>6 DEF Honest
<1> QED BY <1>3, <1>4 DEF GetScrap, Answers

(* So the clipboard gives back the text that was put there last.           *)
LEMMA ClipboardStep ==
  ASSUME DiskInv, IsHistory(drawn), ScrapInv, Clipboard, family' = family
  PROVE  Honest /\ ScrapInv'
<1>1. family = "scrap"
  BY DEF Clipboard
<1>2. CASE ZeroScrap
  <2>1. scrapLen' = 0 /\ scrap' = scrap /\ answer' = {} /\ drawn' = TextGone
    BY <1>2 DEF ZeroScrap
  <2>2. GoesOn(drawn', drawn)
    BY <2>1, AppendGoesOn DEF TextGone
  <2>3. ScrapInv'
    BY <1>1, <2>1, ServiceAssumption DEF ScrapInv
  <2> QED BY <2>1, <2>2, <2>3 DEF Honest, Answered
<1>3. CASE \E s \in Bytes : PutScrap(s)
  BY <1>1, <1>3, ScrapPut
<1>4. CASE \E k \in Index, a \in Scratch : GetScrap(k, a)
  BY <1>1, <1>4, ScrapCopied
<1> QED BY <1>2, <1>3, <1>4 DEF Clipboard

-----------------------------------------------------------------------------
(* The screen *)

(* Pixels are numbered row by row.                                         *)
LEMMA PixelNumber ==
  ASSUME NEW w \in Nat, NEW h \in Nat, NEW x \in 0 .. w - 1, NEW y \in 0 .. h - 1
  PROVE  /\ y * w + x \in Nat /\ y * w + x < w * h
         /\ (y * w + x) % w = x /\ (y * w + x) \div w = y
<1>1. w \in Nat \ {0} /\ x \in Nat /\ x < w /\ y \in Nat /\ y < h
  OBVIOUS
<1>2. y * w = w * y
  BY <1>1
<1>3. /\ w * y + x \in Nat
      /\ (w * y + x) \div w = y /\ (w * y + x) % w = x
  BY <1>1, DivModIs
<1>4. w * y + x < w * h
  <2> DEFINE d == h - (y + 1)
  <2>1. d \in Nat /\ h = (y + 1) + d
    BY <1>1
  <2> HIDE DEF d
  <2>2. w * ((y + 1) + d) = (w * y + w) + w * d
    BY <1>1, <2>1
  <2>3. w * d \in Nat /\ w * y \in Nat
    BY <1>1, <2>1
  <2> QED BY <1>1, <2>1, <2>2, <2>3
<1> QED BY <1>2, <1>3, <1>4

LEMMA PixelOfNumber ==
  ASSUME NEW w \in Nat \ {0}, NEW h \in Nat, NEW k \in Nat, k < w * h
  PROVE  (k % w) \in 0 .. w - 1 /\ (k \div w) \in 0 .. h - 1
<1> DEFINE q == k \div w
           r == k % w
<1>1. q \in Nat /\ r \in Nat /\ r < w /\ w * q \in Nat /\ k = w * q + r
  BY DivMod
<1> HIDE DEF q, r
<1>2. q < h
  <2> SUFFICES ASSUME q >= h PROVE FALSE
    BY <1>1
  <2> DEFINE d == q - h
  <2>1. d \in Nat /\ q = h + d
    BY <1>1
  <2> HIDE DEF d
  <2>2. w * (h + d) = w * h + w * d /\ w * d \in Nat /\ w * h \in Nat
    BY <2>1
  <2> QED BY <1>1, <2>1, <2>2
<1>3. r \in 0 .. w - 1 /\ q \in 0 .. h - 1
  BY <1>1, <1>2
<1> QED BY <1>3 DEF q, r

(* A mode of w by h has w * h pixels.                                      *)
LEMMA PixelsCounted ==
  ASSUME NEW w \in Nat, NEW h \in Nat
  PROVE  PixelsIn(PixelsOf(w, h)) = w * h
<1> DEFINE S == PixelsOf(w, h)
<1>1. {p \in S : p[1] = "pixel"} = S
  BY DEF PixelsOf
<1>2. CASE w = 0
  <2>1. S = {} /\ w * h = 0
    BY <1>2 DEF PixelsOf
  <2> QED BY <1>1, <2>1, FS_EmptySet DEF PixelsIn
<1>3. CASE w # 0
  <2> DEFINE n == w * h
             f == [k \in 1 .. n |-> <<"pixel", (k - 1) % w, (k - 1) \div w>>]
  <2>1. n \in Nat
    BY DEF n
  <2>2. \A k \in 1 .. n : /\ k - 1 \in Nat /\ k - 1 < w * h
    BY <2>1
  <2>3. \A k \in 1 .. n : ((k - 1) % w) \in 0 .. w - 1 /\ ((k - 1) \div w) \in 0 .. h - 1
    BY <1>3, <2>2, PixelOfNumber
  <2>4. \A k \in 1 .. n : f[k] \in S
    BY <2>3 DEF PixelsOf
  <2>5. ASSUME NEW j \in 1 .. n, NEW k \in 1 .. n, f[j] = f[k] PROVE j = k
    <3> DEFINE q == (j - 1) \div w
               r == (j - 1) % w
    <3>1. f[j] = <<"pixel", r, q>> /\ f[k] = <<"pixel", (k - 1) % w, (k - 1) \div w>>
      OBVIOUS
    <3>2. r = (k - 1) % w /\ q = (k - 1) \div w
      BY <2>5, <3>1
    <3>3. j - 1 = w * q + r
      BY <1>3, <2>2, DivMod
    <3>4. k - 1 = w * ((k - 1) \div w) + ((k - 1) % w)
      BY <1>3, <2>2, DivMod
    <3> HIDE DEF q, r
    <3>5. j - 1 = k - 1
      BY <3>2, <3>3, <3>4
    <3> QED BY <2>1, <3>5
  <2>6. ASSUME NEW p \in S PROVE \E k \in 1 .. n : f[k] = p
    <3>1. PICK x \in 0 .. w - 1, y \in 0 .. h - 1 : p = <<"pixel", x, y>>
      BY DEF PixelsOf
    <3> DEFINE k == (y * w + x) + 1
    <3>2. /\ y * w + x \in Nat /\ y * w + x < w * h
          /\ (y * w + x) % w = x /\ (y * w + x) \div w = y
      BY PixelNumber
    <3> DEFINE z == y * w + x
    <3> HIDE DEF z, n
    <3>3. z \in Nat /\ z < n /\ z % w = x /\ z \div w = y
      BY <3>2 DEF z, n
    <3>4. z + 1 \in 1 .. n /\ (z + 1) - 1 = z
      BY <2>1, <3>3
    <3>5. f[z + 1] = <<"pixel", x, y>>
      BY <3>3, <3>4
    <3> QED BY <3>1, <3>4, <3>5
  <2> HIDE DEF S, n, f
  <2>7. f \in [1 .. n -> S]
    BY <2>4 DEF f
  <2>8. ExistsBijection(1 .. n, S)
    BY <2>5, <2>6, <2>7 DEF ExistsBijection, Bijection, Injection, Surjection, IsInjective
  <2>9. Cardinality(S) = n
    BY <2>1, <2>8, FS_CountingElements
  <2> QED BY <1>1, <2>9 DEF PixelsIn, S, n
<1> QED BY <1>2, <1>3

PixelByte(f, x, y) == FbBase + 4 * (y * f[1] + x)
PixelsShown(m, d, f) ==
  \A x \in 0 .. f[1] - 1, y \in 0 .. f[2] - 1 :
    <<m[PixelByte(f, x, y)], m[PixelByte(f, x, y) + 1], m[PixelByte(f, x, y) + 2]>>
      = LatestIn(d, <<"pixel", x, y>>)
SamplesKept(m, d) ==
  \A i \in Nat : 2 * i + 2 <= AudioSize =>
    <<m[AudioBase + 2 * i], m[AudioBase + 2 * i + 1]>> = LatestIn(d, <<"sample", i>>)

\* A framebuffer fits in guest RAM, and was drawn on as a whole.
Mapped(f, d) == FbBase + 4 * (f[1] * f[2]) <= RamSize
                /\ \E j \in DOMAIN d : d[j].places = PixelsOf(f[1], f[2])

ScreenInv == family \in {"screen", "sound"} =>
               /\ fb \in Nat \X Nat
               /\ fb = <<0, 0>> \/ Mapped(fb, drawn)
               /\ Apart(drawn) => PixelsShown(ram, drawn, fb) /\ SamplesKept(ram, drawn)

LEMMA WindowTypes ==
  /\ RamSize \in Nat /\ FbBase \in Nat /\ AudioBase \in Nat /\ AudioSize \in Nat
  /\ AudioBase + AudioSize <= RamSize /\ Mode \subseteq Nat \X Nat
BY WindowAssumption

LEMMA ApartBefore ==
  ASSUME NEW d, NEW d2, GoesOn(d2, d), Apart(d2)
  PROVE  Apart(d)
<1>1. \A i \in DOMAIN d : i \in DOMAIN d2 /\ d2[i] = d[i]
  <2>1. /\ Len(d) \in Nat /\ Len(d2) \in Nat /\ Len(d) <= Len(d2)
        /\ DOMAIN d = 1 .. Len(d) /\ DOMAIN d2 = 1 .. Len(d2)
    BY DEF GoesOn, IsHistory
  <2> QED BY <2>1 DEF GoesOn
<1> QED BY <1>1 DEF Apart

LEMMA MappedLater ==
  ASSUME NEW d, NEW d2, GoesOn(d2, d), NEW f, Mapped(f, d)
  PROVE  Mapped(f, d2)
<1>1. \A i \in DOMAIN d : i \in DOMAIN d2 /\ d2[i] = d[i]
  <2>1. /\ Len(d) \in Nat /\ Len(d2) \in Nat /\ Len(d) <= Len(d2)
        /\ DOMAIN d = 1 .. Len(d) /\ DOMAIN d2 = 1 .. Len(d2)
    BY DEF GoesOn, IsHistory
  <2> QED BY <2>1 DEF GoesOn
<1> QED BY <1>1 DEF Mapped

(* While the windows are apart the framebuffer ends below the ring.        *)
LEMMA ScreenBelowRing ==
  ASSUME NEW d, NEW f \in Nat \X Nat, f = <<0, 0>> \/ Mapped(f, d), Apart(d)
  PROVE  \A x \in 0 .. f[1] - 1, y \in 0 .. f[2] - 1 :
           FbBase + 4 * (f[1] * f[2]) <= AudioBase
<1> SUFFICES ASSUME NEW x \in 0 .. f[1] - 1, NEW y \in 0 .. f[2] - 1
             PROVE  FbBase + 4 * (f[1] * f[2]) <= AudioBase
  OBVIOUS
<1>1. f[1] \in Nat /\ f[2] \in Nat
  OBVIOUS
<1>2. f # <<0, 0>>
  BY <1>1
<1>3. PICK j \in DOMAIN d : d[j].places = PixelsOf(f[1], f[2])
  BY <1>2 DEF Mapped
<1>4. PixelsIn(d[j].places) = f[1] * f[2]
  BY <1>1, <1>3, PixelsCounted
<1> QED BY <1>3, <1>4 DEF Apart

(* The bytes of a pixel.                                                   *)
LEMMA BytesOfPixel ==
  ASSUME NEW f \in Nat \X Nat, NEW x \in 0 .. f[1] - 1, NEW y \in 0 .. f[2] - 1,
         NEW b \in 0 .. 3
  PROVE  LET a == PixelByte(f, x, y) + b
         IN  /\ a \in Nat /\ FbBase <= a /\ a < FbBase + 4 * (f[1] * f[2])
             /\ (a - FbBase) \div 4 = y * f[1] + x /\ (a - FbBase) % 4 = b
             /\ (y * f[1] + x) % f[1] = x /\ (y * f[1] + x) \div f[1] = y
<1> DEFINE k == y * f[1] + x
           s == f[1] * f[2]
           a == PixelByte(f, x, y) + b
<1>1. f[1] \in Nat /\ f[2] \in Nat
  OBVIOUS
<1>2. k \in Nat /\ k < s /\ k % f[1] = x /\ k \div f[1] = y
  BY <1>1, PixelNumber
<1>3. s \in Nat
  BY <1>1
<1>4. a = (FbBase + 4 * k) + b
  BY DEF PixelByte
<1> HIDE DEF k, s, a
<1>5. a \in Nat /\ FbBase <= a /\ a < FbBase + 4 * s /\ a - FbBase = 4 * k + b
  <2>1. k \in Nat /\ s \in Nat /\ k < s /\ FbBase \in Nat
    BY <1>2, <1>3, WindowTypes
  <2> QED BY <1>4, <2>1
<1>6. (4 * k + b) \div 4 = k /\ (4 * k + b) % 4 = b
  <2>1. 4 \in Nat \ {0} /\ k \in Nat /\ b \in Nat /\ b < 4
    BY <1>2
  <2> QED BY <2>1, DivModIs
<1>7. (a - FbBase) \div 4 = k /\ (a - FbBase) % 4 = b
  BY <1>5, <1>6
<1> QED BY <1>2, <1>5, <1>7 DEF k, s, a

(* What does not reach below the ring leaves the pixels alone.             *)
LEMMA PixelsStay ==
  ASSUME NEW d, IsHistory(d), NEW f \in Nat \X Nat, f = <<0, 0>> \/ Mapped(f, d), Apart(d),
         NEW m, PixelsShown(m, d, f),
         NEW m2, \A a \in 0 .. AudioBase - 1 : m2[a] = m[a],
         NEW places, \A x, y : <<"pixel", x, y>> \notin places, NEW value
  PROVE  PixelsShown(m2, Append(d, [places |-> places, value |-> value]), f)
<1> DEFINE d2 == Append(d, [places |-> places, value |-> value])
<1> SUFFICES ASSUME NEW x \in 0 .. f[1] - 1, NEW y \in 0 .. f[2] - 1
             PROVE  <<m2[PixelByte(f, x, y)], m2[PixelByte(f, x, y) + 1], m2[PixelByte(f, x, y) + 2]>>
                      = LatestIn(d2, <<"pixel", x, y>>)
  BY DEF PixelsShown
<1> DEFINE p == PixelByte(f, x, y)
<1>1. LatestIn(d2, <<"pixel", x, y>>) = LatestIn(d, <<"pixel", x, y>>)
  BY LatestOfAppend
<1>2. \A b \in 0 .. 3 : p + b \in 0 .. AudioBase - 1
  <2> TAKE b \in 0 .. 3
  <2> DEFINE s == 4 * (f[1] * f[2])
             a == p + b
  <2>1. FbBase + s <= AudioBase
    BY ScreenBelowRing
  <2>2. a \in Nat /\ FbBase <= a /\ a < FbBase + s
    BY BytesOfPixel
  <2>3. s \in Nat
    <3>1. f[1] \in Nat /\ f[2] \in Nat
      OBVIOUS
    <3> QED BY <3>1
  <2> HIDE DEF s, a
  <2>4. a \in 0 .. AudioBase - 1
    BY <2>1, <2>2, <2>3, WindowTypes
  <2> QED BY <2>4 DEF a
<1>3. p + 0 = p
  <2>1. p + 0 \in Nat
    BY <1>2
  <2>2. y * f[1] + x \in Nat
    <3>1. f[1] \in Nat
      OBVIOUS
    <3> QED BY <3>1
  <2> QED BY <2>2, WindowTypes DEF PixelByte
<1> HIDE DEF p, d2
<1>4. m2[p] = m[p] /\ m2[p + 1] = m[p + 1] /\ m2[p + 2] = m[p + 2]
  BY <1>2, <1>3
<1>5. <<m[p], m[p + 1], m[p + 2]>> = LatestIn(d, <<"pixel", x, y>>)
  BY DEF PixelsShown, p
<1> QED BY <1>1, <1>4, <1>5 DEF p

(* What leaves the ring alone leaves the samples.                          *)
LEMMA SamplesStay ==
  ASSUME NEW d, IsHistory(d), NEW m, SamplesKept(m, d),
         NEW m2, \A a \in AudioBase .. AudioBase + AudioSize - 1 : m2[a] = m[a],
         NEW places, \A i : <<"sample", i>> \notin places, NEW value
  PROVE  SamplesKept(m2, Append(d, [places |-> places, value |-> value]))
<1> DEFINE d2 == Append(d, [places |-> places, value |-> value])
<1> SUFFICES ASSUME NEW i \in Nat, 2 * i + 2 <= AudioSize
             PROVE  <<m2[AudioBase + 2 * i], m2[AudioBase + 2 * i + 1]>> = LatestIn(d2, <<"sample", i>>)
  BY DEF SamplesKept
<1>1. LatestIn(d2, <<"sample", i>>) = LatestIn(d, <<"sample", i>>)
  BY LatestOfAppend
<1> HIDE DEF d2
<1>2. /\ AudioBase + 2 * i \in AudioBase .. AudioBase + AudioSize - 1
      /\ AudioBase + 2 * i + 1 \in AudioBase .. AudioBase + AudioSize - 1
  BY WindowTypes
<1>3. <<m[AudioBase + 2 * i], m[AudioBase + 2 * i + 1]>> = LatestIn(d, <<"sample", i>>)
  BY DEF SamplesKept
<1> QED BY <1>1, <1>2, <1>3

(* A step that stores nothing leaves the screen and the ring as they are.  *)
LEMMA ScreenSame ==
  ASSUME IsHistory(drawn), ScreenInv, UNCHANGED <<ram, drawn, family>>,
         fb' = fb \/ fb' = <<0, 0>>
  PROVE  GoesOn(drawn', drawn) /\ ScreenInv'
<1>1. GoesOn(drawn', drawn)
  BY GoesOnSame
<1>2. CASE fb' = fb
  BY <1>1, <1>2 DEF ScreenInv
<1>3. CASE fb' = <<0, 0>>
  <2>1. \A m, d : PixelsShown(m, d, fb')
    <3>1. \A x \in 0 .. fb'[1] - 1 : FALSE
      BY <1>3
    <3> QED BY <3>1 DEF PixelsShown
  <2>2. fb' \in Nat \X Nat
    BY <1>3
  <2> QED BY <1>1, <1>3, <2>1, <2>2 DEF ScreenInv
<1> QED BY <1>2, <1>3

(* A new framebuffer is black.                                             *)
LEMMA ScreenCleared ==
  ASSUME DiskInv, IsHistory(drawn), family \in {"screen", "sound"}, ScreenInv,
         NEW m \in Mode, PpcInitializeGraphics(m), family' = family
  PROVE  Honest /\ ScreenInv'
<1> DEFINE size == m[1] * m[2] * 4
           f == [k \in 0 .. size - 1 |-> 0]
           places == PixelsOf(m[1], m[2])
           value == Shown(Black)
<1>1. answer' = {}
  BY DEF PpcInitializeGraphics
<1>2. CASE UNCHANGED <<fb, ram, drawn>>
  BY <1>1, <1>2, ScreenSame DEF Honest, Answered
<1>3. CASE FbBase + size <= RamSize /\ fb' = m /\ ram' = Fill(ram, FbBase, size, f)
           /\ drawn' = Append(drawn, [places |-> places, value |-> value])
  <2>1. m \in Nat \X Nat /\ m[1] \in Nat /\ m[2] \in Nat
    BY WindowTypes
  <2> DEFINE s == m[1] * m[2]
  <2>2. s \in Nat /\ size = 4 * s
    <3>1. s \in Nat
      BY <2>1
    <3>2. size = s * 4
      OBVIOUS
    <3> HIDE DEF s, size
    <3> QED BY <3>1, <3>2
  <2>3. PixelsIn(places) = s
    BY <2>1, PixelsCounted
  <2> HIDE DEF s, size
  <2>4. ram' = [a \in 0 .. RamSize - 1 |->
                  IF a \in FbBase .. FbBase + size - 1 THEN f[a - FbBase] ELSE ram[a]]
    BY <1>3 DEF Fill, DiskInv
  <2> HIDE DEF places, value
  <2>5. /\ GoesOn(drawn', drawn) /\ Len(drawn') = Len(drawn) + 1 /\ Len(drawn) \in Nat
        /\ drawn'[Len(drawn) + 1] = [places |-> places, value |-> value]
    BY <1>3, AppendGoesOn
  <2>6. /\ Len(drawn) + 1 \in DOMAIN drawn'
        /\ drawn'[Len(drawn) + 1].places = places
    <3>1. DOMAIN drawn' = 1 .. Len(drawn')
      BY <2>5 DEF GoesOn, IsHistory
    <3> QED BY <2>5, <3>1
  <2>7. Mapped(m, drawn')
    BY <1>3, <2>2, <2>6 DEF Mapped, places, s
  <2>8. PixelsShown(ram', drawn', m)
    <3> SUFFICES ASSUME NEW x \in 0 .. m[1] - 1, NEW y \in 0 .. m[2] - 1
                 PROVE  <<ram'[PixelByte(m, x, y)], ram'[PixelByte(m, x, y) + 1],
                          ram'[PixelByte(m, x, y) + 2]>> = LatestIn(drawn', <<"pixel", x, y>>)
      BY DEF PixelsShown
    <3>1. <<"pixel", x, y>> \in places
      BY DEF places, PixelsOf
    <3>2. LatestIn(drawn', <<"pixel", x, y>>) = <<0, 0, 0>>
      <4>1. LatestIn(drawn', <<"pixel", x, y>>) = value
        BY <1>3, <3>1, LatestOfAppend
      <4> QED BY <4>1 DEF value, Shown, Black
    <3> DEFINE p == PixelByte(m, x, y)
    <3>3. \A b \in 0 .. 3 : ram'[p + b] = 0
      <4> TAKE b \in 0 .. 3
      <4> DEFINE a == p + b
      <4>1. a \in Nat /\ FbBase <= a /\ a < FbBase + 4 * s
        BY <2>1, BytesOfPixel DEF s
      <4> HIDE DEF a
      <4>2. /\ a \in FbBase .. FbBase + size - 1 /\ a \in 0 .. RamSize - 1
            /\ a - FbBase \in 0 .. size - 1
        BY <1>3, <2>2, <4>1, WindowTypes
      <4>3. ram'[a] = 0
        BY <2>4, <4>2
      <4> QED BY <4>3 DEF a
    <3>4. p + 0 = p
      <4>1. y * m[1] + x \in Nat
        BY <2>1
      <4> QED BY <4>1, WindowTypes DEF PixelByte
    <3> HIDE DEF p
    <3>5. ram'[p] = 0 /\ ram'[p + 1] = 0 /\ ram'[p + 2] = 0
      BY <3>3, <3>4
    <3> QED BY <3>2, <3>5 DEF p
  <2>9. ASSUME Apart(drawn') PROVE SamplesKept(ram', drawn')
    <3>1. FbBase + 4 * s <= AudioBase
      BY <2>3, <2>6, <2>9 DEF Apart
    <3>2. \A a \in AudioBase .. AudioBase + AudioSize - 1 : ram'[a] = ram[a]
      BY <2>2, <2>4, <3>1, WindowTypes
    <3>3. \A i : <<"sample", i>> \notin places
      BY DEF places, PixelsOf
    <3>4. SamplesKept(ram, drawn)
      BY <2>5, <2>9, ApartBefore DEF ScreenInv
    <3> QED BY <1>3, <3>2, <3>3, <3>4, SamplesStay
  <2>10. ScreenInv'
    BY <1>3, <2>1, <2>7, <2>8, <2>9 DEF ScreenInv
  <2> QED BY <1>1, <2>5, <2>10 DEF Honest, Answered
<1> QED BY <1>2, <1>3 DEF PpcInitializeGraphics, Stored

(* A shape drawn colours the pixels of the screen that are meant, and no   *)
(* others.                                                                 *)
LEMMA ShapeDrawn ==
  ASSUME DiskInv, IsHistory(drawn), family \in {"screen", "sound"}, ScreenInv,
         NEW shape, NEW meant, NEW c, Draws(shape, meant, c), family' = family,
         \A p \in meant : p = <<p[1], p[2]>>,
         \A x \in 0 .. fb[1] - 1, y \in 0 .. fb[2] - 1 : <<x, y>> \in shape <=> <<x, y>> \in meant
  PROVE  Honest /\ ScreenInv'
<1> DEFINE places == {<<"pixel", p[1], p[2]>> : p \in meant}
           value == Shown(c)
<1>1. answer' = {} /\ fb' = fb
  BY DEF Draws
<1>2. CASE UNCHANGED <<ram, drawn>>
  BY <1>1, <1>2, ScreenSame DEF Honest, Answered
<1>3. CASE fb # <<0, 0>> /\ ram' = Painted(shape, c)
           /\ drawn' = Append(drawn, [places |-> places, value |-> value])
  <2> DEFINE w == fb[1]
             h == fb[2]
             s == fb[1] * fb[2]
  <2>1. fb \in Nat \X Nat /\ w \in Nat /\ h \in Nat /\ Mapped(fb, drawn)
    BY <1>3 DEF ScreenInv
  <2>2. s \in Nat /\ FbBase + 4 * s <= RamSize
    BY <2>1 DEF Mapped
  <2>3. 4 * fb[1] * fb[2] = 4 * s
    BY <2>1
  <2>4. ram' = [a \in 0 .. RamSize - 1 |->
                  IF /\ a \in FbBase .. FbBase + 4 * fb[1] * fb[2] - 1
                     /\ <<((a - FbBase) \div 4) % fb[1], ((a - FbBase) \div 4) \div fb[1]>> \in shape
                  THEN c[((a - FbBase) % 4) + 1] ELSE ram[a]]
    BY <1>3 DEF Painted, DiskInv
  <2>5. GoesOn(drawn', drawn) /\ Mapped(fb, drawn')
    BY <1>3, <2>1, AppendGoesOn, MappedLater
  <2>6. ASSUME NEW x \in 0 .. w - 1, NEW y \in 0 .. h - 1, NEW b \in 0 .. 3
        PROVE  ram'[PixelByte(fb, x, y) + b]
                 = IF <<x, y>> \in meant THEN c[b + 1] ELSE ram[PixelByte(fb, x, y) + b]
    <3> DEFINE a == PixelByte(fb, x, y) + b
               k == y * fb[1] + x
    <3>1. /\ a \in Nat /\ FbBase <= a /\ a < FbBase + 4 * s
          /\ (a - FbBase) \div 4 = k /\ (a - FbBase) % 4 = b
          /\ k % fb[1] = x /\ k \div fb[1] = y
      BY <2>1, BytesOfPixel
    <3> HIDE DEF a, k, s
    <3>2. a \in FbBase .. FbBase + 4 * fb[1] * fb[2] - 1 /\ a \in 0 .. RamSize - 1
      BY <2>2, <2>3, <3>1, WindowTypes
    <3>3. ram'[a] = IF <<x, y>> \in shape THEN c[b + 1] ELSE ram[a]
      BY <2>4, <3>1, <3>2
    <3>4. ram'[a] = IF <<x, y>> \in meant THEN c[b + 1] ELSE ram[a]
      BY <3>3
    <3> QED BY <3>4 DEF a
  <2>7. \A x, y : <<"pixel", x, y>> \in places <=> <<x, y>> \in meant
    <3> TAKE x, y
    <3>1. ASSUME <<x, y>> \in meant PROVE <<"pixel", x, y>> \in places
      BY <3>1
    <3>2. ASSUME <<"pixel", x, y>> \in places PROVE <<x, y>> \in meant
      <4>1. PICK p \in meant : <<"pixel", x, y>> = <<"pixel", p[1], p[2]>>
        BY <3>2
      <4>2. x = p[1] /\ y = p[2]
        BY <4>1
      <4>3. p = <<p[1], p[2]>>
        OBVIOUS
      <4> QED BY <4>2, <4>3
    <3> QED BY <3>1, <3>2
  <2>8. ASSUME Apart(drawn') PROVE PixelsShown(ram', drawn', fb)
    <3>1. PixelsShown(ram, drawn, fb)
      BY <2>5, <2>8, ApartBefore DEF ScreenInv
    <3> SUFFICES ASSUME NEW x \in 0 .. w - 1, NEW y \in 0 .. h - 1
                 PROVE  <<ram'[PixelByte(fb, x, y)], ram'[PixelByte(fb, x, y) + 1],
                          ram'[PixelByte(fb, x, y) + 2]>> = LatestIn(drawn', <<"pixel", x, y>>)
      BY DEF PixelsShown
    <3> DEFINE p == PixelByte(fb, x, y)
               place == <<"pixel", x, y>>
    <3>2. <<ram[p], ram[p + 1], ram[p + 2]>> = LatestIn(drawn, place)
      BY <3>1 DEF PixelsShown
    <3>3. LatestIn(drawn', place) = IF <<x, y>> \in meant THEN value ELSE LatestIn(drawn, place)
      <4> HIDE DEF places, value
      <4> QED BY <1>3, <2>7, LatestOfAppend
    <3>4. p + 0 = p
      <4>1. y * fb[1] + x \in Nat
        BY <2>1
      <4> QED BY <4>1, WindowTypes DEF PixelByte
    <3>5. \A b \in 0 .. 3 : ram'[p + b] = IF <<x, y>> \in meant THEN c[b + 1] ELSE ram[p + b]
      BY <2>6
    <3> HIDE DEF p, place
    <3>6. CASE <<x, y>> \in meant
      <4>1. ram'[p] = c[1] /\ ram'[p + 1] = c[2] /\ ram'[p + 2] = c[3]
        <5>1. 0 \in 0 .. 3 /\ 1 \in 0 .. 3 /\ 2 \in 0 .. 3 /\ 0 + 1 = 1 /\ 1 + 1 = 2 /\ 2 + 1 = 3
          OBVIOUS
        <5> QED BY <3>4, <3>5, <3>6, <5>1
      <4> QED BY <3>3, <3>6, <4>1 DEF p, place, Shown
    <3>7. CASE <<x, y>> \notin meant
      <4>1. ram'[p] = ram[p] /\ ram'[p + 1] = ram[p + 1] /\ ram'[p + 2] = ram[p + 2]
        <5>1. 0 \in 0 .. 3 /\ 1 \in 0 .. 3 /\ 2 \in 0 .. 3
          OBVIOUS
        <5> QED BY <3>4, <3>5, <3>7, <5>1
      <4> QED BY <3>2, <3>3, <3>7, <4>1 DEF p, place
    <3> QED BY <3>6, <3>7
  <2>9. ASSUME Apart(drawn') PROVE SamplesKept(ram', drawn')
    <3>1. Apart(drawn) /\ SamplesKept(ram, drawn)
      BY <2>5, <2>9, ApartBefore DEF ScreenInv
    <3>2. \A a \in AudioBase .. AudioBase + AudioSize - 1 : ram'[a] = ram[a]
      <4>1. CASE s = 0
        <5> HIDE DEF s
        <5>1. 4 * fb[1] * fb[2] = 0
          BY <2>3, <4>1
        <5>2. \A a : a \notin FbBase .. FbBase + 4 * fb[1] * fb[2] - 1
          BY <5>1, WindowTypes
        <5>3. \A a \in AudioBase .. AudioBase + AudioSize - 1 : a \in 0 .. RamSize - 1
          BY WindowTypes
        <5> QED BY <2>4, <5>2, <5>3
      <4>2. CASE s # 0
        <5>1. 0 \in 0 .. w - 1 /\ 0 \in 0 .. h - 1
          BY <2>1, <4>2
        <5>2. FbBase + 4 * s <= AudioBase
          BY <2>1, <3>1, <5>1, ScreenBelowRing
        <5> DEFINE end == FbBase + 4 * fb[1] * fb[2] - 1
        <5>3. end < AudioBase /\ end \in Int
          <6>1. end = (FbBase + 4 * s) - 1
            BY <2>2, <2>3, WindowTypes
          <6>2. s \in Nat /\ FbBase \in Nat /\ AudioBase \in Nat
            BY <2>2, WindowTypes
          <6> HIDE DEF s, end
          <6> QED BY <5>2, <6>1, <6>2
        <5>4. \A a \in AudioBase .. AudioBase + AudioSize - 1 :
                a \in 0 .. RamSize - 1 /\ a \notin FbBase .. end
          <6> HIDE DEF end
          <6> QED BY <5>3, WindowTypes
        <5> QED BY <2>4, <5>4
      <4> QED BY <4>1, <4>2
    <3>3. \A i : <<"sample", i>> \notin places
      OBVIOUS
    <3> HIDE DEF places, value
    <3> QED BY <1>3, <3>1, <3>2, <3>3, SamplesStay
  <2>10. ScreenInv'
    BY <1>1, <2>1, <2>5, <2>8, <2>9 DEF ScreenInv
  <2> QED BY <1>1, <2>5, <2>10 DEF Honest, Answered
<1> QED BY <1>2, <1>3 DEF Draws, Stored

(* A range that reaches past the last coordinate is empty.                 *)
LEMMA BetweenIs ==
  ASSUME NEW from \in 0 .. Word - 1, NEW size \in 0 .. Word - 1
  PROVE  \A x \in Int : x \in Between(from, size) <=>
           from + size < Word /\ from <= x /\ x < from + size
<1> DEFINE s == from + size
           r == s % Word
<1>1. Word \in Nat \ {0} /\ from \in Nat /\ size \in Nat /\ from < Word /\ size < Word
  BY ServiceAssumption
<1>2. \A x : x \in Between(from, size) <=> x \in from .. r - 1
  BY DEF Between
<1>3. CASE s < Word
  <2>1. Word * 0 + s = s
    BY <1>1
  <2>2. r = s
    <3>1. s \in Nat
      BY <1>1
    <3> HIDE DEF s
    <3> QED BY <1>1, <1>3, <2>1, <3>1, DivModIs
  <2> HIDE DEF r
  <2> QED BY <1>1, <1>2, <1>3, <2>2
<1>4. CASE s >= Word
  <2> DEFINE t == s - Word
  <2>1. t \in Nat /\ t < Word /\ Word * 1 + t = s /\ t < from
    BY <1>1, <1>4
  <2>2. r = t
    <3> HIDE DEF s, t
    <3> QED BY <1>1, <2>1, DivModIs
  <2> HIDE DEF r
  <2> QED BY <1>1, <1>2, <1>4, <2>1, <2>2
<1> QED BY <1>1, <1>3, <1>4

(* So the screen shows what was drawn last.                                *)
LEMMA DrawingStep ==
  ASSUME DiskInv, IsHistory(drawn), ScreenInv, Drawing, family' = family
  PROVE  Honest /\ ScreenInv'
<1>1. family \in {"screen", "sound"} /\ fb \in Nat \X Nat
  BY DEF Drawing, ScreenInv
<1>2. \A p \in Screen : p = <<p[1], p[2]>>
  BY <1>1 DEF Screen
<1>3. CASE \E m \in Mode : PpcInitializeGraphics(m)
  BY <1>1, <1>3, ScreenCleared
<1>4. CASE PpcInitializeHardwareAbstraction
  <2>1. UNCHANGED <<ram, drawn>> /\ fb' = <<0, 0>> /\ answer' = {}
    BY <1>4 DEF PpcInitializeHardwareAbstraction
  <2> QED BY <2>1, ScreenSame DEF Honest, Answered
<1>5. CASE \E c \in Colour : PpcGraphicsClear(c)
  <2>1. PICK c \in Colour : Draws(Screen, Screen, c)
    BY <1>5 DEF PpcGraphicsClear
  <2> QED BY <1>1, <1>2, <2>1, ShapeDrawn
<1>6. CASE \E c \in Colour : \E x, y \in Corner : PpcGraphicsSetPixel(x, y, c)
  <2>1. PICK c \in Colour, x \in Corner, y \in Corner : Draws({<<x, y>>}, {<<x, y>>}, c)
    BY <1>6 DEF PpcGraphicsSetPixel
  <2>2. \A p \in {<<x, y>>} : p = <<p[1], p[2]>>
    OBVIOUS
  <2> QED BY <1>1, <2>1, <2>2, ShapeDrawn
<1>7. CASE \E c \in Colour : \E x, y \in Corner, w, h \in Extent : PpcGraphicsDrawRect(x, y, w, h, c)
  <2>1. PICK c \in Colour, x \in Corner, y \in Corner, w \in Extent, h \in Extent :
          PpcGraphicsDrawRect(x, y, w, h, c)
    BY <1>7
  <2> DEFINE shape == Between(x, w) \X Between(y, h)
             meant == IF x + w < Word /\ y + h < Word
                      THEN {p \in Screen : p[1] >= x /\ p[1] < x + w /\ p[2] >= y /\ p[2] < y + h}
                      ELSE {}
  <2>2. Draws(shape, meant, c)
    BY <2>1 DEF PpcGraphicsDrawRect
  <2>3. \A p \in meant : p = <<p[1], p[2]>>
    BY <1>2
  <2>4. ASSUME NEW i \in 0 .. fb[1] - 1, NEW j \in 0 .. fb[2] - 1
        PROVE  <<i, j>> \in shape <=> <<i, j>> \in meant
    <3>1. i \in Int /\ j \in Int
      BY <1>1
    <3>2. /\ x \in 0 .. Word - 1 /\ y \in 0 .. Word - 1
          /\ w \in 0 .. Word - 1 /\ h \in 0 .. Word - 1
      BY RequestAssumption
    <3>3. i \in Between(x, w) <=> x + w < Word /\ x <= i /\ i < x + w
      BY <3>1, <3>2, BetweenIs
    <3>4. j \in Between(y, h) <=> y + h < Word /\ y <= j /\ j < y + h
      BY <3>1, <3>2, BetweenIs
    <3>5. <<i, j>> \in shape <=> i \in Between(x, w) /\ j \in Between(y, h)
      OBVIOUS
    <3>6. <<i, j>> \in Screen /\ <<i, j>>[1] = i /\ <<i, j>>[2] = j
      BY DEF Screen
    <3>7. <<i, j>> \in meant <=> /\ x + w < Word /\ y + h < Word
                                 /\ i >= x /\ i < x + w /\ j >= y /\ j < y + h
      BY <3>6
    <3>8. x \in Int /\ y \in Int
      BY <3>2
    <3> HIDE DEF shape, meant
    <3> QED BY <3>1, <3>3, <3>4, <3>5, <3>7, <3>8
  <2> HIDE DEF shape, meant
  <2> QED BY <1>1, <2>2, <2>3, <2>4, ShapeDrawn
<1>8. CASE PpcGraphicsBlitToDisplay
  <2>1. UNCHANGED <<ram, fb, drawn>>
    BY <1>8 DEF PpcGraphicsBlitToDisplay
  <2>2. GoesOn(drawn', drawn) /\ ScreenInv'
    BY <2>1, ScreenSame
  <2>3. CASE answer' = {}
    BY <2>2, <2>3 DEF Honest, Answered
  <2>4. CASE answer' = {[place |-> <<"pixel", p[1], p[2]>>, value |-> Shown(PixelAt(p[1], p[2]))]
                          : p \in Screen}
    <3> SUFFICES ASSUME Apart(drawn') PROVE Answered(answer', drawn')
      BY <2>2 DEF Honest
    <3>1. PixelsShown(ram, drawn, fb)
      BY <1>1, <2>1 DEF ScreenInv
    <3>2. ASSUME NEW p \in Screen
          PROVE  Shown(PixelAt(p[1], p[2])) = LatestIn(drawn, <<"pixel", p[1], p[2]>>)
      <4> DEFINE x == p[1]
                 y == p[2]
                 a == PixelByte(fb, x, y)
      <4>1. x \in 0 .. fb[1] - 1 /\ y \in 0 .. fb[2] - 1
        BY DEF Screen
      <4>2. ~ (x >= fb[1] \/ y >= fb[2])
        BY <1>1, <4>1
      <4>3. PixelAt(x, y) = <<ram[a], ram[a + 1], ram[a + 2], ram[a + 3]>>
        BY <4>2 DEF PixelAt, PixelByte
      <4>4. Shown(PixelAt(x, y)) = <<ram[a], ram[a + 1], ram[a + 2]>>
        BY <4>3 DEF Shown
      <4>5. <<ram[a], ram[a + 1], ram[a + 2]>> = LatestIn(drawn, <<"pixel", x, y>>)
        BY <3>1, <4>1 DEF PixelsShown
      <4> QED BY <4>4, <4>5
    <3> QED BY <2>1, <2>4, <3>2 DEF Answered
  <2> QED BY <1>8, <2>3, <2>4 DEF PpcGraphicsBlitToDisplay
<1> QED BY <1>3, <1>4, <1>5, <1>6, <1>7, <1>8 DEF Drawing

-----------------------------------------------------------------------------
(* The ring of samples *)

LEMMA SampleNumbers == \A i \in Nat : 2 * i + 2 <= AudioSize => <<"sample", i>> \in Samples
<1> TAKE i \in Nat
<1> HAVE 2 * i + 2 <= AudioSize
<1> DEFINE q == AudioSize \div 2
           r == AudioSize % 2
<1>1. q \in Nat /\ r \in Nat /\ r < 2 /\ AudioSize = 2 * q + r
  BY WindowTypes, DivMod
<1> HIDE DEF q, r
<1>2. i \in 0 .. q - 1
  BY <1>1
<1> QED BY <1>2 DEF Samples, q

(* A new ring is silent, and the screen is what it was.                    *)
LEMMA RingCleared ==
  ASSUME DiskInv, IsHistory(drawn), family \in {"screen", "sound"}, ScreenInv,
         ram' = ZeroAudio, Stored(Samples, <<0, 0>>), answer' = {}, fb' = fb, family' = family
  PROVE  Honest /\ ScreenInv'
<1> DEFINE f == [k \in 0 .. AudioSize - 1 |-> 0]
           value == <<0, 0>>
           end == AudioBase + AudioSize - 1
<1>1. drawn' = Append(drawn, [places |-> Samples, value |-> value])
  BY DEF Stored
<1>2. ram' = [a \in 0 .. RamSize - 1 |->
                IF a \in AudioBase .. end THEN f[a - AudioBase] ELSE ram[a]]
  BY DEF ZeroAudio, Fill, DiskInv
<1> HIDE DEF value
<1>3. GoesOn(drawn', drawn)
  BY <1>1, AppendGoesOn
<1>4. fb \in Nat \X Nat /\ (fb = <<0, 0>> \/ Mapped(fb, drawn))
  BY DEF ScreenInv
<1>5. fb' = <<0, 0>> \/ Mapped(fb', drawn')
  BY <1>3, <1>4, MappedLater
<1>6. ASSUME Apart(drawn') PROVE PixelsShown(ram', drawn', fb')
  <2>1. Apart(drawn)
    BY <1>3, <1>6, ApartBefore
  <2>2. PixelsShown(ram, drawn, fb)
    BY <2>1 DEF ScreenInv
  <2>3. \A a \in 0 .. AudioBase - 1 : ram'[a] = ram[a]
    <3>1. \A a \in 0 .. AudioBase - 1 : a \in 0 .. RamSize - 1 /\ a \notin AudioBase .. end
      BY WindowTypes
    <3> HIDE DEF f, end
    <3> QED BY <1>2, <3>1
  <2>4. \A x, y : <<"pixel", x, y>> \notin Samples
    BY DEF Samples
  <2> QED BY <1>1, <1>4, <2>1, <2>2, <2>3, <2>4, PixelsStay
<1>7. SamplesKept(ram', drawn')
  <2> SUFFICES ASSUME NEW i \in Nat, 2 * i + 2 <= AudioSize
               PROVE  <<ram'[AudioBase + 2 * i], ram'[AudioBase + 2 * i + 1]>>
                        = LatestIn(drawn', <<"sample", i>>)
    BY DEF SamplesKept
  <2>1. LatestIn(drawn', <<"sample", i>>) = value
    BY <1>1, SampleNumbers, LatestOfAppend
  <2>2. ASSUME NEW b \in 0 .. 1 PROVE ram'[AudioBase + 2 * i + b] = 0
    <3> DEFINE a == AudioBase + 2 * i + b
    <3>1. a \in 0 .. RamSize - 1 /\ a \in AudioBase .. end /\ a - AudioBase \in 0 .. AudioSize - 1
      BY WindowTypes
    <3> HIDE DEF a, end
    <3>2. ram'[a] = 0
      BY <1>2, <3>1
    <3> QED BY <3>2 DEF a
  <2>3. AudioBase + 2 * i + 0 = AudioBase + 2 * i
    BY WindowTypes
  <2>4. ram'[AudioBase + 2 * i] = 0 /\ ram'[AudioBase + 2 * i + 1] = 0
    BY <2>2, <2>3
  <2> QED BY <2>1, <2>4 DEF value
<1>8. ScreenInv'
  BY <1>4, <1>5, <1>6, <1>7 DEF ScreenInv
<1> QED BY <1>3, <1>8 DEF Honest, Answered

(* A sample stored in the ring replaces that one alone.                    *)
LEMMA SampleStored ==
  ASSUME DiskInv, IsHistory(drawn), family \in {"screen", "sound"}, ScreenInv,
         NEW i \in Nat, NEW v \in Nat \X Nat, 2 * i + 2 <= AudioSize,
         ram' = Fill(ram, AudioBase + 2 * i, 2, [k \in 0 .. 1 |-> v[k + 1]]),
         Stored({<<"sample", i>>}, v), answer' = {}, fb' = fb, family' = family
  PROVE  Honest /\ ScreenInv'
<1> DEFINE f == [k \in 0 .. 1 |-> v[k + 1]]
           at == AudioBase + 2 * i
           places == {<<"sample", i>>}
<1>1. drawn' = Append(drawn, [places |-> places, value |-> v])
  BY DEF Stored
<1>2. ram' = [a \in 0 .. RamSize - 1 |-> IF a \in at .. at + 2 - 1 THEN f[a - at] ELSE ram[a]]
  BY DEF Fill, DiskInv
<1>3. GoesOn(drawn', drawn)
  <2> HIDE DEF places
  <2> QED BY <1>1, AppendGoesOn
<1>4. fb \in Nat \X Nat /\ (fb = <<0, 0>> \/ Mapped(fb, drawn))
  BY DEF ScreenInv
<1>5. fb' = <<0, 0>> \/ Mapped(fb', drawn')
  BY <1>3, <1>4, MappedLater
<1>6. at \in Nat /\ at >= AudioBase /\ at + 2 <= AudioBase + AudioSize
  BY WindowTypes
<1>7. ASSUME NEW a \in 0 .. RamSize - 1, ~ (a = at \/ a = at + 1) PROVE ram'[a] = ram[a]
  <2>1. a \notin at .. at + 2 - 1
    <3> HIDE DEF at
    <3> QED BY <1>6, <1>7, WindowTypes
  <2> HIDE DEF at, f
  <2> QED BY <1>2, <2>1
<1>8. ram'[at] = v[1] /\ ram'[at + 1] = v[2]
  <2> HIDE DEF at
  <2>1. /\ at \in 0 .. RamSize - 1 /\ at + 1 \in 0 .. RamSize - 1
        /\ at \in at .. at + 2 - 1 /\ at + 1 \in at .. at + 2 - 1
        /\ at - at = 0 /\ (at + 1) - at = 1
    BY <1>6, WindowTypes
  <2>2. f[0] = v[1] /\ f[1] = v[2]
    OBVIOUS
  <2> HIDE DEF f
  <2> QED BY <1>2, <2>1, <2>2
<1>9. ASSUME Apart(drawn') PROVE PixelsShown(ram', drawn', fb')
  <2>1. Apart(drawn)
    BY <1>3, <1>9, ApartBefore
  <2>2. PixelsShown(ram, drawn, fb)
    BY <2>1 DEF ScreenInv
  <2>3. \A a \in 0 .. AudioBase - 1 : ram'[a] = ram[a]
    <3> HIDE DEF at
    <3>1. \A a \in 0 .. AudioBase - 1 : a \in 0 .. RamSize - 1 /\ ~ (a = at \/ a = at + 1)
      BY <1>6, WindowTypes
    <3> QED BY <1>7, <3>1
  <2>4. \A x, y : <<"pixel", x, y>> \notin places
    OBVIOUS
  <2> HIDE DEF places
  <2> QED BY <1>1, <1>4, <2>1, <2>2, <2>3, <2>4, PixelsStay
<1>10. ASSUME Apart(drawn') PROVE SamplesKept(ram', drawn')
  <2> SUFFICES ASSUME NEW j \in Nat, 2 * j + 2 <= AudioSize
               PROVE  <<ram'[AudioBase + 2 * j], ram'[AudioBase + 2 * j + 1]>>
                        = LatestIn(drawn', <<"sample", j>>)
    BY DEF SamplesKept
  <2>1. LatestIn(drawn', <<"sample", j>>)
          = IF <<"sample", j>> \in places THEN v ELSE LatestIn(drawn, <<"sample", j>>)
    <3> HIDE DEF places
    <3> QED BY <1>1, LatestOfAppend
  <2>2. CASE j = i
    BY <1>8, <2>1, <2>2
  <2>3. CASE j # i
    <3>1. LatestIn(drawn', <<"sample", j>>) = LatestIn(drawn, <<"sample", j>>)
      BY <2>1, <2>3
    <3>2. Apart(drawn)
      BY <1>3, <1>10, ApartBefore
    <3>3. <<ram[AudioBase + 2 * j], ram[AudioBase + 2 * j + 1]>> = LatestIn(drawn, <<"sample", j>>)
      BY <3>2 DEF ScreenInv, SamplesKept
    <3> DEFINE a == AudioBase + 2 * j
    <3>4. /\ a \in 0 .. RamSize - 1 /\ a + 1 \in 0 .. RamSize - 1
          /\ a # at /\ a # at + 1 /\ a + 1 # at /\ a + 1 # at + 1
      BY <2>3, WindowTypes
    <3> HIDE DEF a, at
    <3>5. ram'[a] = ram[a] /\ ram'[a + 1] = ram[a + 1]
      BY <1>7, <3>4
    <3> QED BY <3>1, <3>3, <3>5 DEF a
  <2> QED BY <2>2, <2>3
<1>11. ScreenInv'
  BY <1>4, <1>5, <1>9, <1>10 DEF ScreenInv
<1> QED BY <1>3, <1>11 DEF Honest, Answered

(* So the ring plays what was stored last.                                 *)
LEMMA SoundingStep ==
  ASSUME DiskInv, IsHistory(drawn), ScreenInv, Sounding, family' = family
  PROVE  Honest /\ ScreenInv'
<1>1. family \in {"screen", "sound"}
  BY DEF Sounding
<1>2. ASSUME UNCHANGED <<ram, fb, drawn>>, answer' = {} PROVE Honest /\ ScreenInv'
  BY <1>2, ScreenSame DEF Honest, Answered
<1>3. CASE PpcInitializeAudio
  BY <1>1, <1>3, RingCleared DEF PpcInitializeAudio
<1>4. CASE PpcAudioReset
  BY <1>1, <1>2, <1>4, RingCleared DEF PpcAudioReset
<1>5. CASE \E i \in Index, v \in Sample : PpcAudioWriteSample(i, v) \/ GuestStoresSample(i, v)
  <2>1. PICK i \in Index, v \in Sample : PpcAudioWriteSample(i, v) \/ GuestStoresSample(i, v)
    BY <1>5
  <2>2. i \in Nat /\ v \in Nat \X Nat
    BY RequestAssumption
  <2>3. CASE UNCHANGED <<ram, fb, drawn>> /\ answer' = {}
    BY <1>2, <2>3
  <2>4. CASE /\ 2 * i + 2 <= AudioSize
             /\ ram' = Fill(ram, AudioBase + 2 * i, 2, [k \in 0 .. 1 |-> v[k + 1]])
             /\ Stored({<<"sample", i>>}, v) /\ answer' = {} /\ fb' = fb
    BY <1>1, <2>2, <2>4, SampleStored
  <2> QED BY <2>1, <2>3, <2>4 DEF PpcAudioWriteSample, GuestStoresSample
<1>6. CASE \E i \in Index : PpcAudioReadSample(i)
  <2>1. PICK i \in Index : PpcAudioReadSample(i)
    BY <1>6
  <2>2. UNCHANGED <<ram, fb, drawn>>
    BY <2>1 DEF PpcAudioReadSample
  <2>3. CASE answer' = {}
    BY <1>2, <2>2, <2>3
  <2>4. CASE /\ 2 * i + 2 <= AudioSize
             /\ answer' = {[place |-> <<"sample", i>>,
                            value |-> <<ram[AudioBase + 2 * i], ram[AudioBase + 2 * i + 1]>>]}
    <3>1. GoesOn(drawn', drawn) /\ ScreenInv'
      BY <2>2, ScreenSame
    <3>2. ASSUME Apart(drawn') PROVE Answered(answer', drawn')
      <4>1. SamplesKept(ram, drawn)
        BY <1>1, <2>2, <3>2 DEF ScreenInv
      <4>2. i \in Nat
        BY RequestAssumption
      <4>3. <<ram[AudioBase + 2 * i], ram[AudioBase + 2 * i + 1]>> = LatestIn(drawn, <<"sample", i>>)
        BY <2>4, <4>1, <4>2 DEF SamplesKept
      <4> QED BY <2>2, <2>4, <4>3 DEF Answered
    <3> QED BY <3>1, <3>2 DEF Honest
  <2> QED BY <2>1, <2>3, <2>4 DEF PpcAudioReadSample
<1>7. CASE \E i \in Index : PpcAudioAdvancePlayback(i)
  BY <1>2, <1>7 DEF PpcAudioAdvancePlayback
<1> QED BY <1>3, <1>4, <1>5, <1>6, <1>7 DEF Sounding

-----------------------------------------------------------------------------
(* What the host gives back *)

\* The strengthening of HostGivesBack: beside the shape of memory, devices
\* and history, every device holds what the history stored there last.
HostInv == /\ DiskInv
           /\ IsHistory(drawn)
           /\ BatteryInv
           /\ ScrapInv
           /\ ScreenInv
           /\ Apart(drawn) => Answered(answer, drawn)

LEMMA HostStart == Init => HostInv
<1> SUFFICES ASSUME Init PROVE HostInv
  OBVIOUS
<1>1. /\ drawn = <<>> /\ answer = {} /\ xpram = EmulXpramInit /\ fb = <<0, 0>>
      /\ scrap = [k \in 0 .. ScrapSize - 1 |-> 0] /\ scrapLen = 0
      /\ ram = [a \in 0 .. RamSize - 1 |-> 0]
  BY DEF Init, DevicesInit
<1>2. IsHistory(drawn) /\ DOMAIN drawn = {}
  BY <1>1, EmptySeq DEF IsHistory
<1>3. \A place : LatestIn(drawn, place) = Initial(place)
  BY <1>2 DEF LatestIn, HitsIn
<1>4. BatteryInv
  <2>1. \A k \in 0 .. NvramSize - 1 : Initial(Cell(k)) = IF k = LocalTalk + 3 THEN 10 ELSE 0
    BY DEF Initial, Cell
  <2> QED BY <1>1, <1>3, <2>1 DEF BatteryInv, EmulXpramInit
<1>5. ScrapInv
  BY <1>1, ServiceAssumption DEF ScrapInv
<1>6. \A x \in 0 .. fb[1] - 1 : FALSE
  BY <1>1
<1>7. PixelsShown(ram, drawn, fb)
  BY <1>6 DEF PixelsShown
<1>8. SamplesKept(ram, drawn)
  <2> SUFFICES ASSUME NEW i \in Nat, 2 * i + 2 <= AudioSize
               PROVE  <<ram[AudioBase + 2 * i], ram[AudioBase + 2 * i + 1]>>
                        = LatestIn(drawn, <<"sample", i>>)
    BY DEF SamplesKept
  <2>1. AudioBase + 2 * i \in 0 .. RamSize - 1 /\ AudioBase + 2 * i + 1 \in 0 .. RamSize - 1
    BY WindowTypes
  <2>2. Initial(<<"sample", i>>) = <<0, 0>>
    BY DEF Initial
  <2> QED BY <1>1, <1>3, <2>1, <2>2
<1>9. ScreenInv
  BY <1>1, <1>7, <1>8 DEF ScreenInv
<1>10. Answered(answer, drawn)
  BY <1>1 DEF Answered
<1> QED BY <1>2, <1>4, <1>5, <1>9, <1>10, DiskStart DEF HostInv

(* A behaviour stays with the services of its family, so each step renews  *)
(* the part of the invariant that is about its own.                        *)
LEMMA HostStep ==
  ASSUME HostInv, [Next]_vars
  PROVE  HostInv'
<1>1. /\ DiskInv /\ IsHistory(drawn) /\ BatteryInv /\ ScrapInv /\ ScreenInv
      /\ Apart(drawn) => Answered(answer, drawn)
  BY DEF HostInv
<1>2. DiskInv'
  BY <1>1, DiskInvKept
<1>3. family' = family
  BY DEF Next, vars
<1>4. ASSUME Honest PROVE IsHistory(drawn') /\ (Apart(drawn') => Answered(answer', drawn'))
  BY <1>4 DEF Honest, GoesOn
<1>5. ASSUME drawn' = drawn, answer' = answer \/ answer' = {}
      PROVE  Honest
  BY <1>1, <1>5, GoesOnSame DEF Honest, Answered
<1>6. CASE Timekeeping
  <2>1. family = "time" /\ drawn' = drawn /\ answer' = answer
    BY <1>6 DEF Timekeeping, deviceVars
  <2>2. BatteryInv' /\ ScrapInv' /\ ScreenInv'
    BY <1>3, <2>1 DEF BatteryInv, ScrapInv, ScreenInv
  <2> QED BY <1>2, <1>4, <1>5, <2>1, <2>2 DEF HostInv
<1>7. CASE Battery
  <2>1. Honest /\ BatteryInv'
    BY <1>1, <1>3, <1>7, BatteryStep
  <2>2. family = "battery"
    BY <1>7 DEF Battery
  <2>3. ScrapInv' /\ ScreenInv'
    BY <1>3, <2>2 DEF ScrapInv, ScreenInv
  <2> QED BY <1>2, <1>4, <2>1, <2>3 DEF HostInv
<1>8. CASE Clipboard
  <2>1. Honest /\ ScrapInv'
    BY <1>1, <1>3, <1>8, ClipboardStep
  <2>2. family = "scrap"
    BY <1>8 DEF Clipboard
  <2>3. BatteryInv' /\ ScreenInv'
    BY <1>3, <2>2 DEF BatteryInv, ScreenInv
  <2> QED BY <1>2, <1>4, <2>1, <2>3 DEF HostInv
<1>9. CASE Disk
  <2>1. family = "disk"
    BY <1>9 DEF Disk
  <2>2. BatteryInv' /\ ScrapInv' /\ ScreenInv'
    BY <1>3, <2>1 DEF BatteryInv, ScrapInv, ScreenInv
  <2>3. drawn' = drawn /\ (answer' = answer \/ answer' = {})
    BY <1>9 DEF Disk, Prime, EmulDiskPrimeTransfer, PpcInitializeBlockIo, MediumChanges
  <2> QED BY <1>2, <1>4, <1>5, <2>2, <2>3 DEF HostInv
<1>10. CASE Drawing \/ Sounding
  <2>1. Honest /\ ScreenInv'
    BY <1>1, <1>3, <1>10, DrawingStep, SoundingStep
  <2>2. family \in {"screen", "sound"}
    BY <1>10 DEF Drawing, Sounding
  <2>3. BatteryInv' /\ ScrapInv'
    BY <1>3, <2>2 DEF BatteryInv, ScrapInv
  <2> QED BY <1>2, <1>4, <2>1, <2>3 DEF HostInv
<1>11. CASE UNCHANGED vars
  <2>1. UNCHANGED <<ram, fb, drawn, answer, xpram, scrap, scrapLen, family>>
    BY <1>11 DEF vars, deviceVars, serviceVars
  <2> QED BY <1>1, <1>2, <2>1 DEF HostInv, BatteryInv, ScrapInv, ScreenInv
<1> QED BY <1>6, <1>7, <1>8, <1>9, <1>10, <1>11 DEF Next

(* Whatever the sizes and windows of guest RAM, the clipboard and the      *)
(* battery memory, and whatever mix of a family's selectors, drawing calls *)
(* and guest stores came before: what the host answers is what was stored  *)
(* there last.                                                             *)
THEOREM HostGivesBackLast == Spec => []HostGivesBack
<1>1. HostInv => HostGivesBack
  BY LatestOfDrawn DEF HostInv, HostGivesBack, WindowsApart, Apart, Answered
<1> QED BY <1>1, HostStart, HostStep, PTL DEF Spec
=============================================================================
