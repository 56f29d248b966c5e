---------------------------- MODULE TimeManager ----------------------------
(***************************************************************************)
(* What the Time Manager promises to the guest: an installed task may be   *)
(* armed with a delay; it is served at most once for each arming, never    *)
(* before its time, never after it was removed or the machine was reset;   *)
(* and whoever asks for work gets some as long as any task is due.         *)
(***************************************************************************)
EXTENDS Integers, FiniteSets

CONSTANTS Task,      \* the task records of the guest
          Capacity,  \* how many of them may be installed
          Step,      \* the microseconds by which the clock advances
          Delay      \* the delays a task is armed with

Never == -1
Nobody == 0

VARIABLES now,       \* the clock, in microseconds
          known,     \* the tasks installed since the last reset
          armed,     \* for each task, when it is due, or Never
          served     \* the task the last request for work was given

vars == <<now, known, armed, served>>

Init == /\ now = 0
        /\ known = {}
        /\ armed = [t \in Task |-> Never]
        /\ served = Nobody

Due(t) == armed[t] # Never /\ armed[t] <= now

Tick(n) == /\ now' = now + n
           /\ UNCHANGED <<known, armed, served>>

Install(t) == /\ t \notin known
              /\ Cardinality(known) < Capacity
              /\ known' = known \union {t}
              /\ UNCHANGED <<now, armed, served>>

Arm(t, d) == /\ t \in known
             /\ armed' = [armed EXCEPT ![t] = now + d]
             /\ UNCHANGED <<now, known, served>>

Disarm(t) == /\ armed' = [armed EXCEPT ![t] = Never]
             /\ UNCHANGED <<now, known, served>>

Serve(t) == /\ Due(t)
            /\ served' = t
            /\ armed' = [armed EXCEPT ![t] = Never]
            /\ UNCHANGED <<now, known>>

ServeNobody == /\ \A t \in Task : ~ Due(t)
               /\ served' = Nobody
               /\ UNCHANGED <<now, known, armed>>

Reset == /\ known' = {}
         /\ armed' = [t \in Task |-> Never]
         /\ UNCHANGED <<now, served>>

Next == \/ \E n \in Step : Tick(n)
        \/ \E t \in Task : Install(t) \/ Disarm(t) \/ Serve(t)
        \/ \E t \in Task, d \in Delay : Arm(t, d)
        \/ ServeNobody
        \/ Reset

Spec == Init /\ [][Next]_vars
=============================================================================
