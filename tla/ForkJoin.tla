------------------------------ MODULE ForkJoin ------------------------------
(***************************************************************************)
(* What the users of the pool rely on: a call runs every task exactly once *)
(* and does not return before all of them have run.                        *)
(***************************************************************************)
EXTENDS Naturals

CONSTANT Tasks

VARIABLES phase, runs

Init == phase = "idle" /\ runs = [t \in Tasks |-> 0]

Fork ==
  /\ phase = "idle"
  /\ phase' = "busy"
  /\ runs' = [t \in Tasks |-> 0]

RunTask(t) ==
  /\ phase = "busy"
  /\ runs[t] = 0
  /\ runs' = [runs EXCEPT ![t] = 1]
  /\ UNCHANGED phase

Join ==
  /\ phase = "busy"
  /\ \A t \in Tasks : runs[t] = 1
  /\ phase' = "idle"
  /\ UNCHANGED runs

Close ==
  /\ phase = "idle"
  /\ phase' = "closed"
  /\ UNCHANGED runs

Next == Fork \/ (\E t \in Tasks : RunTask(t)) \/ Join \/ Close

Spec == Init /\ [][Next]_<<phase, runs>>
=============================================================================
