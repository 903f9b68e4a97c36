---------------------------- MODULE LaneExecutor ----------------------------
(***************************************************************************)
(* What the two-lane scheduler promises the rest of the system, without    *)
(* threads, tables or signals: each lane runs one task at a time, no task  *)
(* runs in two lanes, and a task that is over (it succeeded, or its row    *)
(* was withdrawn) is never started again, whatever crashes in between.     *)
(***************************************************************************)
EXTENDS Naturals

CONSTANTS TaskIds, Lanes, Idle

VARIABLES
  running,    \* the task each lane executes, or Idle
  over        \* tasks that may never be started again

vars == <<running, over>>

TypeOK == running \in [Lanes -> TaskIds \cup {Idle}] /\ over \subseteq TaskIds

Init == running = [l \in Lanes |-> Idle] /\ over = {}

Start(l, t) ==
  /\ running[l] = Idle
  /\ t \notin over
  /\ \A k \in Lanes : running[k] # t
  /\ running' = [running EXCEPT ![l] = t]
  /\ UNCHANGED over

\* A run ends: the task is over, or it may be started again.
End(l) ==
  /\ running[l] # Idle
  /\ running' = [running EXCEPT ![l] = Idle]
  /\ over' \in {over, over \cup {running[l]}}

\* A task is withdrawn; one that is running keeps running to its end.
Withdraw(t) == over' = over \cup {t} /\ UNCHANGED running

\* The process dies: every run is cut off and nothing else is decided.
Die == running' = [l \in Lanes |-> Idle] /\ UNCHANGED over

Next ==
  \/ \E l \in Lanes : End(l) \/ \E t \in TaskIds : Start(l, t)
  \/ \E t \in TaskIds : Withdraw(t)
  \/ Die

Spec == Init /\ [][Next]_vars
=============================================================================
