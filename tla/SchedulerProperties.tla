------------------------ MODULE SchedulerProperties ------------------------
(***************************************************************************)
(* What the scheduler must never do, what it must eventually do, which     *)
(* abstract specification it implements, the inductive invariant the       *)
(* proofs rest on, and four statements of the repository's own             *)
(* documentation that the code does not keep.                              *)
(***************************************************************************)
EXTENDS Scheduler

----------------------------------------------------------------------------
(* Invariants *)

\* Every variable has its type: rows, threads and budgets stay in the sets the
\* module header gives them, and only a result row names an agent run.
TypeOK ==
  /\ QueueTypeOK
  /\ alive \in BOOLEAN /\ parked \in BOOLEAN
  /\ state \in {"running", "paused", "stopped"}
  /\ thr \in [Lanes -> Thread]
  /\ cancelEv \in [Ids -> {"none", "clear", "set"}]
  /\ remote \in [Posts -> [open: BOOLEAN, label: BOOLEAN]]
  /\ mirror \in [Posts -> [open: BOOLEAN, label: BOOLEAN]]
  /\ changes \subseteq [what: {"state", "label"}, post: Posts]
  /\ sweep \in [post: Posts \cup {NoPost}, kind: EventKinds \cup {"none"},
                drop: SUBSET Ids, cut: SUBSET (Ids \X Nat)]
  /\ outcome \in [Ids -> Nat]
  /\ applied \subseteq Ids \X Nat /\ interrupted \subseteq Ids \X Nat
  /\ budget \in [human: Nat, stops: Nat, faults: Nat]

\* No task is lost: while the process lives, a row marked in_progress is being
\* executed or finished by one of the two threads, so that no crash, restart,
\* requeue or early return leaves a row nobody will ever claim again.
InProgressOwned ==
  alive => \A t \in InStatus("in_progress") :
             \E l \in Lanes : thr[l].task = t /\ thr[l].pc \in Busy

\* An interrupt is never lost: from the moment a teardown has asked a run to
\* stop, that run (the same claim of the same row) sees its cancel Event set,
\* whether the request came before or after the thread registered the Event.
InterruptReaches ==
  \A l \in Lanes :
    (thr[l].pc \in Executing \cup {"claimed"}
       /\ <<thr[l].task, thr[l].row.attempts>> \in interrupted)
    => cancelEv[thr[l].task] = "set"

\* One agent run's result is applied at most once, even when a crash between the
\* hand-over and the completion makes the queue carry two result tasks for it.
AppliedOnce ==
  thr["control"].pc = "apply" =>
    <<thr["control"].row.ref, thr["control"].read>> \notin applied

----------------------------------------------------------------------------
(* Action properties *)

\* The quota circuit parks the work lane: no agent or git job is claimed while
\* it is open (Scheduler._quota_circuit_open is only tested before the claim).
QuotaParksWork ==
  [][thr["work"].pc # "claimed" /\ thr'["work"].pc = "claimed" => ~parked]_vars

\* A stop is final: whatever resume() or pause() was in the middle of, a process
\* that was told to stop never goes back to running or paused.
StopIsFinal == [][alive /\ state = "stopped" /\ alive' => state' = "stopped"]_vars

----------------------------------------------------------------------------
(* Refinement *)

Run(l) == IF alive /\ thr[l].pc \in Busy THEN thr[l].task ELSE NoTask
Over   == {t \in Ids : t < nextId /\ tasks[t].status \in {"success", "absent"}}

Exec == INSTANCE LaneExecutor WITH
          TaskIds <- Ids, Idle <- NoTask,
          running <- [l \in Lanes |-> Run(l)], over <- Over

\* The threads, the table and the restarts keep the promise of LaneExecutor: one
\* task per lane, none in both, none that is over ever started again.
ImplementsLanes == Exec!Spec

----------------------------------------------------------------------------
(* Liveness *)

Waiting(l) == {t \in Ids : tasks[t].status \in {"pending", "in_progress"}
                             /\ LaneOf(tasks[t].kind) = l}
Off        == ~alive \/ state # "running"

\* A stop gets through: both loops exit even if an agent run would never end,
\* because the governing thread cancels it.
StopTerminates == alive /\ state = "stopped" ~> ~alive

\* The control lane never starves: while the scheduler runs it drains to empty,
\* retries and holds included, however long the agent on the work lane takes and
\* even if that agent never ends.
ControlDrains == Waiting("control") # {} ~> Waiting("control") = {} \/ Off

\* If every heavy job ends, the work lane drains too, across quota parks,
\* timeouts, interrupts, retries and a control lane that goes first.
WorkDrains == WF_vars(JobEnds) => (Waiting("work") # {} ~> Waiting("work") = {} \/ Off)

----------------------------------------------------------------------------
(* What the repository's own documentation says of the scheduler *)

\* "we never edit the in-progress row": a row keeps existing, in progress, from
\* the claim until its own thread finishes it.
RunningRowKept ==
  \A l \in Lanes : alive /\ thr[l].pc \in Busy => tasks[thr[l].task].status = "in_progress"

\* "this item digests it exactly once": a result task that succeeded has seen
\* the run it carries applied.
ResultDigested ==
  \A t \in Ids : tasks[t].kind = "result" /\ tasks[t].status = "success"
                   => \E r \in applied : r[1] = tasks[t].ref

\* "the differences become tasks on the DB queue": a change sync has returned is
\* gone only because the sweep took it up.
ChangesBecomeTasks ==
  [][\A c \in changes \ changes' : sweep # sweep' /\ sweep'.post = c.post]_vars

----------------------------------------------------------------------------
(* The inductive invariant behind the first four: why they hold *)

\* The thread holds a row: from the claim until recovery is over.
Holding == Busy \cup {"recover"}
Held(l) == thr[l].task

\* Ids are handed out once, and only result rows name a task.
IdsInv ==
  /\ \A t \in Ids : t >= nextId => tasks[t] = Absent
  /\ \A t \in Ids : tasks[t].kind = "result" => tasks[t].ref \in Ids

\* A row a thread holds is in progress (failed, during recovery) or was deleted
\* under it, is still the claim the thread made, and is held by no other thread.
HeldInv ==
  /\ ~alive => \A l \in Lanes : thr[l].pc = "exit"
  /\ \A l \in Lanes : thr[l].pc \in Holding =>
       /\ Held(l) \in Ids /\ Held(l) < nextId
       /\ tasks[Held(l)].status \in
            {"absent", IF thr[l].pc = "recover" THEN "failed" ELSE "in_progress"}
       /\ Present(Held(l)) => tasks[Held(l)].attempts = thr[l].row.attempts
       /\ thr[l].row.attempts > 0
       /\ thr[l].row.kind = "result" => thr[l].row.ref \in Ids
  /\ \A k, l \in Lanes :
       k # l /\ thr[k].pc \in Holding /\ thr[l].pc \in Holding => Held(k) # Held(l)

\* Row t was handed out and has been claimed at least n times, or is deleted.
Reached(t, n) == t < nextId /\ (Present(t) => n <= tasks[t].attempts)

\* Nobody asks for the interrupt of a claim that is still to come.
InterruptInv == \A r \in interrupted \cup sweep.cut : Reached(r[1], r[2])

\* A run's result is in one place at a time: not yet written, in its file, being
\* applied, or applied.
ResultInv ==
  /\ \A t \in Ids : outcome[t] # 0 => Reached(t, outcome[t])
  /\ \A r \in applied : r[2] # 0 /\ Reached(r[1], r[2]) /\ outcome[r[1]] # r[2]
  /\ thr["control"].pc = "apply" =>
       LET t == thr["control"].row.ref  n == thr["control"].read IN
       t \in Ids /\ n # 0 /\ Reached(t, n) /\ outcome[t] # n
  /\ thr["work"].pc \in {"claimed", "running", "write"} =>
       LET t == Held("work")  n == thr["work"].row.attempts IN
       /\ <<t, n>> \notin applied
       /\ outcome[t] # n
       /\ thr["control"].pc = "apply" =>
            <<t, n>> # <<thr["control"].row.ref, thr["control"].read>>

SafetyInv ==
  /\ TypeOK /\ IdsInv /\ HeldInv /\ InProgressOwned
  /\ InterruptInv /\ InterruptReaches /\ ResultInv /\ AppliedOnce
=============================================================================
