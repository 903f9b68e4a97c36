------------------------ MODULE SchedulerRefinement ------------------------
(***************************************************************************)
(* Every execution of the scheduler is one of LaneExecutor: a claim starts *)
(* a task, a finish ends it, a deletion by the sweep withdraws it, a crash *)
(* cuts every run off, and every other step is invisible.                  *)
(***************************************************************************)
EXTENDS SchedulerProofs

\* The mapping of the state, as a function of the lane.
Running == [l \in Lanes |-> Run(l)]

\* The schedulers start where the lanes start.
LEMMA InitRefines == Init => Exec!Init
<1> SUFFICES ASSUME Init PROVE Exec!Init
  OBVIOUS
<1>1. \A l \in Lanes : Run(l) = NoTask
  BY DEF Init, Run, Rest, Busy
<1>2. Over = {}
  BY QueueAssumption DEF Init, QueueInit, Over, Ids
<1> QED BY <1>1, <1>2 DEF Exec!Init

\* What is over, row by row.
LEMMA OverIsStable ==
  ASSUME SafetyInv, nextId' = nextId,
         \A u \in Ids : tasks'[u].status \in {"success", "absent"}
                          <=> tasks[u].status \in {"success", "absent"}
  PROVE  Over' = Over
BY DEF Over

\* A step that keeps every hold and only enqueues, deletes or waits is either
\* invisible or withdraws the deleted task.
LEMMA QuietRefines ==
  ASSUME SafetyInv, QuietStep
  PROVE  Exec!Next \/ UNCHANGED Exec!vars
<1>a. QueueTypeOK /\ IdsInv /\ nextId \in Nat
  BY QueueAssumption DEF SafetyInv, TypeOK, QueueTypeOK
<1>b. (\A l \in Lanes : KeepsHold(l)) /\ TableOp /\ alive' = alive /\ (alive \/ thr' = thr)
  BY QuietStepKeepsHolds
<1>1. Running' = Running
  BY <1>b DEF Running, Run, KeepsHold
<1>2. CASE UNCHANGED queueVars
  <2>1. Over' = Over
    BY <1>2 DEF Over, queueVars
  <2> QED BY <1>1, <2>1 DEF Exec!vars, Running
<1>3. ASSUME NEW kind, NEW post, NEW ref, Enqueue(kind, post, ref)
      PROVE  Exec!Next \/ UNCHANGED Exec!vars
  <2>1. /\ nextId \in Ids /\ nextId' = nextId + 1
        /\ \A u \in Ids : u # nextId => tasks'[u] = tasks[u]
        /\ tasks'[nextId].status = "pending"
    BY <1>3, <1>a, EnqueueEffect
  <2>2. Over' = Over
    BY <2>1, <1>a DEF Over, Ids
  <2> QED BY <1>1, <2>2 DEF Exec!vars, Running
<1>4. ASSUME NEW t \in Ids, Remove(t) PROVE Exec!Next \/ UNCHANGED Exec!vars
  <2>1. /\ nextId' = nextId /\ tasks'[t].status = "absent"
        /\ \A u \in Ids : u # t => tasks'[u] = tasks[u]
    BY <1>4, <1>a, RemoveEffect, AbsentFields
  <2>2. CASE t < nextId
    <3>1. Over' = Over \cup {t}
      BY <2>1, <2>2 DEF Over
    <3>2. Exec!Withdraw(t)
      BY <1>1, <3>1 DEF Exec!Withdraw, Running
    <3> QED BY <3>2 DEF Exec!Next
  <2>3. CASE ~(t < nextId)
    <3>1. Over' = Over
      BY <2>1, <2>3 DEF Over
    <3> QED BY <1>1, <3>1 DEF Exec!vars, Running
  <2> QED BY <2>2, <2>3
<1>5. ASSUME NEW t \in Ids, BecomeDue(t) PROVE Exec!Next \/ UNCHANGED Exec!vars
  <2>1. Over' = Over
    BY <1>5, <1>a, DueEffect, OverIsStable
  <2> QED BY <1>1, <2>1 DEF Exec!vars, Running
<1> QED BY <1>b, <1>2, <1>3, <1>4, <1>5 DEF TableOp

\* A claim is a claim of the lane.
LEMMA ClaimRefines ==
  ASSUME SafetyInv, NEW l \in Lanes, Claim(l)
  PROVE  Exec!Next
<1> PICK t \in Ids : /\ ClaimNext(l, t)
                     /\ thr' = [thr EXCEPT ![l] =
                                  [Rest("claimed") EXCEPT !.task = t, !.row = tasks'[t]]]
  BY DEF Claim
<1>a. QueueTypeOK /\ HeldInv /\ alive /\ alive' /\ thr[l].pc = "go"
  BY DEF SafetyInv, TypeOK, Claim, At
<1>b. /\ \A k \in Lanes : k # l => thr'[k] = thr[k]
      /\ thr'[l].pc = "claimed" /\ thr'[l].task = t
  BY ClaimTakesHold
<1>c. /\ nextId' = nextId /\ tasks[t].status = "pending" /\ tasks'[t].status = "in_progress"
      /\ \A u \in Ids : u # t => tasks'[u] = tasks[u]
  BY <1>a, ClaimEffect
<1>1. Over' = Over /\ t \notin Over
  BY <1>c, OverIsStable DEF Over
<1>2. Run(l) = NoTask
  BY <1>a DEF Run, Busy
<1>3. \A k \in Lanes : Run(k) # t
  <2>1. NoTask # t
    BY QueueAssumption DEF NoTask, Ids
  <2> QED BY <2>1, <1>a, <1>c DEF Run, HeldInv, Held, Holding, Busy
<1>4. Running' = [Running EXCEPT ![l] = t]
  <2>1. Run(l)' = t
    BY <1>a, <1>b DEF Run, Busy
  <2>2. \A k \in Lanes : k # l => Run(k)' = Run(k)
    BY <1>a, <1>b DEF Run
  <2> QED BY <2>1, <2>2 DEF Running
<1>5. Exec!Start(l, t)
  BY <1>1, <1>2, <1>3, <1>4 DEF Exec!Start, Running
<1> QED BY <1>5 DEF Exec!Next

\* The end of a job is that of the lane's.
LEMMA FinishRefines ==
  ASSUME SafetyInv, NEW l \in Lanes, Finish(l)
  PROVE  Exec!Next
<1> DEFINE t == thr[l].task
<1>a. QueueTypeOK /\ HeldInv /\ thr \in [Lanes -> Thread] /\ nextId \in Nat
  BY QueueAssumption DEF SafetyInv, TypeOK, QueueTypeOK
<1>b. alive /\ alive' /\ thr[l].pc = "finish"
  BY DEF Finish, At
<1>c. t \in Ids /\ t < nextId /\ tasks[t].status \in {"absent", "in_progress"}
  BY <1>a, <1>b DEF HeldInv, Held, Holding, Busy
<1>d. \E status \in {"pending", "success", "failed"} : \E due : Update(t, status, due)
  BY <1>a DEF Finish, Requeue, Complete, Thread, Outs
<1>e. /\ nextId' = nextId
      /\ \A u \in Ids : u # t => tasks'[u] = tasks[u]
      /\ tasks[t].status = "absent" => tasks'[t] = tasks[t]
      /\ tasks'[t].status \in {"absent", "pending", "success", "failed"}
  BY <1>a, <1>c, <1>d, UpdateEffect DEF Present
<1>f. /\ \A k \in Lanes : k # l => thr'[k] = thr[k]
      /\ thr'[l].pc \notin Busy
  BY FinishRests DEF Busy
<1>1. Run(l) = t /\ t # NoTask
  BY <1>b, <1>c, QueueAssumption DEF Run, Busy, NoTask, Ids
<1>2. Running' = [Running EXCEPT ![l] = NoTask]
  BY <1>b, <1>f DEF Running, Run
<1>3. Over' = Over \/ Over' = Over \cup {t}
  <2>1. CASE tasks'[t].status \in {"absent", "success"}
    BY <1>c, <1>e, <2>1 DEF Over
  <2>2. CASE tasks'[t].status \in {"pending", "failed"}
    BY <1>c, <1>e, <2>2, AbsentFields DEF Over
  <2> QED BY <2>1, <2>2, <1>e
<1>4. Exec!End(l)
  BY <1>1, <1>2, <1>3 DEF Exec!End, Running
<1> QED BY <1>4 DEF Exec!Next

\* Recovery comes after the end of the run and starts nothing.
LEMMA RecoverRefines ==
  ASSUME SafetyInv, NEW l \in Lanes, Recover(l)
  PROVE  UNCHANGED Exec!vars
<1> DEFINE t == thr[l].task
<1>a. QueueTypeOK /\ HeldInv /\ thr \in [Lanes -> Thread]
  BY DEF SafetyInv, TypeOK
<1>b. alive /\ alive' /\ thr[l].pc = "recover"
  BY DEF Recover, At
<1>c. t \in Ids /\ tasks[t].status \in {"absent", "failed"}
  BY <1>a, <1>b DEF HeldInv, Held, Holding
<1>d. UNCHANGED queueVars \/ \E due : Update(t, "pending", due)
  BY DEF Recover, Requeue
<1>1. Over' = Over
  <2>1. CASE UNCHANGED queueVars
    BY <2>1 DEF Over, queueVars
  <2>2. CASE \E due : Update(t, "pending", due)
    <3>1. /\ nextId' = nextId
          /\ \A u \in Ids : u # t => tasks'[u] = tasks[u]
          /\ tasks[t].status = "absent" => tasks'[t] = tasks[t]
          /\ tasks[t].status = "failed" => tasks'[t].status = "pending"
      BY <2>2, <1>a, <1>c, UpdateEffect DEF Present
    <3>2. tasks'[t].status \in {"success", "absent"} <=> tasks[t].status \in {"success", "absent"}
      BY <1>c, <3>1
    <3> HIDE DEF t
    <3>3. \A u \in Ids : tasks'[u].status \in {"success", "absent"}
                           <=> tasks[u].status \in {"success", "absent"}
      BY <3>1, <3>2
    <3> QED BY <3>1, <3>3, OverIsStable
  <2> QED BY <1>d, <2>1, <2>2
<1>2. /\ \A k \in Lanes : k # l => thr'[k] = thr[k]
      /\ thr'[l].pc \notin Busy
  BY RecoverRests DEF Busy
<1>3. Running' = Running
  BY <1>b, <1>2 DEF Running, Run, Busy
<1> QED BY <1>1, <1>3 DEF Exec!vars, Running

\* The runner dies and restarts as the lanes do.
LEMMA DieAndRestartRefine ==
  ASSUME SafetyInv, Crash \/ ProcessExit \/ Restart
  PROVE  Exec!Next
<1>a. QueueTypeOK
  BY DEF SafetyInv, TypeOK
<1>1. Running' = [l \in Lanes |-> NoTask]
  <2>1. \A l \in Lanes : thr'[l].pc \in {"exit", "top"}
    BY RestIsThread DEF Crash, ProcessExit, Die, Restart, PCs
  <2> QED BY <2>1 DEF Running, Run, Busy
<1>2. Over' = Over
  <2>1. CASE Crash \/ ProcessExit
    BY <2>1 DEF Crash, ProcessExit, Die, disk, Over
  <2>2. CASE Restart
    BY <2>2, <1>a, ResetEffect, OverIsStable DEF Restart
  <2> QED BY <2>1, <2>2
<1>3. Exec!Die
  BY <1>1, <1>2 DEF Exec!Die, Running
<1> QED BY <1>3 DEF Exec!Next

\* The scheduler implements the two-lane executor.
THEOREM Refinement == Spec => ImplementsLanes
<1>1. SafetyInv /\ [Next]_vars => [Exec!Next]_Exec!vars
  <2> SUFFICES ASSUME SafetyInv, [Next]_vars PROVE Exec!Next \/ UNCHANGED Exec!vars
    OBVIOUS
  <2> QED BY QuietRefines, ClaimRefines, FinishRefines, RecoverRefines, DieAndRestartRefine, NextCases
<1> QED BY InitRefines, <1>1, Safety, PTL DEF Spec, ImplementsLanes, Exec!Spec
=============================================================================
