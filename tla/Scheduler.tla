----------------------------- MODULE Scheduler -----------------------------
(***************************************************************************)
(* executing/scheduler.py with the parts it composes: the control thread   *)
(* (operator commands, scheduling/sync_to_db.py, draining the control      *)
(* lane), the work thread (one heavy job at a time), the cancel registry   *)
(* of executing/cancellation.py, the hand-over of a finished agent run     *)
(* (executing/work_runner.py), and a process that can die at any step and  *)
(* is restarted behind executing/inflight.py's reclaim.                    *)
(*                                                                         *)
(* Each thread has a program counter; a step is one transaction, one       *)
(* registry call or one handler.  Remote entries are abstracted to what    *)
(* sync can tell apart: open or closed, and one label present or not.      *)
(***************************************************************************)
EXTENDS TaskQueue

CONSTANTS
  MaxRetries,   \* config.recovery.max_retries
  EngageAfter,  \* ENGAGE_AFTER_FAILURES of executing/recovery.py
  MaxAttempts,  \* bound: a run is voluntarily requeued only below this attempt
  MaxHuman,     \* bound on what people do to remote entries
  MaxStops,     \* bound on stop commands and signals
  MaxFaults     \* bound on crashes, aborted polls and failed writes

ASSUME SchedulerAssumption ==
  {MaxRetries, EngageAfter, MaxAttempts, MaxHuman, MaxStops, MaxFaults} \subseteq Nat

VARIABLES
  alive,        \* the runner process exists
  state,        \* Scheduler._state; "stopped" also stands for _stop being set
  thr,          \* the two loop threads
  cancelEv,     \* cancellation._events: no Event, an unset one, a set one
  parked,       \* the quota circuit is open
  remote,       \* the remote entries
  mirror,       \* the local tracker's copy, as the last sync left it
  changes,      \* what that sync returned and sync_to_db has not taken up
  sweep,        \* the change being turned into queue operations
  outcome,      \* work-results/: the attempt whose outcome file exists, or 0
  applied,      \* history: the agent runs whose result was applied
  interrupted,  \* history: the runs a teardown asked to stop
  budget        \* what is left of MaxHuman, MaxStops and MaxFaults

memory  == <<state, thr, cancelEv, parked, changes, sweep>>
disk    == <<tasks, nextId, mirror, outcome>>
history == <<applied, interrupted>>
vars    == <<alive, memory, disk, remote, history, budget>>

----------------------------------------------------------------------------
(* Threads *)

PCs == {"top", "reload", "sync", "sweep", "cleanup", "drain", "go", "claimed", "running",
        "apply", "write", "hand", "ended", "finish", "recover", "escalate", "exit"}

\* The thread owns its task's row: from the claim until _finish_task writes it.
Busy      == {"claimed", "running", "apply", "write", "hand", "ended", "finish"}
Executing == {"running", "apply", "write", "hand", "ended"}

Outs == {"none", "ok", "requeue", "hold", "quota", "retry", "fatal"}

\* "row" is the claimed row, the dict the thread carries whatever becomes of
\* the row in the table; "read" is the outcome a result task has consumed.
Thread == [pc: PCs, task: Ids \cup {NoTask}, row: Row, out: Outs, read: Nat]
Rest(pc) == [pc |-> pc, task |-> NoTask, row |-> Absent, out |-> "none", read |-> 0]

At(l, pc)     == alive /\ thr[l].pc = pc
Goto(l, pc)   == thr' = [thr EXCEPT ![l].pc = pc]
Ended(l, out) == thr' = [thr EXCEPT ![l].pc = "ended", ![l].out = out]
Home(l)       == IF l = "control" THEN "drain" ELSE "top"
Kind(l)       == thr[l].row.kind
Spend(b)      == budget[b] > 0 /\ budget' = [budget EXCEPT ![b] = budget[b] - 1]

NoSweep == [post |-> NoPost, kind |-> "none", drop |-> {}, cut |-> {}]

Init ==
  /\ QueueInit
  /\ alive = TRUE /\ state = "running" /\ parked = FALSE
  /\ thr = [l \in Lanes |-> Rest("top")]
  /\ cancelEv = [t \in Ids |-> "none"]
  /\ remote = [p \in Posts |-> [open |-> TRUE, label |-> FALSE]]
  /\ mirror = remote
  /\ changes = {} /\ sweep = NoSweep
  /\ outcome = [t \in Ids |-> 0]
  /\ applied = {} /\ interrupted = {}
  /\ budget = [human |-> MaxHuman, stops |-> MaxStops, faults |-> MaxFaults]

----------------------------------------------------------------------------
(* The world outside: people, the clock, the operator *)

HumanFlips(p, field) ==
  /\ Spend("human")
  /\ remote' = [remote EXCEPT ![p][field] = ~remote[p][field]]
  /\ UNCHANGED <<alive, memory, disk, history>>

ClockPasses(t) ==
  /\ BecomeDue(t)
  /\ UNCHANGED <<alive, memory, mirror, outcome, remote, history, budget>>

QuotaClears ==
  /\ parked /\ parked' = FALSE
  /\ UNCHANGED <<alive, state, thr, cancelEv, changes, sweep, disk, remote, history, budget>>

\* Commands reach pause() and resume() only from the head of the control loop.
Pause ==
  /\ At("control", "top") /\ state = "running"
  /\ state' = "paused"
  /\ UNCHANGED <<alive, thr, cancelEv, parked, changes, sweep, disk, remote, history, budget>>

\* resume() looks at the state, re-reads the configuration, and looks again.
Resume ==
  /\ At("control", "top") /\ state = "paused"
  /\ Goto("control", "reload")
  /\ UNCHANGED <<alive, state, cancelEv, parked, changes, sweep, disk, remote, history, budget>>

\* Faulty variant: resume() does not look at the state a second time.
BugReloaded ==
  /\ At("control", "reload")
  /\ state' = "running"
  /\ Goto("control", "top")
  /\ UNCHANGED <<alive, cancelEv, parked, changes, sweep, disk, remote, history, budget>>

Reloaded ==
  /\ At("control", "reload")
  /\ state' = IF state # "stopped" THEN "running" ELSE state
  /\ Goto("control", "top")
  /\ UNCHANGED <<alive, cancelEv, parked, changes, sweep, disk, remote, history, budget>>

\* A signal reaches request_stop at any point of either loop.  It cancels the
\* tasks the loops have noted as current.
RequestStop ==
  /\ alive /\ state # "stopped" /\ Spend("stops")
  /\ state' = "stopped"
  /\ cancelEv' = [t \in Ids |->
                    IF \E l \in Lanes : thr[l].task = t /\ thr[l].pc \in Executing
                    THEN "set" ELSE cancelEv[t]]
  /\ UNCHANGED <<alive, thr, parked, changes, sweep, disk, remote, history>>

----------------------------------------------------------------------------
(* The control thread polls: scheduling/sync_to_db.py *)

Differences ==
  {[what |-> "state", post |-> p] : p \in {q \in Posts : remote[q].open # mirror[q].open}}
  \cup
  {[what |-> "label", post |-> p] : p \in {q \in Posts : remote[q].label # mirror[q].label}}

\* sync_from_remote: the mirror is committed, the differences are in memory only
PollRemote ==
  /\ At("control", "top") /\ state = "running"
  /\ changes' = Differences /\ mirror' = remote
  /\ Goto("control", "sync")
  /\ UNCHANGED <<alive, state, cancelEv, parked, sweep, tasks, nextId, outcome,
                 remote, history, budget>>

\* the poll is not due, or the remote did not answer
SkipPoll ==
  /\ At("control", "top") /\ state = "running"
  /\ Goto("control", "drain")
  /\ UNCHANGED <<alive, state, cancelEv, parked, changes, sweep, disk, remote, history, budget>>

\* The rows a change is about to remove or interrupt, as tasks_for returns them.
RowsOf(p, status, kinds) == {t \in TasksFor(p) \cap InStatus(status) : tasks[t].kind \in kinds}

\* Entry changes come before label changes.  A close sweeps the post's rows;
\* any other change supersedes the pending row about the same resource.
TakeUp(c) ==
  /\ At("control", "sync") /\ c \in changes
  /\ c.what = "label" => \A d \in changes : d.what = "label"
  /\ changes' = changes \ {c}
  /\ sweep' =
       IF c.what = "state" /\ ~mirror[c.post].open
       THEN [post |-> c.post, kind |-> "none",
             drop |-> RowsOf(c.post, "pending", Kinds),
             cut |-> {<<t, tasks[t].attempts>> : t \in RowsOf(c.post, "in_progress", Kinds)}]
       ELSE LET kind == IF c.what = "label" THEN "label" ELSE "entry"
            IN [post |-> c.post, kind |-> kind,
                drop |-> RowsOf(c.post, "pending", {kind}), cut |-> {}]
  /\ Goto("control", "sweep")
  /\ UNCHANGED <<alive, state, cancelEv, parked, disk, remote, history, budget>>

\* db.remove on a row that was pending when it was read, oldest first
DropRow ==
  /\ At("control", "sweep")
  /\ \E t \in sweep.drop :
       /\ \A u \in sweep.drop : t <= u
       /\ Remove(t)
       /\ sweep' = [sweep EXCEPT !.drop = sweep.drop \ {t}]
  /\ UNCHANGED <<alive, state, thr, cancelEv, parked, changes, mirror, outcome,
                 remote, history, budget>>

\* _request_interrupt, for each row that was in progress when it was read,
\* oldest first; its cleanup task is queued in a transaction of its own.
FirstCut(r) == r \in sweep.cut /\ \A q \in sweep.cut : r[1] <= q[1]

Interrupt ==
  /\ At("control", "sweep") /\ sweep.drop = {}
  /\ \E r \in sweep.cut :
       /\ FirstCut(r)
       /\ cancelEv' = [cancelEv EXCEPT ![r[1]] = "set"]
       /\ interrupted' = interrupted \cup {r}
  /\ Goto("control", "cleanup")
  /\ UNCHANGED <<alive, state, parked, changes, sweep, disk, remote, applied, budget>>

EnqueueCleanup ==
  /\ At("control", "cleanup")
  /\ \E r \in sweep.cut :
       /\ FirstCut(r)
       /\ Enqueue("cleanup", sweep.post, r[1])
       /\ sweep' = [sweep EXCEPT !.cut = sweep.cut \ {r}]
  /\ Goto("control", "sweep")
  /\ UNCHANGED <<alive, state, cancelEv, parked, changes, mirror, outcome, remote,
                 history, budget>>

\* The change is dealt with; unless it was a close it becomes a task.
EndSweep ==
  /\ At("control", "sweep") /\ sweep.drop = {} /\ sweep.cut = {}
  /\ IF sweep.kind = "none" THEN UNCHANGED queueVars
     ELSE Enqueue(sweep.kind, sweep.post, NoTask)
  /\ sweep' = NoSweep
  /\ Goto("control", "sync")
  /\ UNCHANGED <<alive, state, cancelEv, parked, changes, mirror, outcome, remote,
                 history, budget>>

EndSync ==
  /\ At("control", "sync") /\ changes = {}
  /\ Goto("control", "drain")
  /\ UNCHANGED <<alive, state, cancelEv, parked, changes, sweep, disk, remote, history, budget>>

\* An exception on the way (a locked database, say) ends the poll: _sync keeps
\* the loop alive and forgets the changes it still held.
AbortSync ==
  /\ alive /\ thr["control"].pc \in {"sync", "sweep", "cleanup"} /\ Spend("faults")
  /\ changes' = {} /\ sweep' = NoSweep
  /\ Goto("control", "drain")
  /\ UNCHANGED <<alive, state, cancelEv, parked, disk, remote, history>>
----------------------------------------------------------------------------
(* Claiming: both loops check, then claim *)

\* Faulty variant: control tasks wait for the work lane to be idle.
BugControlGoes ==
  /\ At("control", "drain") /\ thr["work"].pc \notin Busy
  /\ Goto("control", IF state = "running" THEN "go" ELSE "top")
  /\ UNCHANGED <<alive, state, cancelEv, parked, changes, sweep, disk, remote, history, budget>>

\* The while condition of the drain; leaving it returns to the loop head.
ControlGoes ==
  /\ At("control", "drain")
  /\ Goto("control", IF state = "running" THEN "go" ELSE "top")
  /\ UNCHANGED <<alive, state, cancelEv, parked, changes, sweep, disk, remote, history, budget>>

\* Faulty variant: the quota circuit is not consulted.
BugWorkGoes ==
  /\ At("work", "top")
  /\ state = "running" /\ Claimable("control") = {}
  /\ Goto("work", "go")
  /\ UNCHANGED <<alive, state, cancelEv, parked, changes, sweep, disk, remote, history, budget>>

\* The work loop yields to a control lane with something ready.
WorkGoes ==
  /\ At("work", "top")
  /\ state = "running" /\ ~parked /\ Claimable("control") = {}
  /\ Goto("work", "go")
  /\ UNCHANGED <<alive, state, cancelEv, parked, changes, sweep, disk, remote, history, budget>>

Claim(l) ==
  /\ At(l, "go")
  /\ \E t \in Ids :
       /\ ClaimNext(l, t)
       /\ thr' = [thr EXCEPT ![l] = [Rest("claimed") EXCEPT !.task = t, !.row = tasks'[t]]]
  /\ UNCHANGED <<alive, state, cancelEv, parked, changes, sweep, mirror, outcome,
                 remote, history, budget>>

NothingToClaim(l) ==
  /\ At(l, "go") /\ Claimable(l) = {}
  /\ Goto(l, "top")
  /\ UNCHANGED <<alive, state, cancelEv, parked, changes, sweep, disk, remote, history, budget>>

\* Faulty variant: register always creates a fresh Event.
BugRegister(l) ==
  /\ At(l, "claimed")
  /\ cancelEv' = [cancelEv EXCEPT ![thr[l].task] = "clear"]
  /\ Goto(l, "running")
  /\ UNCHANGED <<alive, state, parked, changes, sweep, disk, remote, history, budget>>

\* cancellation.register: an Event armed before this point is kept
Register(l) ==
  /\ At(l, "claimed")
  /\ cancelEv' = [cancelEv EXCEPT ![thr[l].task] = IF @ = "none" THEN "clear" ELSE @]
  /\ Goto(l, "running")
  /\ UNCHANGED <<alive, state, parked, changes, sweep, disk, remote, history, budget>>

----------------------------------------------------------------------------
(* Control handlers *)

\* _schedule_work_run and _schedule_gate_action: not while such a job is queued
HasJob(p, kind) ==
  \E t \in TasksFor(p) : tasks[t].kind = kind /\ tasks[t].status \in {"pending", "in_progress"}

Schedule(p, kind) ==
  IF HasJob(p, kind) THEN UNCHANGED queueVars ELSE Enqueue(kind, p, NoTask)

\* dispatch, before any handler: a task that failed before is dropped when people
\* have closed its error post meanwhile.
RetryCancelled(l) ==
  /\ At(l, "running") /\ thr[l].row.attempts > 1 /\ Kind(l) # "resolve"
  /\ Spend("human")
  /\ Ended(l, "ok")
  /\ UNCHANGED <<alive, state, cancelEv, parked, changes, sweep, disk, remote, history>>

\* A synced change: the gates decide to hold it, to do nothing, to schedule work
\* or to apply an approved spec change; a write to the remote may fail.
HandleEvent ==
  LET row == thr["control"].row IN
  /\ At("control", "running") /\ row.kind \in EventKinds
  /\ \/ /\ \/ \E kind \in {"run", "gate"} : Schedule(row.post, kind)
           \/ Enqueue("spec", row.post, NoTask)
           \/ UNCHANGED queueVars
        /\ Ended("control", "ok") /\ UNCHANGED budget
     \/ /\ row.attempts < MaxAttempts
        /\ Ended("control", "hold") /\ UNCHANGED <<queueVars, budget>>
     \/ Spend("faults") /\ Ended("control", "fatal") /\ UNCHANGED queueVars
  /\ UNCHANGED <<alive, state, cancelEv, parked, changes, sweep, mirror, outcome,
                 remote, history>>

HandleCleanup ==
  /\ At("control", "running") /\ Kind("control") = "cleanup"
  /\ Ended("control", "ok")
  /\ UNCHANGED <<alive, state, cancelEv, parked, changes, sweep, disk, remote, history, budget>>

\* propose_spec_change or run_spec_change_script; the script honours its Event and
\* the time limit.
HandleSpec ==
  /\ At("control", "running") /\ Kind("control") = "spec"
  /\ \/ Ended("control", "ok") /\ UNCHANGED budget
     \/ /\ \/ cancelEv[thr["control"].task] = "set"
           \/ thr["control"].row.attempts < MaxAttempts
        /\ Ended("control", "requeue") /\ UNCHANGED budget
     \/ Spend("faults") /\ \E out \in {"retry", "fatal"} : Ended("control", out)
  /\ UNCHANGED <<alive, state, cancelEv, parked, changes, sweep, disk, remote, history>>

\* Faulty variant: the outcome file is read and left in place.
BugConsumeResult ==
  LET work == thr["control"].row.ref IN
  /\ At("control", "running") /\ Kind("control") = "result"
  /\ IF outcome[work] = 0 THEN Ended("control", "ok")
     ELSE thr' = [thr EXCEPT !["control"].pc = "apply", !["control"].read = outcome[work]]
  /\ UNCHANGED <<alive, state, cancelEv, parked, changes, sweep, disk, remote, history, budget>>

\* process_work_result reads the outcome file and deletes it before it acts.
ConsumeResult ==
  LET work == thr["control"].row.ref IN
  /\ At("control", "running") /\ Kind("control") = "result"
  /\ IF outcome[work] = 0 THEN Ended("control", "ok")
     ELSE thr' = [thr EXCEPT !["control"].pc = "apply", !["control"].read = outcome[work]]
  /\ outcome' = [outcome EXCEPT ![work] = 0]
  /\ UNCHANGED <<alive, state, cancelEv, parked, changes, sweep, tasks, nextId, mirror,
                 remote, history, budget>>

\* The transition is applied and may schedule git, or a spec change's follow-up is
\* queued.  A failed write of an issue's transition is reported as success, of a
\* spec change's follow-up as retryable; anything else that raises is fatal.
ApplyResult ==
  LET row == thr["control"].row IN
  /\ At("control", "apply")
  /\ \/ /\ \/ Schedule(row.post, "gate")
           \/ Enqueue("spec", row.post, NoTask)
           \/ UNCHANGED queueVars
        /\ applied' = applied \cup {<<row.ref, thr["control"].read>>}
        /\ Ended("control", "ok") /\ UNCHANGED budget
     \/ /\ Spend("faults") /\ UNCHANGED <<queueVars, applied>>
        /\ \E out \in {"ok", "retry", "fatal"} : Ended("control", out)
  /\ UNCHANGED <<alive, state, cancelEv, parked, changes, sweep, mirror, outcome,
                 remote, interrupted>>

----------------------------------------------------------------------------
(* Work jobs *)

\* The worker of a run: a result to hand over, nothing left to do, parked for
\* quota, out of time, crashed without an outcome, or failed.
AgentEnds ==
  /\ At("work", "running") /\ Kind("work") = "run"
  /\ \/ Goto("work", "write") /\ UNCHANGED budget
     \/ Ended("work", "ok") /\ UNCHANGED budget
     \/ /\ thr["work"].row.attempts < MaxAttempts
        /\ \E out \in {"quota", "requeue", "none"} : Ended("work", out)
        /\ UNCHANGED budget
     \/ Spend("faults") /\ \E out \in {"retry", "fatal"} : Ended("work", out)
  /\ UNCHANGED <<alive, state, cancelEv, parked, changes, sweep, disk, remote, history>>

\* recovery's own agent reports on the error post and hands nothing over
ResolverEnds ==
  /\ At("work", "running") /\ Kind("work") = "resolve"
  /\ \/ Ended("work", "ok") /\ UNCHANGED budget
     \/ /\ thr["work"].row.attempts < MaxAttempts
        /\ \E out \in {"quota", "none"} : Ended("work", out)
        /\ UNCHANGED budget
     \/ Spend("faults") /\ Ended("work", "fatal")
  /\ UNCHANGED <<alive, state, cancelEv, parked, changes, sweep, disk, remote, history>>

\* git, with an agent when branches conflict
GateEnds ==
  /\ At("work", "running") /\ Kind("work") = "gate"
  /\ \/ Ended("work", "ok") /\ UNCHANGED budget
     \/ thr["work"].row.attempts < MaxAttempts /\ Ended("work", "none") /\ UNCHANGED budget
     \/ Spend("faults") /\ Ended("work", "retry")
  /\ UNCHANGED <<alive, state, cancelEv, parked, changes, sweep, disk, remote, history>>

\* A set Event makes the runner kill the agent.  A run goes back to the queue, a
\* gate parks its issue, a resolver has failed.
AgentKilled ==
  /\ At("work", "running")
  /\ cancelEv[thr["work"].task] = "set"
  /\ Ended("work", CASE Kind("work") = "run"  -> "requeue"
                     [] Kind("work") = "gate" -> "ok"
                     [] OTHER                 -> "fatal")
  /\ UNCHANGED <<alive, state, cancelEv, parked, changes, sweep, disk, remote, history, budget>>

\* Faulty variant: only the time limit cancels the worker, not a stop.
BugGovernWorker ==
  /\ At("work", "running") /\ cancelEv[thr["work"].task] = "clear"
  /\ thr["work"].row.attempts < MaxAttempts
  /\ cancelEv' = [cancelEv EXCEPT ![thr["work"].task] = "set"]
  /\ UNCHANGED <<alive, state, thr, parked, changes, sweep, disk, remote, history, budget>>

\* _run_in_worker sets the Event once the loop was stopped or the time is up.
GovernWorker ==
  /\ At("work", "running") /\ cancelEv[thr["work"].task] = "clear"
  /\ state = "stopped" \/ thr["work"].row.attempts < MaxAttempts
  /\ cancelEv' = [cancelEv EXCEPT ![thr["work"].task] = "set"]
  /\ UNCHANGED <<alive, state, thr, parked, changes, sweep, disk, remote, history, budget>>

WriteOutcome ==
  /\ At("work", "write")
  /\ outcome' = [outcome EXCEPT ![thr["work"].task] = thr["work"].row.attempts]
  /\ Goto("work", "hand")
  /\ UNCHANGED <<alive, state, cancelEv, parked, changes, sweep, tasks, nextId, mirror,
                 remote, history, budget>>

HandOver ==
  /\ At("work", "hand")
  /\ Enqueue("result", thr["work"].row.post, thr["work"].task)
  /\ Ended("work", "ok")
  /\ UNCHANGED <<alive, state, cancelEv, parked, changes, sweep, mirror, outcome,
                 remote, history, budget>>

----------------------------------------------------------------------------
(* Finishing: cancellation.clear, _finish_task, _recover *)

Clear(l) ==
  /\ At(l, "ended")
  /\ cancelEv' = [cancelEv EXCEPT ![thr[l].task] = "none"]
  /\ Goto(l, "finish")
  /\ UNCHANGED <<alive, state, parked, changes, sweep, disk, remote, history, budget>>

Finish(l) ==
  LET t == thr[l].task  out == thr[l].out IN
  /\ At(l, "finish")
  /\ \/ /\ out \in {"requeue", "none"} /\ Requeue(t, TRUE)
     \/ /\ out \in {"hold", "quota"}   /\ Requeue(t, FALSE)
     \/ /\ out = "ok"                  /\ Complete(t, TRUE)
     \/ /\ out \in {"retry", "fatal"}  /\ Complete(t, FALSE)
  /\ parked' = (parked \/ out = "quota")
  /\ thr' = [thr EXCEPT ![l] = IF out \in {"retry", "fatal"} THEN [@ EXCEPT !.pc = "recover"]
                                                            ELSE Rest(Home(l))]
  /\ UNCHANGED <<alive, state, cancelEv, changes, sweep, mirror, outcome, remote,
                 history, budget>>

\* recovery.on_failure, long after complete: it talks to the remote in between.
\* The row stays failed when its error post was closed or no retries are left.
\* The resolve agent is engaged from the EngageAfter-th failure on, and when the
\* task will not be retried; without an error post to report on it is not.
Recover(l) ==
  LET row   == thr[l].row
      retry == thr[l].out = "retry" /\ row.attempts <= MaxRetries IN
  /\ At(l, "recover")
  /\ \/ /\ retry /\ Requeue(thr[l].task, FALSE)
        /\ \E pc \in {Home(l)} \cup (IF row.attempts >= EngageAfter THEN {"escalate"} ELSE {}) :
             thr' = [thr EXCEPT ![l] = Rest(pc)]
     \/ /\ ~retry /\ row.kind # "resolve" /\ UNCHANGED queueVars
        /\ thr' = [thr EXCEPT ![l] = Rest("escalate")]
     \/ /\ UNCHANGED queueVars
        /\ thr' = [thr EXCEPT ![l] = Rest(Home(l))]
  /\ UNCHANGED <<alive, state, cancelEv, parked, changes, sweep, mirror, outcome,
                 remote, history, budget>>

Escalate(l) ==
  /\ At(l, "escalate")
  /\ Enqueue("resolve", NoPost, NoTask)
  /\ Goto(l, Home(l))
  /\ UNCHANGED <<alive, state, cancelEv, parked, changes, sweep, mirror, outcome,
                 remote, history, budget>>

----------------------------------------------------------------------------
(* Loop exit, process death, restart *)

LoopExits(l) ==
  /\ At(l, "top") /\ state = "stopped"
  /\ Goto(l, "exit")
  /\ UNCHANGED <<alive, state, cancelEv, parked, changes, sweep, disk, remote, history, budget>>

\* Everything in memory goes, the tables and files stay as they are.
Die ==
  /\ alive' = FALSE
  /\ state' = "stopped" /\ parked' = FALSE
  /\ thr' = [l \in Lanes |-> Rest("exit")]
  /\ cancelEv' = [t \in Ids |-> "none"]
  /\ changes' = {} /\ sweep' = NoSweep
  /\ UNCHANGED <<disk, remote, history>>

Crash       == alive /\ Spend("faults") /\ Die
ProcessExit == (\A l \in Lanes : At(l, "exit")) /\ Die /\ UNCHANGED budget

\* Faulty variant: no reclaim before start().
BugRestart ==
  /\ ~alive /\ alive' = TRUE
  /\ UNCHANGED queueVars
  /\ state' = "running"
  /\ thr' = [l \in Lanes |-> Rest("top")]
  /\ UNCHANGED <<cancelEv, parked, changes, sweep, mirror, outcome, remote, history, budget>>

\* build_scheduler reclaims the rows of a dead runner, then start() runs.
Restart ==
  /\ ~alive /\ alive' = TRUE
  /\ ResetInProgress
  /\ state' = "running"
  /\ thr' = [l \in Lanes |-> Rest("top")]
  /\ UNCHANGED <<cancelEv, parked, changes, sweep, mirror, outcome, remote, history, budget>>

----------------------------------------------------------------------------
ControlStep ==
  \/ Reloaded \/ PollRemote \/ SkipPoll \/ (\E c \in changes : TakeUp(c))
  \/ DropRow \/ Interrupt \/ EnqueueCleanup \/ EndSweep \/ EndSync
  \/ ControlGoes \/ Claim("control") \/ NothingToClaim("control") \/ Register("control")
  \/ HandleEvent \/ HandleCleanup \/ HandleSpec \/ ConsumeResult \/ ApplyResult
  \/ Clear("control") \/ Finish("control") \/ Recover("control") \/ Escalate("control")
  \/ LoopExits("control")

\* What the work thread does by itself
WorkStep ==
  \/ WorkGoes \/ Claim("work") \/ NothingToClaim("work") \/ Register("work")
  \/ AgentKilled \/ GovernWorker \/ WriteOutcome \/ HandOver
  \/ Clear("work") \/ Finish("work") \/ Recover("work") \/ Escalate("work")
  \/ LoopExits("work")

\* The heavy jobs take their own time.
JobEnds == AgentEnds \/ ResolverEnds \/ GateEnds

Next ==
  \/ ControlStep \/ WorkStep \/ JobEnds
  \/ \E l \in Lanes : RetryCancelled(l)
  \/ \E p \in Posts, field \in {"open", "label"} : HumanFlips(p, field)
  \/ \E t \in Ids : ClockPasses(t)
  \/ QuotaClears \/ Pause \/ Resume \/ RequestStop
  \/ AbortSync \/ Crash \/ ProcessExit \/ Restart

Spec == Init /\ [][Next]_vars

\* Threads keep running and time passes.  That a heavy job ends by itself is not
\* assumed here: the properties that need it say so.
Fairness ==
  /\ WF_vars(ControlStep) /\ WF_vars(WorkStep) /\ WF_vars(ProcessExit)
  /\ WF_vars(QuotaClears) /\ WF_vars(\E t \in Ids : ClockPasses(t))

FairSpec == Spec /\ Fairness
=============================================================================
