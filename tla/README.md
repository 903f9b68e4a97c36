# Verification of the specseed runtime

specseed turns the issues of a remote tracker (GitHub, GitLab or a local one) into
agent work: a runner process polls the tracker, turns what people did into tasks on a
SQLite queue, drains the queue with two threads, runs coding agents and git, and writes
the outcome back to the tracker. This directory models that runtime in TLA+, checks the
models with TLC and proves their invariants with TLAPS. Paths below are relative to
`src/src/specseed_runtime/` unless they start with `src/`.

## 1. The system

### Parts, their state and their operations

| part | state | operations | who calls it |
| --- | --- | --- | --- |
| task queue (`db/database.py`, `executing/priorities.py`) | the `tasks` table: lane, priority, status, attempts, `not_before` | enqueue, claim_next, complete, requeue, remove, reset_in_progress | every other part, from two threads |
| scheduler (`executing/scheduler.py`) | `_state`, `_stop`, quota circuit, current tasks of both threads | control loop, work loop, pause, resume, request_stop, claim, finish | threads, signal handlers |
| cancel registry (`executing/cancellation.py`) | one Event per task id | register, cancel, clear | scheduler, sync, handlers |
| sync to queue (`scheduling/sync_to_db.py`) | none of its own | turn the differences of a sync into tasks, supersede pending rows, tear down closed posts | control loop |
| local tracker (`tracking/tracking_local.py`) | the mirror of the remote | sync_from_remote, and the tracker interface | control loop, handlers |
| remote trackers (`tracking/tracking_remote_*.py`) | none | HTTP | local tracker, handlers |
| dispatch and gates (`executing/dispatch.py`) | none | decide what a synced event means, run or schedule work, gate, spec scripts | control and work threads |
| issue lifecycle (`executing/advance.py`, `state_machines/`) | labels and comments of a post | transitions after work, approval and merge gates, roll-up | dispatch, work results |
| work jobs (`executing/work_runner.py`) | `work-results/<task>.json` | run an agent, run git, hand the outcome over, digest it | work thread, then control thread |
| agent runner (`executing/agent_runner.py`) | a child process | run, kill, fall back to the next runner | work thread |
| failure recovery (`executing/recovery.py`, `quota.py`) | error posts on the remote | on_failure, retry_cancelled, on_recovered | both threads |
| in-flight ledger (`executing/inflight.py`) | pids of running agents | record, clear, reclaim | work thread, start-up |
| spec changes (`scheduling/spec_change.py`, parts of dispatch and advance) | a directory with `plan.json` and `apply.py` | propose, park for approval, apply, close | control thread |
| git (`executing/git_ops.py`) | branches of the target repository | ensure branch, commit, prepare, merge, abort | work thread |
| run control (`executing/run.py`, `runner_control.py`, `control.py`) | pid and status files, control file, CONTROL post | start, stop, pause, resume from outside | CLI, console, people |
| migrations (`migrating/`) | the files of a data root, a version marker | relocate, run the hops | every command, runner start |
| configuration, registry, commands (`configuring/`, `registry.py`, `specseed.py`) | `config/`, the list of repositories | add, configure, start, stop | people |
| web console (`src/src/ui/`) | none of its own; writes the tracker, the queue, `control.json` | take back a reaction, retry a task, start and stop, set up | people |

### How they interact

Everything meets in the queue. The *control thread* polls the remote, commits the mirror,
queues one task per difference and drains the control lane; its handlers schedule *work
lane* rows (agent runs, git). The *work thread* claims them one at a time, writes an
outcome file and queues a `process_work_result` row at the highest control priority, so
that the transition of the issue is decided on the control thread. A closed post makes the
control thread delete the post's pending rows and set the cancel Event of its running
job. A failed task goes to recovery, on the thread that ran it.

### What is hard

* two threads and a signal handler share the table, the registry and `_state`; every
  "look, then act" between them is two transactions;
* the process may die at any point; only the table, the mirror and the outcome files
  survive, and a restart reclaims what was in progress;
* an interrupt may arrive before the thread has registered its Event, or as it clears it;
* the remote and its mirror disagree most of the time, and writes to the remote fail;
* retries, holds, quota parks and kills all put a row back, and all count attempts;
* stop, pause, resume and a configuration reload can overlap;
* the remote is read in many pieces while people write to it, and a thread is compared only
  when its entry's time has moved;
* an agent rewrites a spec change's directory while people decide about what they read in it;
* calls of the tracker never raise: whoever ignores their result goes on after a label that did
  not change, a post that was not made, or a look at the remote that saw nothing;
* files are rewritten by emptying them first: a death, or another reader, in between finds an
  empty `runner.json` or configuration, and readers take that for "none";
* two processes may start on one storage, and a data root may be half moved when one starts.

### What makes each part correct

* queue: claim order; a row is claimed by one thread; ids are never reused;
* scheduler and work jobs: no row is stranded in progress, no result applied twice or lost,
  an interrupt reaches the run it was meant for and only that, a stop is final and always
  gets through, the quota circuit parks heavy work only, both lanes drain;
* sync: every difference becomes a task, and a running row is left alone;
* tracker: equal times mean equal threads, nothing is told twice, the mirror converges, and
  no queued task speaks of a state the mirror has left;
* recovery: every failure is retried a bounded number of times or surfaces as an error
  post, and recovery never recovers itself;
* issue lifecycle and git: an issue is done only when its branch was merged with the
  authorisation its gates ask for, and every open gate is eventually answered;
* spec changes: a script that creates work runs once, and only after its approval;
* run control: one runner per target, and every command reaches it;
* migrations: no file is lost, what a runner opens has had every hop, and nobody's data is left
  aside; the exceptions are named, one by one.

## 2. Modules

| module | models | uses |
| --- | --- | --- |
| `TaskQueue` | class `Database`: one operator per method, each one transaction | |
| `Scheduler` | both loops, the cancel registry, `sync_to_db`, the work jobs' hand-over, recovery's queue effects, process death and restart | extends `TaskQueue` |
| `SchedulerProperties` | the properties, the refinement mapping, the inductive invariant | extends `Scheduler`, instantiates `LaneExecutor` |
| `LaneExecutor` | abstract specification: one task per lane, none in two lanes, none that is over ever started again | |
| `MCScheduler` | the symmetry set of the TLC runs | extends `SchedulerProperties` |
| `SchedulerProofs` | what each queue operation does to the table, as lemmas; the inductive invariant and the theorems | extends `SchedulerProperties`, `TLAPS` |
| `SchedulerRefinement` | the scheduler implements `LaneExecutor` | extends `SchedulerProofs` |
| `IssueLifecycle` | issues from todo to merge: statuses, gates, reviews, dependencies, branch preparation and merge | |
| `IssueProperties` | its properties, the refinement mapping | extends `IssueLifecycle`, instantiates `Delivery` |
| `Delivery` | abstract specification: what is built, merged and called done, and on what it stands | |
| `MCIssues` | configurations and dependencies of the TLC runs | extends `IssueProperties` |
| `TrackerStore` | one tracker database: its writes, foreign keys and cascades, as operators on a store | |
| `TrackerSync` | people and the console writing the remote, a poll reading it piece by piece, the mirror's transaction, the changes and the tasks they become | extends `TrackerStore` |
| `TrackerProperties`, `MCTracker` | its properties; the seed of the TLC runs | extend `TrackerSync` |
| `SpecChange`, `SpecChangeProperties` | one spec-change request: worker runs, proposal, approval, promotion, script | |
| `Recovery`, `RecoveryProperties` | one failing job: chain of runners, in-flight ledger, error post, retries, resolve agent | |
| `RunControl`, `RunControlProperties` | the processes that serve a storage and the three ways to command them | |
| `Migration`, `MigrationProperties` | old data on its way into the data root, through relocation and hops, beside the commands | |
| `MCMigration` | the symmetry set of its TLC run | extends `MigrationProperties` |
| `IssueProofs`, `TrackerProofs`, `SpecChangeProofs`, `RecoveryProofs`, `RunControlProofs`, `MigrationProofs` | the inductive invariant of each of these models, and the theorems | each extends the model's properties and `TLAPS` |

The modules meet in the queue. `Scheduler` has it in full and leaves open what a handler
decides; `IssueLifecycle`, `SpecChange` and `Recovery` each look at one post or job and
reduce the queue to its pending rows; `TrackerSync` shows where events come from,
`RunControl` when the loop that `Scheduler` models runs at all, and `Migration` what files it
opens. They are separate because their product is out of TLC's reach.

### Correspondence of `Scheduler` with the code

*State.* `tasks` and `nextId` are the table and its AUTOINCREMENT counter; `due` abstracts
`not_before`. `thr[l]` is a loop thread: where it is (`pc`), the id and the claimed row it
carries (the dict `claim_next` returned, which the code keeps using whatever becomes of the
row), the outcome its handler reported, and the outcome file it has read. `state` is
`Scheduler._state`, where "stopped" also stands for `_stop` being set; `parked` is the quota
circuit; `cancelEv` is `cancellation._events`: no Event, a clear one, a set one. `remote`
and `mirror` keep of an entry only what sync can tell apart: open or closed, and a label.
`changes` and `sweep` are the local variables of `_sync` and `sync_to_db`. `outcome[t]` is
the outcome file of work task `t`, as the attempt that wrote it. `applied` and
`interrupted` are history variables.

*Task kinds.* `entry` and `label` are the `handle_*` tasks of `tasks/`; `run`, `gate` and
`resolve` are the work lane's agent runs, git actions and recovery agent; `result` is
`process_work_result`, `cleanup` the task a teardown queues, `spec` a spec change's
proposal or script.

*Steps.* A step is one transaction, one registry call or one handler. The thread's cycle is
`ControlGoes`/`WorkGoes` (the loop condition), `Claim`, `Register`, a handler, `Clear`,
`Finish` and, after a failure, `Recover` and `Escalate`. The steps between a check and the
act it guards are separate wherever the code has them in separate transactions: `WorkGoes`
and `Claim`, `TakeUp` and `DropRow`, `ConsumeResult` and `ApplyResult`, `WriteOutcome` and
`HandOver`, `Finish` (the row is failed) and `Recover` (it is requeued), `Resume` and
`Reloaded`. `Crash` may come between any two.

*Handlers.* What a gate decides depends on labels and comments that this module does not
have, so a handler's decision is a choice over what it does to the queue: `HandleEvent`
schedules a job (behind the duplicate check, `HasJob`), queues a spec script, holds, does
nothing, or fails. `RetryCancelled` stands for people having closed the task's error post;
the post itself is not state here, so any task on its second attempt or later may find it
closed.

### Correspondence of `IssueLifecycle` with the code

*State.* `remote` and `mirror` are the tracker and the last sync's copy of it. Of an issue
they keep the status labels (a set: nothing in the tracker keeps it to one), whether it is
open, how many review comments it has, the commands people wrote, the latest human comment,
and for each kind of approval request the latest one with its `APR` number and reactions:
`ask` (a sign-off or a pre-work approval), `pure` and `combined` are what the markers of
`advance.py` tell apart. That is what the handlers look for in a conversation. `pend`,
`results`, `runJob` and `gateJob` are the queue of `Scheduler` reduced to one issue's
pending rows; `work` is the job of the work thread with the label snapshot it read.
`branch[i]` numbers the states of an issue's branch, `merged[i]` is the one the primary
branch contains. `config` is a behaviour's configuration and its "Depends on:" lines.

*Steps.* People react, comment, cancel. `Sync` commits the mirror, queues events and tears
closed entries down in one step (`Scheduler` has its parts). A control handler is one step:
`DigestResult`, and for an event one of `ResolveGate`, `Ignore`, `ParkForApproval`,
`BlockOnCancelled`, `HoldOnDeps`, `ScheduleRun`, which together are `_run_work`. Handlers
judge by `mirror` and write to `remote`; `Stale` is their look at the remote before they
write. What they do to an issue is a function of the two entries (`Resolution`,
`AfterImplement`, `AfterReview`). On the work lane a run is `ClaimRun`, then `RunEnds` or
`RunFails`; a gate job goes through `Prepared` or `Unmergeable`, `Merge`, `SetDone`,
`Close` and, for each sibling with an open gate, `Prepared` again, so a sync, a handler or
a crash may fall between any two writes.

*What it implements.* `Delivery` has no handlers, gates, mirrors, jobs or crashes. It says what
somebody sees who looks at the branches and the tracker only: an agent begins an issue when all
it depends on is merged, ends it with the branch as it was or a state further, the primary
branch takes an issue's branch while nobody builds, an issue reads done while the primary
branch has all of its branch. It also says that done may be taken away again (`Reopen`): TLC shows that the
code does so, where a late result relabels an issue that has been merged. In the mapping `building` is the
issue the work thread runs an implementation of, `primary` is `merged`, `done` the issues whose
labels on the remote have it.

*Abstracted.* Confidence and verdict of a review are one report; conflicts, and whether
the resolver agent copes, are the choice between `Prepared` or `Merge` and `Unmergeable`.
People's names and approver lists: whoever reacts is an approver. A command that names an
`APR` token counts as a reaction on that comment, one that names the issue is in `said`.
Reactions are not withdrawn. `deprecated` is `wont_do`. Left out: reactions on the post
itself, the assignment gate, `draft` labels, the options prompt, tickets and epics with
their roll-up and dependencies, draft adapt posts, a tracker one may not write to, and
failing remote writes.

### Correspondence of `TrackerStore` and `TrackerSync` with the code

*State.* A store is the tables of `tracking_local.py`: entries, their labels and pins,
comments, reactions on both, and the same for pull requests. A row keeps `rev`, the number
of the write that last set its text, and `stamp`, its `updated_at`; each operator of
`TrackerStore` is a method's one transaction, with `Touch` where the method sets the
parent's time. `clock` is `_now()` of the remote: for a local one strictly increasing, for a
hosted one possibly coarse (`Coarse`). `poll` is what a poll has read so far, `changes` the
list it returned, in the order `_sync_from_provider_remote` builds it (`rank`).

*Steps.* The local remote is read by four SELECTs (`ReadLabels`, `ReadRelations`,
`ReadRows`, `ReadChangedThreads`), a hosted one by a list, one request per entry and one per
thread, then pull requests (`ListEntries`, `GetEntry`, `GetThread`, `GetPulls`); people
write between any two. An entry that goes in between raises and ends the poll
(`EntryGone`), as a failed request does. `Commit` is the mirror's single transaction: the
tables in the code's order, rolled back when a row's parent was not read
(`ForeignKeys`), and the differences it reports. `Deliver` is one turn of the loop in
`sync_to_db`, with supersession, teardown and the platform's own comments. The
console's toggle of a reaction is two transactions, `Unreact` and `TouchAfter`.

*Abstracted.* Text, authors, assignees, search. Edits of comments. The task a `Handle`
takes is another module's business. Every row has an id of its own, whatever its table; in
the code each table of a local tracker counts from one (section 5 says where that matters).

### Correspondence of `SpecChange` with the code

`remote` and `mirror` hold the request's labels, the tokens asked for, and the commands and
reactions on them. `dir` is `spec-change/<id>/`, as the token in `plan.json` and what
`classify` would say of it; the worker (`Writes`) replaces it at any moment of a run, and
promotion and scripts read it when they get there. `queue` is the control lane's rows about
the request, each with its attempts, whether it is due and how its error post stands.
`control` is the control thread inside one task: `GuardResolve`, `PromoteStaged`, `Unlabel`,
`Label`, `EnqueueApply` and `CloseRequest` are the steps of `resolve_spec_change_request`,
`Propose` and `Park` those of `propose_spec_change`. What a script creates is one fact per
plan, `created`.

*A script's ends.* `ScriptRuns` is exit code 0. `ScriptStopped` (stop or time limit) puts the
row back at once; `ScriptFails` (an exit code) and `ScriptRaises` (the handler dies, or
refuses) complete it as failed, and `OnFailure` is what recovery makes of that: the row waits for
a delay, or, when `GivesUp` (recovery off, a failure not worth a retry, more attempts than
`MaxRetries`, the error post closed), stays failed for good. `Take` is the claim with the gate
of `retry_cancelled`: a retry whose error post somebody closed is done without having run.
Approvals that end so are in `dropped`, with the reason. A crash puts the task in progress back
to the front, and leaves a failed one failed. The button that retries a failed row by hand is
in `Recovery` only.

*Failed calls of the tracker.* They change nothing and nobody is told, which is why they are
alternatives of the steps and not steps: `GuardResolve` goes on as if the request were
undecided (`blind`), `Unlabel`, `Label` and `Park` leave labels as they were, `Propose` parks a
request that was never posted (all of these in `unmarked`), `CloseRequest` leaves it open
(`unclosed`). Each takes one of `MaxFaults`, as does the first failure of a script; a retry may fail again for free. Reading a staged document that cannot be copied
skips that document in the code; here promotion is one fact per plan.

### Correspondence of `Recovery` with the code

`row` is one job of the work lane, `posts` its error posts (more than one only when a lookup
failed), `agents` the children alive, `ledger` the pid `inflight.py` has on file,
`session` the runner whose conversation the post remembers. The lane goes `Claim`, `Gate`
(`retry_cancelled`), `Prepare`, for each runner of the chain `Spawn`, `Record`, `AgentEnds`,
then `Reap`, `Finish` (the row's status) and `Report`, `Retry`, `Engage`
(`recovery.on_failure`; with `recovery.enabled` off, `Enabled = FALSE`, `Report` ends there,
silently, as the code does) or `Recovered`. `Exhausted`, `Decided` and `EngageAfter` are the
decisions of `on_failure`. `Crash` leaves the children alive; `Restart` is `reclaim`, which
kills the one the ledger names unless its command line cannot be read. Lengths of delays
and quota windows are left out: a delay passes (`DelayPasses`).

### Correspondence of `RunControl` with the code

`desired` is `control.json`, `beat` is `runner.json`: whom it names, with its freshness, or
nobody when it is absent, empty or torn, which `_read_json` does not tell apart. `comments` are the
commands on the CONTROL post, `proc[p]` a process: where its control loop is, its state,
whether `_stop` is set (`told`), the last file value it obeyed (`last`), its cursor over
comments, and which of its threads are in the middle of a stamp (`writing`). The turn of the
loop is `Reconcile`, `Reload`, `Heartbeat`, `Poll`, `Obey`, `NextTurn`; start-up is the owner
check (`Refused` or `Build`), the reclaim and `Launch`.
`StopRunner` writes the flag and signals the process of a fresh stamp. A pid that died
is not reused: then `runner.json` names nobody.

A stamp is `Opens`, which empties the file, and `Writes`, which fills it or fails (a full
disk, or the bytes of two threads mixed up). The control thread stamps in `Heartbeat`, unless it
did so seconds ago, and at its end in `FinalBeat`; the work thread stamps for as long as a job runs
(`WorkBeat`, `WorkBeatEnds`), also after the control thread has died, and no lock keeps
them apart. `Owner` and `Alive` read the file at any of these moments. `raced` records that a
process passed the owner check while another served without a whole stamp on file.
`control.json` is written in one step: a reader that finds it empty reads "none" and looks
again in the next turn, as if the command had come a moment later. A poll of the CONTROL post
always answers; one that does not is a poll that comes later.

### Correspondence of `Migration` with the code

`place[f]` says where a file of the old target is: inside the target (`legacy`), at the top
of the data root (`flat`), in its subdirectory (`home`), or deleted with the old directory
(`lost`). `fresh` are files the new code made itself, `shape` whether the hop that changes
a file's content has run on it, or the content is gone. Five files stand for all: a database,
its log, the configuration, the version marker, and `platform.log`; three hops stand for fourteen:
one rewrites a file, one alters a database, one moves files. A file move is one rename, in one
file system.
Each process is a command: `Resolve` to `PointRecord` is `relocate_legacy_data`, `Migrate`
to `Mark` is `run_migrations`, then the command opens the queue (`run`) or reads and writes the
configuration (`configure`, `add`), two steps, `LoadConfig` and `WriteConfig`: a hop of another
process may move the old configuration in between, and the defaults read before then
overwrite it (`shape` "gone"). `Enter` is where `run` opens its log, before it migrates: the old
log is left aside by every upgrade that `run` makes. The console sets up without relocating or
migrating (`ConsoleSetup`), a signal leaves a control file (`Signal`).

*Hops that do not happen.* The hop that renames keys empties the configuration (`Empties`) and
then writes it (`Rewrites`); a death in between leaves an empty file. A hop that cannot read its
file returns as if there were nothing to do (`HopFails`), and so it does when the file is empty;
`run_migrations` marks it as applied all the same (`Mark`), so that nothing ever repeats it.
`mishaps` records these accidents by the file they spoil (`spoilt_config`, `spoilt_db`), and the
four that leave files aside: two commands at once (`overlap`), a relocation cut after its
first move (`cut_relocation`), a death between a database and its log (`cut_pair`), a write before
the migration (`early_write`).

## 3. What is checked

All runs of `Scheduler` use one post, `MaxRetries = EngageAfter = 1` and `MaxAttempts = 2`.

| run | question | bounds | states |
| --- | --- | --- | --- |
| `safety` | row ownership, no double application, the inductive invariant with its types, interrupts, the quota circuit, the refinement of `LaneExecutor` | 4 ids, 2 human acts, 1 fault | 1.3 million |
| `stop` | a stop always ends the process and is final | 7 ids, 1 human act, 1 stop | 10.8 thousand |
| `drains` | both lanes drain | 8 ids, 1 human act, 1 fault | 464 thousand |
| `lifecycle` | one issue: done means merged, merges are authorised, reworks are bounded | six configurations, 2 human acts, 1 crash or failed run, 2 reviews, 2 approval requests, 2 branch states | 2.0 million |
| `siblings` | two issues: the primary branch stands on its dependencies, and the lifecycle implements `Delivery` | independent and dependent, 2 human acts, 2 approval requests each | 1.1 million |
| `polls` | the mirror and the tasks follow the remote | both sorts of remote, a seed of one commented entry and one pull request, 2 writes during any poll, 1 crash or failed request | 100 thousand |
| `approval` | a plan is asked about once, decided once, and its approval stands until it has landed or was given up | recovery on, 1 retry, 2 plans, 2 runs of the worker, 2 human acts, 1 failed script, worker or call and any failed retries, 1 crash | 547 thousand |
| `failures` | error post, retries, orphans, resolve agent | recovery on, 3 retries, 2 runners, 2 human acts, 1 failed call, 1 crash | 652 thousand |
| `runner` | one runner, and commands reach it | 2 pids, 2 processes, 1 command, 1 comment, 1 crash, dead loop, failed or old stamp, or stamp of a work thread | 248 thousand |
| `upgrade` | nothing lost, nothing skipped | 2 interchangeable processes, 3 commands, 1 fault (death, failed move, failed read, torn write), every old version, three old targets | 5.2 million |
| `superseded_gate`, `default_config` | one statement each which the code does not keep | one issue, 3 approval requests; one process | until violated |

*The bounds of `IssueLifecycle`.* Two human acts are an approval and a change of mind
(cancel, reject, guidance), or two gates approved in a row. Two approval requests are a gate
and the one that supersedes it, or a request before the work and a gate after it; a handler
that would post a third is disabled, which only cuts safety behaviours short. Two states
of a branch tell old work from new. `MaxReviews` is the code's default of `max_attempts`.
Faults are 0 in `siblings`, where what is at stake is the other issue's progress. The
configurations of `lifecycle` are reviews and gated merges in every combination, a sign-off
instead of a review, and `auto_implement_issue` off.

*The bounds of `Scheduler`.* `MaxTasks` caps the ids AUTOINCREMENT hands out: `Enqueue` is
disabled at the cap, which in the safety runs only cuts behaviours short. Four ids are an
event, the job it schedules, that job's result and one more of any kind, which is enough
for a second result of the same job (after a crash) and for a teardown in the middle; two
human acts are a close, or a relabelling and a close. In the liveness runs a
disabled `Enqueue` would look like a thread that never moves on, so the cap is above what
any behaviour of the run can use: one label change or close yields an event, a run, a
result, a gate, a second spec task and at most one `resolve` per failure. `MaxAttempts`
bounds how often a run is put back for reasons that do not count as failures (holds,
quota, timeouts): the code has no such bound, and with it the liveness properties say that
nothing *else* keeps a lane from draining. Deadlock is not checked because the system
really stops: a stopped process that nobody restarts after its last budgeted event, or an
id space used up.

*The bounds of the others.* In `polls` two writes are what it takes for one to fall between
two reads and one after them, or to make and unmake something; ids that the seed does not
use let each be a new entry, comment or reaction. In `approval` the second plan is the
revision of the first; two human acts are an objection and a decision, two decisions, or a decision
and the closing of the error post; a script that failed once may fail again when retried, so one
fault and one retry reach the script that is given up. In `failures` three retries (the code's default is five, `recovery.py:50`) reach
`ENGAGE_AFTER_FAILURES` and go beyond it; counts of attempts saturate above them. In `runner` two
pids and two spawns are a runner and its successor or rival; one comment beside one
command by file is enough to have them overlap in either order; a stamp of a work thread
counts against the same bound as the faults, since that run has four liveness branches to
follow. In `upgrade` three commands are two that overlap, and one that finds what they left; the old
targets (`Targets`) are an empty one, one of the baseline with an old log, and one with a marker and a
database whose log is still there. With `recovery.enabled` off
`MCSpecChange_off.cfg` (490 thousand states) and `MCRecovery_off.cfg` (13 thousand) check the
same properties by hand and find no error; there a failed task stays failed: of it `NeverSilent` and
`ApprovalKept` then say nothing, and `ApprovalLands` is excused by the first failure. In
`approval`, with recovery on and within the bound, a script whose retry succeeds lands the
approval. All of them stop when their budgets are used up, hence no deadlock check.

*Fairness.* `Scheduler` (`FairSpec`): weak fairness of each thread's own steps (the loops
never block except in a heavy job), of the process exit once both threads are gone, of the
clock, and of the quota window (`_quota_circuit_open` closes it by time). Not assumed: that
an agent or git ends (`JobEnds`), that people act, that the process is restarted.
`WorkDrains` names `WF_vars(JobEnds)` as its hypothesis; `StopTerminates` and
`ControlDrains` hold without it. `TrackerSync`: the control loop, one thread, takes
infinitely many steps, and the console finishes what it began; people owe nothing.
`SpecChange`: both loops go on, the worker ends or reaches its time limit, delays pass.
`Recovery`: the lane goes on
while the process lives, it claims by age so that neither of its two rows waits for ever
for the other (strong fairness of the two claims, which a crash interrupts), delays pass and
a dead process is restarted. `RunControl`: each process' own steps, the end of a stamp that its work
thread began among them; that its work loop ends after a stop is what `StopTerminates` shows. `IssueLifecycle` and `Migration`: safety only.

*Operators whose names start with `Bug`* are faulty variants of the definition after
them: a dropped guard, a missing reset, an upsert for an update. Each property is known to
fail when the one variant made for it replaces the definition, which shows that the
property depends on that piece of the code.

## 4. What is proved

For every value of the constants: any set of posts, issues or processes, any number of ids,
retries, runners, plans, commands, faults and crashes, any configuration and dependencies.
The assumptions are that bounds are naturals, that no old target has a database's log without the
database, and that a name for "nobody" or "no post" is none
of the processes or posts (`QueueAssumption`, `SchedulerAssumption`, `SpecChangeAssumption`,
`RecoveryAssumption`, `RunControlAssumption`, `MigrationAssumption`), that an agent's chain has a
runner (`RecoveryAssumption`), that configurations, words and signals are among those the
code knows (`LifecycleAssumption`), and that both trackers start as one store whose foreign keys
hold and whose times are past, with ids that tell entries from comments (`SyncAssumption`).
`EqualTimesEqualThreads` has a hypothesis of its own, that the remote's clock never shows two
writes the same time (`~Coarse`): so it is for the local tracker, and without it
`MCTracker_same_second.cfg` shows what goes wrong.

| theorem | says |
| --- | --- |
| `Safety` | `Spec => []SafetyInv` |
| `TypeCorrect`, `NoTaskLost`, `NoInterruptLost`, `NoDoubleApply` | its parts `TypeOK`, `InProgressOwned`, `InterruptReaches`, `AppliedOnce` |
| `StopFinal`, `QuotaHolds` | `StopIsFinal`, `QuotaParksWork` of `Scheduler` |
| `Refinement` | `Spec => ImplementsLanes` |
| `DeliveryImplemented` | `Spec => ImplementsDelivery` |
| `DeliveryPromises`, `PrimaryAlwaysStands` | `Delivery` keeps its promise; hence `PrimaryStands` of `IssueLifecycle` |
| `LifecycleTypes`, `DoneOnlyMerged`, `MergesAreSigned`, `DependenciesComeFirst`, `ReworksAreBounded` | `TypeOK`, `DoneIsMerged`, `MergeAuthorised`, `DependenciesFirst`, `ReworksBounded` of `IssueLifecycle` |
| `PostIsUnique`, `RetriesAreCapped`, `ClosingStops`, `FailureIsReported`, `PostIsSettled`, `AgentIsAlone` | `OnePost`, `RetriesCapped`, `ClosedStops`, `NeverSilent`, `PostsSettle`, `OneAgent` of `Recovery` |
| `EqualTimesEqualThreads`, `ReportedOnce`, `TasksStayCurrent` | `StampsTell`, `ToldOnce`, `TasksCurrent` of `TrackerSync` |
| `SpecChangeTypes`, `AskedOnlyOnce`, `DecidedOnlyOnce`, `ApprovalIsKept` | `TypeOK`, `AskedOnce`, `DecidedOnce`, `ApprovalKept` of `SpecChange` |
| `RunControlTypes`, `OneRunnerServes` | `TypeOK`, `OneRunner` of `RunControl` |
| `MigrationTypes`, `NothingDeleted`, `ShapeIsCurrent`, `NothingShadowed` | `TypeOK`, `OldKept`, `CurrentShape`, `NotShadowed` of `Migration` |
| `IssueInvAlways`, `SafeAlways`, `InvAlways`, `MigrationInv` | the inductive invariants these rest on |

*Why the scheduler's invariant is what it is.* None of the properties is inductive alone.
`InProgressOwned` needs to know that the row a thread finishes is its own, and that no other
thread holds it; the row may have been deleted under it, so `HeldInv` allows "absent" and
then everything about the row comes from the thread's copy: it is still the same claim
(`attempts` agrees). `InterruptReaches` identifies a run by row *and attempt*; it survives
a claim only if nobody can have asked for the interrupt of a claim still to come
(`InterruptInv`), which rests on attempts never decreasing and ids never being reused
(`IdsInv`). `AppliedOnce` needs to know where a run's result is (`ResultInv`): not yet
written, in its file, being applied, or applied, never in two of these; the deletion of
the file *before* the application is what makes it true, and what makes
`ResultDigested` false.

*How the proof is cut.* Steps that neither take a row up nor let one go (`QuietStep`) are
treated once: they keep every thread's hold and change the table by at most one enqueue,
one deletion or the passage of time (`QuietStepKeepsHolds`). Claim, finish, recovery, death
and restart are the remaining cases. Each conjunct of the invariant is one lemma over that
split. The refinement reuses it: quiet steps are invisible or withdraw a deleted task, a
claim starts one, a finish ends one, a death cuts all runs off.

*Why nothing is deleted.* `OldKept` is not inductive: the directory is removed by a process
whose list of files is empty, and the list was taken when the relocation began. The invariant
(`Listed`) says that every file still in the old directory is on the list of every process
that relocates. It holds because nothing ever moves back into the directory, and because a
process takes a file off its list only when the file is elsewhere: a move that fails or finds
nothing ends the relocation instead. Each action is then one of four: it begins a relocation,
takes one file off one list, removes the directory, or leaves its process elsewhere
(`Elsewhere`). Types need one more fact, that a process between a hop and its marker has not
passed the engine's version (`HopsEnd`).

*Why what is opened is current, and all there is.* `CurrentShape` speaks of the moment a runner
opens files, `ShapeInv` of the way there: while commands do not overlap there is one busy
process (`OneBusy`), and a marker or a place in the chain tells only of hops whose files are
current or spoilt (`Tells`, `Told`), since the marker is written after its hop and a torn one is
below every version. A hop that was missed is in `mishaps` before its marker is written, so the
exception is one file and not the whole chain: a spoilt queue does not excuse the configuration. That
content is gone only where an accident says so is `Gone`.
`NotShadowed` needs to know what is left to do at each point (`AllMovedInv`): the list of a
process that relocates is exactly what is still in the old directory, and the hop that moves
files has put each of the user's where it belongs before it goes on to the next, because without
an accident none was made before it that it would not clobber. The old log is no part of it:
`run` makes a new one first.

*Why a merge is signed for and a done issue merged.* A signal is read in the mirror, a merge is
decided by a handler, queued, perhaps requeued after a crash, and done by another thread.
`SignedInv` follows it: whoever has left a signature, on the remote or in a mirror that may be
late, is in `signed`, which only grows; a queued or running job that will merge is about an issue
in it. The lemmas about handlers (`Sound`) say that what a handler makes of an entry invents no
signal and no `done`, and schedules a merge only where a signal backs it or merges are not gated.
`MergedInv` says that a job past its merge has `merged = branch`, because no agent works while
a git job does, and that whatever reads `done`, in the mirror too, is merged; hence `OrderInv`,
that what a queued implementation depends on is merged, however old the mirror that let it be
queued.

*Why the lifecycle is `Delivery`.* A step changes at most one of what the mapping shows: the
work thread's agent, the primary branch, or what the remote calls done (`OneAspect`). So each
kind of step is looked at once. An implementation begins only on merged dependencies, which is
`OrderInv`; a label `done` comes from nobody but the job that has merged (`DoneMoves`, on
`MergedInv`), a merge is signed for (`SignedInv`). One fact was missing (`BuiltInv`): a review finds
the branch that an implementation made, else `Begin` would have to explain a branch that appears
while nobody builds. `Delivery`'s promise is then a short invariant, proved where
there are no handlers to look at (`DeliveryPromises`): what has a branch depends on merged issues only,
and nothing takes a merge back. The lifecycle inherits it.

*Why reviews end.* The count of reviews is read in the mirror, which may lack the newest one, so
`reworks <= reviews` of the mirror is not an invariant. `CountInv` says that it holds when it
matters: as soon as a review is pending, running or undigested. Between a rework and the sync
that shows its review no new one can be scheduled: the mirror's `in_review` is stale
by the remote, and the work lane starts nothing before the events are drained
(`Quiet`). `SoleInv` adds that an issue has one run at a time. The proof failed first, and rightly:
where an issue has dependencies its events are put off and come back later, and where its labels
doubled (todo beside in_review) such an event finds its status on the remote again after
the rework. TLC has a behaviour of 41 states in which the count is then read once too often.
`ReworksBounded` therefore speaks of issues without dependencies, or with one label in the mirror.

*Why recovery is consistent.* `Safe` has one conjunct per property, each with the places of the
lane where it is in the making. A retry is paid for by an attempt of its own (`RetryInv`): attempts
may grow by holds and crashes as well, retries never outgrow them. A job that has a post executes
on a second attempt or later (`PostInv`), so the gate, which lets a first attempt through
unseen, always looks at the post. After the post was closed only a run past the gate goes on (`ClosedInv`). What is
alive is the child the lane waits for or, after a crash, the one the ledger names
(`AgentInv`). The proof attempt showed a mistake of the model: two `CASE` expressions of
`Recovery` had arms that overlapped, which the code's chain of `if` and `elif` does not; they
are chains of `IF` now.

*Why a plan is asked about and decided once.* `AskInv`: a plan is posted only while it is not among
the tokens of the thread, and is among them from then on. `DecideInv`: while a decided plan is the
latest, the request keeps a terminal label, so a second decision needs a second label to be
misled by, or a guard that read nothing (`blind`), or a label call that failed (`unmarked`); only
`Park` takes the terminal label away, and it follows a new plan, whose request may have been lost. The types of the
lane need to know where its rows come from (`LaneInv`): a crash, a stopped script and recovery put back
what the control thread carries. A sync filters the lane with a recursive function (`Kept`); that it is
defined for every length, and yields tasks, is an induction over the set of lengths for which it
does (`UpTo`), since the library's induction theorems take an operator, which the provers cannot
instantiate.

*Why an approval is kept.* The relabelling to `done` and the enqueue of the script are two steps, so
`ApprovalKept` follows the approval from the one to the other and then through the lane. There a
sync rewrites the lane: what it supersedes are events, and every other row is still there afterwards
(`KeptKeeps`, by the same induction). A script that fails goes back to the lane only while recovery
requeues it; a row that leaves the lane otherwise is in `dropped`, and `Justified` says that each
of these left for one of recovery's reasons. `done` comes from `Label` alone, people's labels
being others. A crash between two steps is the other exception, and the property names it: the
row of the event runs again, finds the request already terminal, and nothing enqueues the script.

*Why a poll may skip a thread.* The difficulty is that the remote is written between any two
reads. So the remote moves first: each of its writes is shown to be one kind of step
(`RemoteMoved`) that keeps rows or deletes them, gives new rows new ids, and gives every entry
whose row or thread it changes a time later than all before. `KnowInv` says what the mirror and a
half-read poll know of it under such steps: where two stores have a row in common it is the
same row, a poll has threads of the entries it got and no others, and what was there when it
began and still is, it does not miss. `StampInv` is the property itself, of the mirror and of
what the poll has read so far: an entry read before its thread has the older time, so a write in
between leaves it behind the remote's, and the next poll reads it again. The commit mixes both
(the entries it skipped from the mirror, the others from the poll), and `SkipsOld` says the
skipped ones had the same time in both.

*Why nothing is reported twice.* `ToldInv`, part of `KnowInv`: what was reported is in the mirror for
as long as the remote or a poll has it. A commit could break it by dropping a comment whose
entry the poll did not see; then the foreign keys of the transaction fail and it is rolled back.

*Why tasks are current.* `TaskInv` holds between deliveries too: a pending task tells of the mirror
as it is, or a change still to be delivered takes it away (`Kills`); and a change that will
become a task is only made stale by one of a later rank, so the order of
`_sync_from_provider_remote` matters. That each loss of a row is reported, the cascades' included, needs
`TableInv`: labels are read no later than the tags that name them, so a tag the foreign keys
drop is one of an entry that goes; and a poll compares the threads of every entry that goes.

*Why one runner serves.* `AloneInv`: unless a process looked at the wrong moment (`raced`), whoever
serves is alone and, while its last stamp is whole, is the one `runner.json` names, old as the stamp
may be; a process that finds such a name does not start. A stamp stops being whole when one of the
threads empties the file, and is whole again only when none is in the middle of writing: that is
what `stamped` follows, since of two threads' stamps the one that ends first proves nothing.

*Why the quota circuit parks.* The circuit is looked at before the claim, in another step. It is
safe because only a job of the work lane can end for quota (`QuotaInv`), and the thread that looks
is the one that would run it.

*Only model-checked.* The liveness properties, which need fairness (`StopTerminates`,
`ControlDrains`, `WorkDrains`, `Converges`, `Heard`, `ApprovalLands`, `TriedAgain`, `StopLands`,
`CommandHeard`).

## 5. Where the code and its documentation disagree

Two disagreements are runs:

* `superseded_gate`: which gate decides is looked up by kind. While a conversation holds a
  pure merge gate, however old, `resolve_approval` reads that one and never a combined gate
  (`advance.py:822-823`): an approval of the old gate merges work reviewed later, and
  reactions on the new gate do nothing, against `advance.py:252-254` and `:805-806`.
* `default_config`: `specseed add` and the console's set-up write the configuration without
  migrating first (`specseed.py:219` and `:225`, `src/src/ui/server.py:1257-1279`). On old
  data they write the defaults, which the hop of 0.21.0 then does not clobber: the user's
  own configuration stays aside, against `m_0_20_0__0_21_0.py:3-12` and `executing/run.py:80`.

The others can be seen by hand, with `tlc -config <cfg> <module>`:

| cfg, module | property | what the code does |
| --- | --- | --- |
| `MCScheduler_running_row.cfg`, `MCScheduler` | `RunningRowKept` | `_supersede` and `_teardown_post` delete, by id, a row they saw pending in an earlier transaction; the work thread may have claimed it since. Against `sync_to_db.py:20`, `scheduling/README.md:59`. |
| `MCScheduler_result_lost.cfg`, `MCScheduler` | `ResultDigested` | `process_work_result` deletes the outcome file before it applies it, and swallows the transition's exceptions: a failed write or a crash loses the run. Against `work_runner.py:316`, `:342`. |
| `MCScheduler_changes_lost.cfg`, `MCScheduler` | `ChangesBecomeTasks` | The mirror is committed before the differences are queued; a crash or an exception in between loses them. Against `scheduling/README.md:6-8`. |
| `MCIssues_applies.cfg`, `MCIssues` | `RunApplies` | A queued run is judged stale by comparing the mirror with the remote (`advance.py:133-136`), not by what it was queued for. After a sync has copied a new status, `wont_do` for one, the two agree and the agent starts. Against `work_runner.py:134-137`, "Skip a stale implement/review rather than run an agent on work that no longer applies". |
| `MCIssues_terminal.cfg`, `MCIssues` | `TerminalIsFinal` | A result is judged stale by comparing the remote with the mirror, not with the status its run was started for: an issue relabelled `wont_do` while its agent works comes back to life. Against `state_machines/base.py:25`, `:481`, `work_runner.py:134-137`. |
| `MCIssues_sign_off.cfg`, `MCIssues` | `SignOffCompletes` | Where an issue needs a sign-off and no review, approving the finished work sends it back to `todo` (`advance.py:907-914`), against the request itself (`:590-591`). With an `approve <id>` comment, which never expires, work and sign-off alternate for ever. |
| `MCTracker_same_second.cfg`, `MCTracker` | `Converges` | On a remote whose clock shows two writes the same time, the second is never seen: threads are compared only when `updated_at` differs. `tracking_local.py:56` avoids this for the local remote; nothing does for a hosted one. |
| `MCRecovery_silent.cfg`, `RecoveryProperties` | `EveryFailureReported` | A worker that raises is requeued at once and for ever, with no post. Against `recovery.py:3-13`. |
| the same with `INVARIANT OwnSession` and `Chain = 2` | `OwnSession` | The session a fallback runner leaves behind is resumed by the primary one on the next run, against the comment in `agent_runner.py` the property quotes. |
| `MCSpecChange_unapproved.cfg`, `SpecChangeProperties` | `OnlyApprovedLive` | The staged spec is promoted as it is in the directory at that moment; a worker run woken by an earlier comment may have rewritten it since the approval. Against `advance.py:1189-1190`. |
| `MCSpecChange_blind.cfg`, `SpecChangeProperties` | `OneApply` | The guard against a second approval reads the remote; a read that fails reads as no status, and the guard lets the event pass (`advance.py:1127-1133`, `:1250-1252`): a reaction and a comment that approve one plan enqueue its script twice. Against `advance.py:1173-1176`, "only ONE apply is tagged". |
| `MCRunControl_replayed.cfg`, `RunControlProperties` | `CommandFiresOnce` | The cursor over CONTROL comments is that of the process (`control.py:175`): each new runner obeys the old commands again, a `stop` included. Against `control.py:13-14`, `scheduler.py:251-252`. |
| `MCMigration_log.cfg`, `MigrationProperties` | `OldLogMoved` | `run` opens `logs/platform.log` (`run.py:252-253`) before it migrates (`:261`), so the hop that never clobbers (`m_0_20_0__0_21_0.py:57`, `:75-77`) leaves the old flat log where it is, at every upgrade made by `run`. Against `m_0_20_0__0_21_0.py:3-4`, "moves every repo's data". |
| `MCMigration_sidecar.cfg`, `MigrationProperties` | `SidecarFollows` | A process that dies between the move of a database and that of its `-wal` leaves the log behind for good: the next run sees the database in place. Against `m_0_20_0__0_21_0.py:80-81`. |

Smaller ones have no configuration. The work loop's check of the control lane and its claim
are two steps, and a result that is being processed is not pending, so a job can start
before the last one's result is digested, against `scheduler.py:341-344`; the models keep
the two steps apart. `priorities.py` documents `CONTROL_SPEC_CHANGE_APPLY`,
`CONTROL_APPROVAL` and `CONTROL_TEARDOWN`, but no caller of `enqueue` uses them. The docstring
of `resolve_approval` (`advance.py:809`) has a declined merge "settle done"; the code parks it
`awaiting_merge`, and `DoneIsMerged` would fail otherwise. A reaction's task is filed under
the number of its comment, and a teardown takes every task filed under the number of the entry:
it also sweeps a pending reaction, an approval perhaps, on whatever comment has that number. The
comment at `sync_to_db.py:254-255` knows of such collisions, and `:257` guards the other
direction only. `ExactlyOne` (`executing/run.py`:
"Exactly one runner per storage") fails when a process looks for an owner while the one there has
no whole stamp on file: it has yet to make the first, is in the middle of one (`write_runner_status`
is a plain `write_text`, `runner_control.py:93-100`, and an empty file reads as no owner, `:59-64`), or
the last one failed. `OneRunner` is what holds.

The models also show what no document rules out:

* issues: a person's relabelling during a git job leaves two status labels; the agent of a
  closed issue is requeued after the teardown and runs again; the branch of an issue that is
  done may get commits from a run that was already scheduled; a queued review that an event left
  behind while a gate job was pending outlives a block and the guidance that lifts it, takes the place
  of the implementation then asked for (`_has_pending_work_job`, `dispatch.py:248-265`, looks at the
  action only), and if it asks for changes the issue stays `todo` with nothing under way
  (`NotStranded`, 27 states, `MCIssues_stranded.cfg`); where events are held for a
  dependency, two status labels let a review send an issue back once too often (section 4);
* spec changes: a crash between the approval request and the parking leaves a request that
  is never parked, one between the `done` label and the enqueue an approved plan whose script
  never runs (`ApprovalLands` names both crashes); two status labels defeat the look at the
  remote, and so does a failed call; closing the request by hand sweeps a queued script; a script
  whose retries are used up leaves a request that reads done and is open, with nothing created;
* recovery: holds, quota parks and kills use up retries, while a job that always times out
  is put back for ever; a stop during the resolve agent's run loses the engagement; a
  crash between a child's birth and its record leaves it unknown to `reclaim`;
* run control: a pause by file, a start by comment and a second pause by file leave the runner running,
  because the file's value has not changed; a `start` while the old process winds down does
  nothing;
* migration: a hop that cannot read its file, or died while rewriting it, is marked as applied
  without a word, and the file keeps the old shape, or is empty, for good; a configuration read
  before another process moves the old one overwrites it; the relocation never resumes, so a failed move, or a second command at the
  same time, leaves the rest inside the target; a death between the removal of the old
  directory and the registry's update leaves a record that points at nothing.

## 6. Not modelled, and the plan

In this order.

1. Liveness of `IssueLifecycle`: a gate that stays approved is acted on, or the issue is
   blocked.
2. Roll-up of issues to tickets and epics, draft adapt posts, the assignment gate, the
   options prompt; comment edits.
3. The working tree of the repository across a crash; the registry's document, which two
   processes read, change and write (`registry.py:108`: a file read while it is being
   written counts as empty, and is then saved as such).

Left out for good: the formats and rate limits of HTTP services (their failures appear as
faults; a request has no time limit in the code, so a call that hangs looks like a stale
stamp in `RunControl`), prompts, dashboards and logs (text), the questions of the
configuration wizard, and the console's views.
