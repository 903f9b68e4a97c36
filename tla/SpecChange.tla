----------------------------- MODULE SpecChange -----------------------------
(***************************************************************************)
(* One spec-change request, from the first run of the worker to the work   *)
(* it creates: executing/dispatch.py (who runs the worker, what follows a  *)
(* run, propose_spec_change, run_spec_change_script), executing/advance.py *)
(* (resolve_spec_change_request) and scheduling/spec_change.py.            *)
(*                                                                         *)
(* The worker is an agent: it rewrites the request's directory (plan.json, *)
(* apply.py and the staged spec) and ends.  The runtime judges what it     *)
(* finds there, posts the plan with an approval request, and runs the      *)
(* directory's script when a person has approved.  The control lane is one *)
(* thread; the worker runs beside it, people act at any time.              *)
(*                                                                         *)
(* A plan is the number of its approval token; a worker that revises a     *)
(* plan takes a fresh one, as its instructions demand.                     *)
(*                                                                         *)
(* A call of the tracker that fails is not raised: the code goes on as if  *)
(* it had succeeded, or as if it had read nothing.                         *)
(***************************************************************************)
EXTENDS Naturals, Sequences, FiniteSets

CONSTANTS
  MaxPlans,   \* bound: plans the worker writes
  MaxRuns,    \* bound: runs of the worker
  MaxHuman,   \* bound on what people do
  Enabled,    \* config.recovery.enabled
  MaxRetries, \* config.recovery.max_retries
  MaxFaults,  \* bound on failed scripts, failed workers and failed calls
  MaxCrashes  \* bound on crashes

ASSUME SpecChangeAssumption ==
  /\ Enabled \in BOOLEAN
  /\ {MaxPlans, MaxRuns, MaxHuman, MaxRetries, MaxFaults, MaxCrashes} \subseteq Nat

VARIABLES
  remote,    \* the request on the tracker
  mirror,    \* the local copy, as the last sync left it
  queue,     \* control lane: pending tasks about the request, oldest first
  control,   \* what the control thread executes
  worker,    \* the work lane's job for the request
  dir,       \* the request's directory: the plan in it and what kind of plan it is
  live,      \* the plans whose staged spec was copied into the live spec
  created,   \* history: the plans whose script created work
  approved,  \* history: the plans a person approved when asked about them
  refused,   \* history: the plan asked about when the request was rejected
  finals,    \* history: how often the approval of a plan enqueued the script
  posted,    \* history: how often the approval request of a plan was posted
  dropped,   \* history: approved scripts that will not be tried again, as they were then
  unmarked,  \* history: plans whose decision the labels may not show
  unclosed,  \* history: did a call that closes the request fail
  budget     \* what is left of the bounds

tracker == <<remote, mirror>>
files   == <<dir, live>>
slips   == <<dropped, unmarked, unclosed>>
history == <<created, approved, refused, finals, posted, slips>>
vars    == <<tracker, queue, control, worker, files, history, budget>>

----------------------------------------------------------------------------
(* What the handlers look at *)

Plans      == 1..MaxPlans
Statuses   == {"awaiting_input", "awaiting_approval", "done", "rejected"}
Terminal   == {"done", "rejected"}
EventKinds == {"label", "comment", "reaction"}
RowKinds   == {"result", "propose", "direct", "final"}
Posts      == {"none", "open", "closed"}

\* A row of the lane: how often it was claimed, whether it is due, its error post.
Tasks == [kind: EventKinds \cup RowKinds, tries: Nat, due: BOOLEAN, post: Posts]

Row(kind) == [kind |-> kind, tries |-> 0, due |-> TRUE, post |-> "none"]

\* A proposal creates work, or edits the spec alone; a clarification round asks.
Proposals == {"work", "spec"}

\* The request: its status labels, the plans asked about and the latest of them, the
\* plans that comments approve or reject, reactions on the latest request, prose.
Request == [labels: SUBSET Statuses, open: BOOLEAN, asks: SUBSET Plans, last: {0} \cup Plans,
            yes: SUBSET Plans, no: SUBSET Plans, up: BOOLEAN, down: BOOLEAN, spoken: Nat]

\* _spec_change_status: some status label, were there several
Readings(r) == IF r.labels = {} THEN {"none"} ELSE r.labels

BugApprovedBy(r) == r.yes \cap r.asks # {}

\* Every token ever asked for stays a live target of comments; a reaction counts on
\* the latest request alone.
ApprovedBy(r) == r.yes \cap r.asks # {} \/ r.up
RejectedBy(r) == r.no \cap r.asks # {} \/ r.down

\* A parked request wakes on a comment only, a finished one never.
Actionable(status, kind) ==
  CASE status \in Terminal                                -> FALSE
    [] status \in {"awaiting_input", "awaiting_approval"} -> kind = "comment"
    [] OTHER                                              -> TRUE

Pending       == {queue[i].kind : i \in DOMAIN queue}
HasPendingRun == Pending \cap {"propose", "direct", "final"} # {}
HasWorkJob    == worker.pc # "none"

\* yes: approved or rejected; blind: the guard could not read the tracker
Idle     == [pc |-> "idle", task |-> Row("none"), yes |-> FALSE, blind |-> FALSE]
NoJob    == [pc |-> "none", wrote |-> FALSE]
Spend(b) == budget[b] > 0 /\ budget' = [budget EXCEPT ![b] = @ - 1]

\* A request has just been labelled, and the event is queued.
Init ==
  /\ remote = [labels |-> {}, open |-> TRUE, asks |-> {}, last |-> 0, yes |-> {}, no |-> {},
               up |-> FALSE, down |-> FALSE, spoken |-> 0]
  /\ mirror = remote
  /\ queue = <<Row("label")>>
  /\ control = Idle /\ worker = NoJob
  /\ dir = [plan |-> 0, kind |-> "none"] /\ live = {}
  /\ created = {} /\ approved = {} /\ refused = {}
  /\ finals = [p \in Plans |-> 0] /\ posted = [p \in Plans |-> 0]
  /\ dropped = {} /\ unmarked = {} /\ unclosed = FALSE
  /\ budget = [plans |-> MaxPlans, runs |-> MaxRuns, human |-> MaxHuman,
               faults |-> MaxFaults, crashes |-> MaxCrashes]

----------------------------------------------------------------------------
(* People *)

Acts ==
  /\ Spend("human") /\ remote.open
  /\ UNCHANGED <<mirror, queue, control, worker, files, created, refused, finals, posted, slips>>

\* approve or reject the plan asked about last, by a comment or by a reaction
Approve ==
  /\ Acts /\ remote.last # 0
  /\ approved' = approved \cup {remote.last}
  /\ \/ remote' = [remote EXCEPT !.yes = @ \cup {remote.last}]
     \/ remote' = [remote EXCEPT !.up = TRUE]

Reject ==
  /\ Acts /\ remote.last # 0 /\ UNCHANGED approved
  /\ \/ remote' = [remote EXCEPT !.no = @ \cup {remote.last}]
     \/ remote' = [remote EXCEPT !.down = TRUE]

\* an answer, an objection, any prose
Talk == Acts /\ remote' = [remote EXCEPT !.spoken = @ + 1] /\ UNCHANGED approved

CloseByHand == Acts /\ remote' = [remote EXCEPT !.open = FALSE] /\ UNCHANGED approved

\* Closing the error post of a task that waits or runs is the switch that stops its retries.
ClosePost ==
  /\ Spend("human")
  /\ \/ /\ control.task.post = "open"
        /\ control' = [control EXCEPT !.task.post = "closed"] /\ UNCHANGED queue
     \/ \E i \in DOMAIN queue :
          /\ queue[i].post = "open"
          /\ queue' = [queue EXCEPT ![i].post = "closed"] /\ UNCHANGED control
  /\ UNCHANGED <<tracker, worker, files, history>>

----------------------------------------------------------------------------
(* The control thread syncs *)

News ==
  LET Said(r) == <<r.yes, r.no, r.spoken>>  Reacted(r) == <<r.up, r.down>> IN
     {k \in {"label"}    : remote.labels # mirror.labels}
  \cup {k \in {"comment"}  : Said(remote) # Said(mirror)}
  \cup {k \in {"reaction"} : Reacted(remote) # Reacted(mirror)}

\* Faulty variant: an event takes the place of whatever is pending about the request.
BugKept(news) == <<>>

\* an event takes the place of a pending one about the same resource
Kept(news) ==
  LET kept[n \in 0..Len(queue)] ==
        IF n = 0 THEN <<>>
        ELSE IF queue[n].kind \in news THEN kept[n - 1] ELSE Append(kept[n - 1], queue[n])
  IN kept[Len(queue)]

\* the labels before the comments before the reactions, as sync_to_db takes them up
Told(kind, news) == IF kind \in news THEN <<Row(kind)>> ELSE <<>>
Queued(news) ==
  Kept(news) \o Told("label", news) \o Told("comment", news) \o Told("reaction", news)

\* A closed request loses every pending task, and its running job is interrupted.
Sync ==
  /\ control = Idle /\ remote # mirror
  /\ mirror' = remote
  /\ IF mirror.open /\ ~remote.open
     THEN /\ queue' = <<>>
          /\ worker' = CASE worker.pc \in {"pending", "looked"} -> NoJob
                         [] worker.pc = "running" -> [worker EXCEPT !.pc = "killed"]
                         [] OTHER                 -> worker
     ELSE queue' = Queued(News) /\ UNCHANGED worker
  /\ UNCHANGED <<remote, control, files, history, budget>>

----------------------------------------------------------------------------
(* The control thread takes a task *)

\* results first, then the oldest that is due
Next1(i) ==
  /\ i \in DOMAIN queue /\ queue[i].due
  /\ \/ queue[i].kind = "result"
     \/ "result" \notin Pending /\ \A j \in 1..(i - 1) : ~queue[j].due

Without(i) == SubSeq(queue, 1, i - 1) \o SubSeq(queue, i + 1, Len(queue))

\* attempts count where recovery reads them
Claimed(row) == IF row.kind \in {"propose", "direct", "final"} THEN [row EXCEPT !.tries = @ + 1] ELSE row

\* retry_cancelled: somebody closed the error post of a task that ran before
Cancelled(row) == row.tries > 1 /\ row.post = "closed"

LetGo(row, fatal) ==
  dropped' = IF row.kind # "final" THEN dropped
             ELSE dropped \cup {[tries |-> row.tries, post |-> row.post, fatal |-> fatal]}

\* A retry that was cancelled is done without having run; if the lookup fails it runs.
Take(kinds, pc) ==
  /\ control = Idle
  /\ \E i \in DOMAIN queue :
       LET task   == Claimed(queue[i])
           Starts == control' = [Idle EXCEPT !.pc = pc, !.task = task] IN
       /\ Next1(i) /\ queue[i].kind \in kinds
       /\ queue' = Without(i)
       /\ \/ ~Cancelled(task) /\ Starts /\ UNCHANGED <<dropped, budget>>
          \/ Cancelled(task) /\ LetGo(queue[i], FALSE) /\ UNCHANGED <<control, budget>>
          \/ Cancelled(task) /\ Starts /\ Spend("faults") /\ UNCHANGED dropped
  /\ UNCHANGED <<tracker, worker, files, created, approved, refused, finals, posted,
                 unmarked, unclosed>>

TakeEvent   == Take(EventKinds, "event")
TakeResult  == Take({"result"}, "result")
TakePropose == Take({"propose"}, "propose")
TakeScript  == Take({"direct", "final"}, "script")

GoesTo(pc)   == control' = [control EXCEPT !.pc = pc]
Ends         == control' = Idle
Adds(kind)   == queue' = Append(queue, Row(kind))
PutBack(row) == queue' = <<row>> \o queue

----------------------------------------------------------------------------
(* An event: a request that awaits approval is resolved, any other event may *)
(* run the worker again                                                     *)

HandleEvent ==
  /\ control.pc = "event"
  /\ \E status \in Readings(mirror) :
       IF status = "awaiting_approval" /\ (ApprovedBy(mirror) \/ RejectedBy(mirror))
       THEN /\ control' = [control EXCEPT !.pc = "guard", !.yes = ApprovedBy(mirror)]
            /\ UNCHANGED worker
       ELSE /\ Ends
            /\ worker' = IF Actionable(status, control.task.kind) /\ ~HasPendingRun /\ ~HasWorkJob
                         THEN [NoJob EXCEPT !.pc = "pending"] ELSE worker
  /\ UNCHANGED <<tracker, queue, files, history, budget>>

BugResolved(status) == FALSE

\* an earlier task resolved the request already
Resolved(status) == status \in Terminal

\* The status is read from the remote, the mirror being one frame for a whole drain; a
\* read that fails reads as no status, and the resolution goes on.
GuardResolve ==
  /\ control.pc = "guard"
  /\ LET next == IF control.yes THEN "promote" ELSE "relabel" IN
     \/ /\ UNCHANGED budget
        /\ \E status \in Readings(remote) : IF Resolved(status) THEN Ends ELSE GoesTo(next)
     \/ Spend("faults") /\ control' = [control EXCEPT !.pc = next, !.blind = TRUE]
  /\ UNCHANGED <<tracker, queue, worker, files, history>>

\* the staged spec, as it is in the directory now
PromoteStaged ==
  /\ control.pc = "promote"
  /\ live' = IF dir.kind \in Proposals THEN live \cup {dir.plan} ELSE live
  /\ GoesTo("relabel")
  /\ UNCHANGED <<tracker, queue, worker, dir, history, budget>>

\* The label of the status the snapshot knows goes, if the call succeeds ...
Unlabel ==
  /\ control.pc = "relabel" /\ GoesTo("label")
  /\ \E known \in Readings(mirror) :
       \/ /\ remote' = [remote EXCEPT !.labels = @ \ {known}]
          /\ unmarked' = IF known \in Terminal THEN unmarked \cup {remote.last} ELSE unmarked
          /\ UNCHANGED budget
       \/ /\ known # "none" /\ Spend("faults")
          /\ unmarked' = unmarked \cup {remote.last} /\ UNCHANGED remote
  /\ UNCHANGED <<mirror, queue, worker, files, created, approved, refused, finals, posted,
                 dropped, unclosed>>

\* ... and the new one comes, if that call does.
Label ==
  /\ control.pc = "label" /\ GoesTo(IF control.yes THEN "enqueue" ELSE "close")
  /\ \/ /\ remote' = [remote EXCEPT !.labels = @ \cup {IF control.yes THEN "done" ELSE "rejected"}]
        /\ UNCHANGED <<unmarked, budget>>
     \/ Spend("faults") /\ unmarked' = unmarked \cup {remote.last} /\ UNCHANGED remote
  /\ refused' = IF control.yes THEN refused ELSE refused \cup {remote.last}
  /\ UNCHANGED <<mirror, queue, worker, files, created, approved, finals, posted, dropped, unclosed>>

\* the script of the plan in the directory; spec edits alone leave nothing to run
EnqueueApply ==
  /\ control.pc = "enqueue"
  /\ IF dir.kind \in {"work", "question"}
     THEN /\ Adds("final") /\ finals' = [finals EXCEPT ![remote.last] = @ + 1]
          /\ Ends
     ELSE GoesTo("close") /\ UNCHANGED <<queue, finals>>
  /\ UNCHANGED <<tracker, worker, files, created, approved, refused, posted, slips, budget>>

\* A close that fails is not repeated.
CloseRequest ==
  /\ control.pc = "close" /\ Ends
  /\ \/ remote' = [remote EXCEPT !.open = FALSE] /\ UNCHANGED <<unclosed, budget>>
     \/ unclosed' = TRUE /\ Spend("faults") /\ UNCHANGED remote
  /\ UNCHANGED <<mirror, queue, worker, files, created, approved, refused, finals, posted,
                 dropped, unmarked>>

----------------------------------------------------------------------------
(* The result of a run: what follows is read off the directory *)

BugClassify(kind) == IF kind \in Proposals THEN <<Row(kind)>> ELSE <<>>

\* a proposal gates, a clarification round asks at once, anything else is no plan
Classify(kind) ==
  CASE kind \in Proposals  -> <<Row("propose")>>
    [] kind = "question"   -> <<Row("direct")>>
    [] OTHER               -> <<>>

FollowUp ==
  /\ control.pc = "result"
  /\ queue' = queue \o Classify(dir.kind) /\ Ends
  /\ UNCHANGED <<tracker, worker, files, history, budget>>

----------------------------------------------------------------------------
(* A proposal: the plan and the approval request are posted, the request parks *)

BugAlreadyAsked(p) == remote.labels = {"awaiting_approval"}

AlreadyAsked(p) == p \in remote.asks

\* A directory without a token fails for good; a request that cannot be read is tried
\* again; a posted plan is a no-op.  A comment that is lost parks the request all the same.
Propose ==
  /\ control.pc = "propose"
  /\ \/ /\ dir.plan = 0 \/ AlreadyAsked(dir.plan)
        /\ Ends /\ UNCHANGED <<remote, posted, unmarked, budget>>
     \/ /\ dir.plan # 0 /\ GoesTo("failed") /\ Spend("faults")
        /\ UNCHANGED <<remote, posted, unmarked>>
     \/ /\ dir.plan # 0 /\ ~AlreadyAsked(dir.plan) /\ GoesTo("park")
        /\ \/ /\ remote' = [remote EXCEPT !.asks = @ \cup {dir.plan}, !.last = dir.plan,
                                           !.up = FALSE, !.down = FALSE]
             /\ posted' = [posted EXCEPT ![dir.plan] = @ + 1]
             /\ UNCHANGED <<unmarked, budget>>
           \/ /\ unmarked' = unmarked \cup ({remote.last} \ {0}) /\ Spend("faults")
             /\ UNCHANGED <<remote, posted>>
  /\ UNCHANGED <<mirror, queue, worker, files, created, approved, refused, finals, dropped, unclosed>>

\* Every other status label goes and the new one comes; some of the calls may fail.
Park ==
  /\ control.pc = "park" /\ Ends
  /\ \/ remote' = [remote EXCEPT !.labels = {"awaiting_approval"}] /\ UNCHANGED budget
     \/ /\ Spend("faults")
        /\ \E gone \in SUBSET (remote.labels \ {"awaiting_approval"}),
              put \in SUBSET {"awaiting_approval"} :
             remote' = [remote EXCEPT !.labels = (@ \ gone) \cup put]
  /\ UNCHANGED <<mirror, queue, worker, files, history>>

----------------------------------------------------------------------------
(* A script: it reads the directory when it starts *)

\* A clarification round labels the request awaiting_input, and may take its other
\* status away.
Asked(r) ==
  {[r EXCEPT !.labels = (@ \ ls) \cup {"awaiting_input"}] : ls \in {{}, {"awaiting_approval"}}}

ScriptRuns ==
  /\ control.pc = "script"
  /\ remote' \in IF dir.kind = "question" THEN Asked(remote) ELSE {remote}
  /\ created' = IF dir.kind = "work" THEN created \cup {dir.plan} ELSE created
  /\ IF control.task.kind = "final" THEN GoesTo("close") ELSE Ends
  /\ UNCHANGED <<mirror, queue, worker, files, approved, refused, finals, posted, slips, budget>>

\* before or after the work is created
Breaks ==
  /\ control.pc = "script"
  /\ created' \in {created, IF dir.kind = "work" THEN created \cup {dir.plan} ELSE created}
  /\ UNCHANGED <<tracker, worker, files, approved, refused, finals, posted, slips>>

\* It is stopped, or times out: it is pending again at once.
ScriptStopped == Breaks /\ Spend("faults") /\ PutBack(control.task) /\ Ends

\* It exits with an error, or the handler dies of its output: the task has failed. A retry
\* may fail as the first try did, which the bound on faults does not count.
ScriptRaises == Breaks /\ Spend("faults") /\ GoesTo("raised") /\ UNCHANGED queue

ScriptFails ==
  /\ Breaks /\ GoesTo("failed") /\ UNCHANGED queue
  /\ \/ Spend("faults")
     \/ control.task.tries > 1 /\ UNCHANGED budget

----------------------------------------------------------------------------
(* Recovery of a task that failed (the Recovery module has the whole of it) *)

\* no more retries
GivesUp(row) ==
  ~Enabled \/ control.pc = "raised" \/ row.tries > MaxRetries \/ row.post = "closed"

\* on_failure: the error post is looked up or made, and the task put off, or left failed.  A
\* call that fails makes no post, or another one in the place of the closed one.
OnFailure ==
  /\ control.pc \in {"failed", "raised"} /\ Ends
  /\ \E post \in Posts :
       LET row == [control.task EXCEPT !.post = post] IN
       /\ \/ post = (IF control.task.post = "none" THEN "open" ELSE control.task.post) /\ UNCHANGED budget
          \/ post = (IF control.task.post = "none" THEN "none" ELSE "open") /\ Spend("faults")
       /\ IF GivesUp(row)
          THEN LetGo(row, control.pc = "raised") /\ UNCHANGED queue
          ELSE PutBack([row EXCEPT !.due = FALSE]) /\ UNCHANGED dropped
  /\ UNCHANGED <<tracker, worker, files, created, approved, refused, finals, posted,
                 unmarked, unclosed>>

DelayPasses ==
  /\ \E i \in DOMAIN queue : ~queue[i].due
  /\ queue' = [i \in DOMAIN queue |-> [queue[i] EXCEPT !.due = TRUE]]
  /\ UNCHANGED <<tracker, control, worker, files, history, budget>>

----------------------------------------------------------------------------
(* The worker, on the work lane *)

\* The work loop looks whether the control lane is drained, and claims.
WorkLooks ==
  /\ worker.pc = "pending" /\ \A i \in DOMAIN queue : ~queue[i].due
  /\ worker' = [worker EXCEPT !.pc = "looked"]
  /\ UNCHANGED <<tracker, queue, control, files, history, budget>>

ClaimRun ==
  /\ worker.pc = "looked" /\ Spend("runs")
  /\ worker' = [NoJob EXCEPT !.pc = "running"]
  /\ UNCHANGED <<tracker, queue, control, files, history>>

\* a revised proposal under a fresh token, or a question
Writes ==
  /\ worker.pc = "running" /\ ~worker.wrote
  /\ worker' = [worker EXCEPT !.wrote = TRUE]
  /\ \/ /\ Spend("plans")
        /\ \E kind \in Proposals : dir' = [plan |-> MaxPlans - budget.plans + 1, kind |-> kind]
     \/ dir' = [plan |-> 0, kind |-> "question"] /\ UNCHANGED budget
  /\ UNCHANGED <<tracker, queue, control, live, history>>

\* It may end without having written: the same plan, triggered again.
RunEnds ==
  /\ worker.pc = "running"
  /\ worker' = NoJob /\ Adds("result")
  /\ UNCHANGED <<tracker, control, files, history, budget>>

\* Killed by a teardown it is pending again; failed, recovery retries it or gives it up.
RunFails ==
  /\ \/ worker.pc = "killed" /\ worker' = [NoJob EXCEPT !.pc = "pending"] /\ UNCHANGED budget
     \/ /\ worker.pc = "running" /\ Spend("faults")
        /\ worker' \in {[NoJob EXCEPT !.pc = "pending"], NoJob}
  /\ UNCHANGED <<tracker, queue, control, files, history>>

----------------------------------------------------------------------------
(* Death and restart: what was in progress is pending again, and what has failed stays so *)

Crash ==
  /\ Spend("crashes")
  /\ control # Idle \/ worker.pc \in {"looked", "running", "killed"}
  /\ IF control.pc \in {"idle", "failed", "raised"} THEN UNCHANGED queue ELSE PutBack(control.task)
  /\ control' = Idle
  /\ worker' = IF worker = NoJob THEN NoJob ELSE [NoJob EXCEPT !.pc = "pending"]
  /\ UNCHANGED <<tracker, files, history>>

----------------------------------------------------------------------------

People == Approve \/ Reject \/ Talk \/ CloseByHand \/ ClosePost

Control ==
  \/ Sync \/ TakeEvent \/ TakeResult \/ TakePropose \/ TakeScript
  \/ HandleEvent \/ GuardResolve \/ PromoteStaged \/ Unlabel \/ Label \/ EnqueueApply
  \/ CloseRequest \/ FollowUp \/ Propose \/ Park \/ ScriptRuns \/ OnFailure

Work == WorkLooks \/ ClaimRun \/ RunEnds

Script == ScriptStopped \/ ScriptFails \/ ScriptRaises

Next == People \/ Control \/ Script \/ DelayPasses \/ Work \/ Writes \/ RunFails \/ Crash

\* Both loops run for as long as the process does; agents end or are stopped at their
\* time limit, and delays pass.
Spec == Init /\ [][Next]_vars /\ WF_vars(Control) /\ WF_vars(Work) /\ WF_vars(DelayPasses)
=============================================================================
