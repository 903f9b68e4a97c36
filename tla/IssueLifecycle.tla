-------------------------- MODULE IssueLifecycle --------------------------
(***************************************************************************)
(* The life of issues, from todo to a merge into the primary branch:       *)
(* executing/advance.py (statuses, gates, human directives), the work path *)
(* of executing/dispatch.py (intent, gates, branch preparation and merge)  *)
(* and executing/work_runner.py.                                           *)
(*                                                                         *)
(* Control's handlers judge an issue by the local mirror, which only a     *)
(* sync brings up to date, and write to the remote; people and the work    *)
(* lane's git jobs write to the remote meanwhile.  The conversation of an  *)
(* issue is abstracted to what the handlers look for in it.  The queue is  *)
(* that of module Scheduler, seen from outside: what is pending per issue. *)
(***************************************************************************)
EXTENDS Naturals, FiniteSets

CONSTANTS
  Issues,
  Setups,       \* the configurations and dependencies a behaviour may run under
  Words,        \* what people may comment
  Signals,      \* what people may react with, and the commands of the same effect
  MaxReviews,   \* config.review.max_attempts
  MaxApr,       \* bound: approval requests per issue
  MaxWork,      \* bound: states of an issue's branch
  MaxHuman,     \* bound on what people do
  MaxFaults     \* bound on crashes and failed agent runs

ASSUME LifecycleAssumption ==
  /\ Setups \subseteq [review: BOOLEAN, gated: BOOLEAN, hitl: BOOLEAN, auto: BOOLEAN,
                      deps: [Issues -> SUBSET Issues]]
  /\ Signals \subseteq {"approve", "merge", "reject"}
  /\ Words \subseteq {"approve", "merge", "reject", "retry", "guidance"}
  /\ {MaxReviews, MaxApr, MaxWork, MaxHuman, MaxFaults} \subseteq Nat

VARIABLES
  config,   \* review.enabled, merge_to_primary off, hitl.required, auto_implement_issue,
            \* and the issues' "Depends on:" lines: none of these changes
  remote,   \* the issues on the tracker, the source of truth
  mirror,   \* the local copy, as the last sync left it
  pend,     \* control lane: the events about an issue, ready or put off
  results,  \* control lane: results of agent runs not yet digested
  runJob,   \* work lane: the pending work_run of an issue
  gateJob,  \* work lane: the pending work_gate_action of an issue
  work,     \* the job the work lane executes
  branch,   \* git: 0, or the state of the issue's branch
  merged,   \* git: the state of the branch the primary branch contains
  signed,   \* history: people approved or authorised this issue's merge
  reworks,  \* history: how often a review sent this issue back by itself
  budget    \* what is left of MaxHuman and MaxFaults

control == <<pend, results>>
jobs    == <<runJob, gateJob>>
git     == <<branch, merged>>
history == <<signed, reworks>>
vars    == <<config, remote, mirror, control, jobs, work, git, history, budget>>

----------------------------------------------------------------------------
(* Entries, as the handlers read them *)

Statuses   == {"todo", "in_review", "awaiting_approval", "awaiting_merge", "blocked",
               "done", "wont_do"}
Terminal   == {"done", "wont_do"}
GateKinds  == {"ask", "pure", "combined"}
EventKinds == {"label", "comment", "reaction"}

\* The latest comment of a gate's kind: its approval request number (0: there
\* is none) and the reactions on it.
Gate  == [apr: 0..MaxApr, by: SUBSET Signals]
Entry == [labels: SUBSET Statuses, open: BOOLEAN, gate: [GateKinds -> Gate],
          reviews: Nat, said: SUBSET Signals, last: Words \cup {"none"}, spoken: Nat]

\* status_from_labels: some status label, were there several.
Readings(labels)   == IF labels = {} THEN {"none"} ELSE labels
Stale(now, judged) == now # "none" /\ now # judged

\* _set_status removes the labels its snapshot knows of.
SetStatus(e, known, s) == [e EXCEPT !.labels = (@ \ known) \cup {s}]

LastApr(e)    == CHOOSE n \in {e.gate[g].apr : g \in GateKinds} :
                   \A g \in GateKinds : e.gate[g].apr <= n
Ask(e, g)     == [e EXCEPT !.gate[g] = [apr |-> LastApr(e) + 1, by |-> {}]]
HasGate(e, g) == e.gate[g].apr > 0
IsLive(e, g)  == HasGate(e, g) /\ e.gate[g].apr = LastApr(e)

\* Approval of one gate: reactions on its comment, and commands anywhere in
\* the conversation that name the post.
GateSignals(e, g) == e.gate[g].by \cup e.said

\* Approval of a gate that is no merge gate: reactions on the latest request.
PlainSignals(e) == e.said \cup UNION {e.gate[g].by : g \in {h \in GateKinds : IsLive(e, h)}}

Idle == [pc |-> "idle", issue |-> "none", what |-> "none", snap |-> {}, job |-> "none",
         kind |-> "none", rest |-> {}, cut |-> FALSE]

NewEntry == [labels |-> {"todo"}, open |-> TRUE,
             gate |-> [g \in GateKinds |-> [apr |-> 0, by |-> {}]],
             reviews |-> 0, said |-> {}, last |-> "none", spoken |-> 0]

\* Every issue has just been created, and its handle_entry_created is queued.
Init ==
  /\ config \in Setups
  /\ remote = [i \in Issues |-> NewEntry] /\ mirror = remote
  /\ pend = [i \in Issues |-> [k \in EventKinds |-> IF k = "label" THEN "ready" ELSE "no"]]
  /\ results = {}
  /\ runJob = [i \in Issues |-> "no"] /\ gateJob = [i \in Issues |-> "no"]
  /\ work = Idle
  /\ branch = [i \in Issues |-> 0] /\ merged = [i \in Issues |-> 0]
  /\ signed = {} /\ reworks = [i \in Issues |-> 0]
  /\ budget = [human |-> MaxHuman, faults |-> MaxFaults]

Spend(b) == budget[b] > 0 /\ budget' = [budget EXCEPT ![b] = @ - 1]

----------------------------------------------------------------------------
(* People *)

Reacts(i, g, s) ==
  /\ Spend("human") /\ remote[i].open
  /\ HasGate(remote[i], g) /\ s \notin remote[i].gate[g].by
  /\ remote' = [remote EXCEPT ![i].gate[g].by = @ \cup {s}]
  /\ signed' = IF s = "reject" THEN signed ELSE signed \cup {i}
  /\ UNCHANGED <<config, mirror, control, jobs, work, git, reworks>>

Says(i, w) ==
  /\ Spend("human") /\ remote[i].open
  /\ remote' = [remote EXCEPT ![i].said = @ \cup ({w} \cap Signals), ![i].last = w,
                              ![i].spoken = @ + 1]
  /\ signed' = IF w \in {"approve", "merge"} THEN signed \cup {i} ELSE signed
  /\ UNCHANGED <<config, mirror, control, jobs, work, git, reworks>>

\* The issue is not wanted any more: relabelled, or closed, or both in turn.
Cancels(i) ==
  /\ Spend("human") /\ remote[i].open /\ "done" \notin remote[i].labels
  /\ \/ remote' = [remote EXCEPT ![i].labels = {"wont_do"}]
     \/ remote' = [remote EXCEPT ![i].open = FALSE]
  /\ UNCHANGED <<config, mirror, control, jobs, work, git, history>>

----------------------------------------------------------------------------
(* A sync: module Scheduler has its steps *)

News(i) ==
  {k \in EventKinds :
     CASE k = "label"    -> remote[i].labels # mirror[i].labels
       [] k = "comment"  -> remote[i].spoken # mirror[i].spoken
       [] k = "reaction" -> \E g \in GateKinds :
            ~ remote[i].gate[g].by \subseteq
                (IF remote[i].gate[g].apr = mirror[i].gate[g].apr
                 THEN mirror[i].gate[g].by ELSE {})}

\* An entry found closed has its pending work dropped and its run interrupted;
\* what else changed about it is queued after that.
Sync ==
  LET closed == {i \in Issues : mirror[i].open /\ ~remote[i].open} IN
  /\ mirror # remote
  /\ mirror' = remote
  /\ pend' = [i \in Issues |-> [k \in EventKinds |->
                IF k \in News(i) THEN "ready"
                ELSE IF i \in closed THEN "no" ELSE pend[i][k]]]
  /\ results' = {r \in results : r.issue \notin closed}
  /\ runJob'  = [i \in Issues |-> IF i \in closed THEN "no" ELSE runJob[i]]
  /\ gateJob' = [i \in Issues |-> IF i \in closed THEN "no" ELSE gateJob[i]]
  /\ work' = [work EXCEPT !.cut = @ \/ (work.pc = "agent" /\ work.issue \in closed)]
  /\ UNCHANGED <<config, remote, git, history, budget>>

----------------------------------------------------------------------------
(* What a handler makes of an issue, from the mirror's entry c and the     *)
(* remote's entry r: the new remote entry, and the git action to schedule  *)

Only(r)        == [entry |-> r, git |-> "no"]
ToStatus(c, r, s) == Only(SetStatus(r, c.labels, s))
WithGit(r, g)  == [entry |-> r, git |-> g]

\* Faulty variant: merges whoever has to be asked.
BugSettleOrMerge(r) == WithGit(r, "merge")
SettleOrMerge(r)    == WithGit(r, IF config.gated THEN "ready" ELSE "merge")

\* The latest human comment, if a comment is what woke the handler.  A merge
\* command nobody took for one is guidance like any prose.
Directive(c, k)  == IF k = "comment" THEN c.last ELSE "none"
Reworked(c, r, k) ==
  IF Directive(c, k) \in {"retry", "guidance", "merge"} THEN ToStatus(c, r, "todo") ELSE Only(r)

\* Faulty variant: declining the merge settles the issue.
BugResolvePure(c, r) ==
  IF GateSignals(c, "pure") \cap {"approve", "merge"} # {} THEN WithGit(r, "land")
  ELSE IF "reject" \in GateSignals(c, "pure") THEN ToStatus(c, r, "done") ELSE Only(r)
ResolvePure(c, r) ==
  IF GateSignals(c, "pure") \cap {"approve", "merge"} # {} THEN WithGit(r, "land")
  ELSE IF "reject" \in GateSignals(c, "pure")
       THEN Only(Ask(SetStatus(r, c.labels, "awaiting_merge"), "pure"))
       ELSE Only(r)

ResolveCombined(c, r, k) ==
  IF "merge" \in GateSignals(c, "combined") THEN WithGit(r, "land")
  ELSE IF "approve" \in GateSignals(c, "combined") THEN WithGit(r, "ready")
       ELSE Reworked(c, r, k)

ResolvePlain(c, r, k) ==
  IF PlainSignals(c) \cap {"approve", "merge"} # {}
  THEN IF c.reviews > 0 THEN SettleOrMerge(r) ELSE ToStatus(c, r, "todo")
  ELSE Reworked(c, r, k)

ResolveApproval(c, r, k) ==
  IF HasGate(c, "pure") THEN ResolvePure(c, r)
  ELSE IF HasGate(c, "combined") THEN ResolveCombined(c, r, k) ELSE ResolvePlain(c, r, k)

ResolveAwaitingMerge(c, r, k) ==
  IF HasGate(c, "pure") /\ GateSignals(c, "pure") \cap {"approve", "merge"} # {}
  THEN WithGit(r, "land") ELSE Reworked(c, r, k)

\* Only a fresh comment moves a block.
ResolveBlocked(c, r, k) ==
  IF Directive(c, k) \in {"approve", "merge"} /\ c.last \in c.said
  THEN WithGit(r, IF c.last = "merge" \/ ~config.gated THEN "land" ELSE "ready")
  ELSE Reworked(c, r, k)

Parked == {"awaiting_approval", "blocked", "awaiting_merge"}
Resolution(judged, c, r, k) ==
  CASE judged = "awaiting_approval" -> ResolveApproval(c, r, k)
    [] judged = "awaiting_merge"    -> ResolveAwaitingMerge(c, r, k)
    [] judged = "blocked"           -> ResolveBlocked(c, r, k)

Reports(intent) == IF intent = "implement" THEN {"done", "blocked"}
                   ELSE {"approve", "unsure", "changes"}

AfterImplement(c, r, report) ==
  IF report = "blocked" THEN ToStatus(c, r, "blocked")
  ELSE IF config.review THEN ToStatus(c, r, "in_review")
  ELSE IF config.hitl THEN Only(Ask(SetStatus(r, c.labels, "awaiting_approval"), "ask"))
  ELSE SettleOrMerge(r)

\* A review reworks the issue until it is the last one allowed.  The faulty
\* variant is one late.
BugReviewReworks(c, report) == report = "changes" /\ c.reviews + 1 <= MaxReviews
ReviewReworks(c, report)    == report = "changes" /\ c.reviews + 1 < MaxReviews

\* The review comment is posted whatever follows.
AfterReview(c, r, report) ==
  LET seen == [r EXCEPT !.reviews = @ + 1] IN
  CASE report = "approve" -> SettleOrMerge(seen)
    [] report = "unsure"  -> Only(Ask(SetStatus(seen, c.labels, "awaiting_approval"),
                                      IF config.gated THEN "combined" ELSE "ask"))
    [] report = "changes" -> ToStatus(c, seen, IF ReviewReworks(c, report)
                                               THEN "todo" ELSE "blocked")

----------------------------------------------------------------------------
(* The control lane *)

HasRunJob(i)  == runJob[i] # "no" \/ (work.pc = "agent" /\ work.issue = i)
HasGateJob(i) == gateJob[i] # "no" \/ (work.pc \notin {"idle", "go", "agent"} /\ work.job = i)

Apply(i, decision) ==
  /\ LastApr(decision.entry) <= MaxApr
  /\ remote' = [remote EXCEPT ![i] = decision.entry]
  /\ gateJob' = IF decision.git = "no" \/ HasGateJob(i) THEN gateJob
                ELSE [gateJob EXCEPT ![i] = decision.git]

\* process_work_result.  The result is consumed whatever becomes of it.
DigestResult(res) ==
  LET i == res.issue
      c == mirror[i]
      r == remote[i]
  IN
  /\ res \in results /\ results' = results \ {res}
  /\ \E judged \in Readings(c.labels), now \in Readings(r.labels) :
       IF Stale(now, judged) THEN UNCHANGED <<remote, gateJob, reworks>>
       ELSE /\ Apply(i, IF res.intent = "implement" THEN AfterImplement(c, r, res.report)
                        ELSE AfterReview(c, r, res.report))
            /\ reworks' = IF res.intent = "review" /\ ReviewReworks(c, res.report)
                          THEN [reworks EXCEPT ![i] = @ + 1] ELSE reworks
  /\ UNCHANGED <<config, mirror, pend, runJob, work, git, signed, budget>>

\* The event of kind k about issue i is claimed: results come first.
Claimed(i, k, judged) ==
  results = {} /\ pend[i][k] = "ready" /\ judged \in Readings(mirror[i].labels)

Consume(i, k) == pend' = [pend EXCEPT ![i][k] = "no"]

ResolveGate(i, k) ==
  /\ \E judged \in Parked, now \in Readings(remote[i].labels) :
       /\ Claimed(i, k, judged)
       /\ IF Stale(now, judged) THEN UNCHANGED <<remote, gateJob>>
          ELSE Apply(i, Resolution(judged, mirror[i], remote[i], k))
  /\ Consume(i, k)
  /\ UNCHANGED <<config, mirror, results, runJob, work, git, history, budget>>

Intent(judged) == CASE judged \in {"todo", "none"} -> "implement"
                    [] judged = "in_review"        -> "review"
                    [] OTHER                       -> "none"

\* Nothing to do, or no longer.
Ignore(i, k) ==
  /\ \E judged \in (Statuses \cup {"none"}) \ Parked, now \in Readings(remote[i].labels) :
       Claimed(i, k, judged) /\ (Intent(judged) = "none" \/ Stale(now, judged))
  /\ Consume(i, k)
  /\ UNCHANGED <<config, remote, mirror, results, jobs, work, git, history, budget>>

Wanted(i, k, intent) ==
  \E judged \in Readings(mirror[i].labels), now \in Readings(remote[i].labels) :
    Claimed(i, k, judged) /\ Intent(judged) = intent /\ ~Stale(now, judged)

MayImplement(i) == config.auto \/ "approve" \in PlainSignals(mirror[i])

ParkForApproval(i, k) ==
  /\ Wanted(i, k, "implement") /\ ~MayImplement(i)
  /\ LastApr(remote[i]) < MaxApr
  /\ remote' = [remote EXCEPT ![i] =
                  Ask(SetStatus(@, mirror[i].labels, "awaiting_approval"), "ask")]
  /\ Consume(i, k)
  /\ UNCHANGED <<config, mirror, results, jobs, work, git, history, budget>>

\* _classify_deps reads the mirror.
MayBe(d, states) == Readings(mirror[d].labels) \cap states # {}
Unsettled        == (Statuses \cup {"none"}) \ Terminal

BlockOnCancelled(i, k) ==
  /\ Wanted(i, k, "implement") /\ MayImplement(i)
  /\ \E d \in config.deps[i] : MayBe(d, {"wont_do"})
  /\ remote' = [remote EXCEPT ![i] = SetStatus(@, mirror[i].labels, "blocked")]
  /\ Consume(i, k)
  /\ UNCHANGED <<config, mirror, results, jobs, work, git, history, budget>>

HoldOnDeps(i, k) ==
  /\ Wanted(i, k, "implement") /\ MayImplement(i)
  /\ \A d \in config.deps[i] : MayBe(d, Unsettled \cup {"done"})
  /\ \E d \in config.deps[i] : MayBe(d, Unsettled)
  /\ pend' = [pend EXCEPT ![i][k] = "later"]
  /\ UNCHANGED <<config, remote, mirror, results, jobs, work, git, history, budget>>

PollPasses(i, k) ==
  /\ pend[i][k] = "later"
  /\ pend' = [pend EXCEPT ![i][k] = "ready"]
  /\ UNCHANGED <<config, remote, mirror, results, jobs, work, git, history, budget>>

\* Faulty variant: only a cancelled dependency stands in the way.
BugDepsMet(i) == \A d \in config.deps[i] : MayBe(d, Unsettled \cup {"done"})
DepsMet(i)    == \A d \in config.deps[i] : MayBe(d, {"done"})

ScheduleRun(i, k, intent) ==
  /\ Wanted(i, k, intent)
  /\ intent = "implement" => MayImplement(i) /\ DepsMet(i)
  /\ runJob' = IF HasRunJob(i) THEN runJob ELSE [runJob EXCEPT ![i] = intent]
  /\ Consume(i, k)
  /\ UNCHANGED <<config, remote, mirror, results, gateJob, work, git, history, budget>>

----------------------------------------------------------------------------
(* The work lane: one job at a time, claimed when control is idle.  The    *)
(* check and the claim are two transactions.                               *)

Waiting(jobOf) == {i \in Issues : jobOf[i] # "no"}

WorkGoes ==
  /\ work.pc = "idle" /\ results = {}
  /\ \A i \in Issues, k \in EventKinds : pend[i][k] # "ready"
  /\ work' = [Idle EXCEPT !.pc = "go"]
  /\ UNCHANGED <<config, remote, mirror, control, jobs, git, history, budget>>

NothingToClaim ==
  /\ work.pc = "go" /\ Waiting(runJob) \cup Waiting(gateJob) = {}
  /\ work' = Idle
  /\ UNCHANGED <<config, remote, mirror, control, jobs, git, history, budget>>

\* The job in progress is put back: a claim keeps the row's payload.  The
\* faulty variant forgets what an agent was to do.
BugRequeued(jobOf) == [jobOf EXCEPT ![work.job] = work.what]
Requeued(jobOf)    == [jobOf EXCEPT ![work.job] = work.kind]

\* run_agent_job: skip what went stale, else check the branch out and start.
ClaimRun(i) ==
  /\ work.pc = "go" /\ runJob[i] # "no" /\ Waiting(gateJob) = {}
  /\ runJob' = [runJob EXCEPT ![i] = "no"]
  /\ \E judged \in Readings(mirror[i].labels), now \in Readings(remote[i].labels) :
       IF Stale(now, judged) THEN work' = Idle /\ UNCHANGED branch
       ELSE /\ work' = [Idle EXCEPT !.pc = "agent", !.issue = i, !.job = i, !.kind = runJob[i]]
            /\ branch' = [branch EXCEPT ![i] = IF @ = 0 THEN 1 ELSE @]
  /\ UNCHANGED <<config, remote, mirror, control, gateJob, merged, history, budget>>

\* What the agent wrote is committed however its run ends; a reviewer writes nothing.
Commits(i) ==
  \/ UNCHANGED branch
  \/ work.kind = "implement" /\ branch[i] < MaxWork /\ branch' = [branch EXCEPT ![i] = @ + 1]

RunEnds(i) ==
  /\ work.pc = "agent" /\ work.issue = i
  /\ work' = Idle
  /\ Commits(i)
  /\ \E report \in Reports(work.kind) :
       results' = results \cup {[issue |-> i, intent |-> work.kind, report |-> report]}
  /\ UNCHANGED <<config, remote, mirror, pend, jobs, merged, history, budget>>

\* Killed by a teardown, or failed: the job is put back.
RunFails(i) ==
  /\ work.pc = "agent" /\ work.issue = i
  /\ IF work.cut THEN UNCHANGED budget ELSE Spend("faults")
  /\ work' = Idle
  /\ Commits(i)
  /\ runJob' = Requeued(runJob)
  /\ UNCHANGED <<config, remote, mirror, control, gateJob, merged, history>>

\* run_gate_job reads the mirror once, and never looks whether it is stale.
ClaimGate(i) ==
  /\ work.pc = "go" /\ gateJob[i] # "no"
  /\ gateJob' = [gateJob EXCEPT ![i] = "no"]
  /\ work' = [Idle EXCEPT !.pc = IF gateJob[i] = "merge" THEN "merge" ELSE "prepare",
                          !.issue = i, !.what = gateJob[i], !.snap = mirror[i].labels,
                          !.job = i, !.kind = gateJob[i]]
  /\ UNCHANGED <<config, remote, mirror, control, runJob, git, history, budget>>

Step(pc) == work' = [work EXCEPT !.pc = pc]

\* Bringing primary into the branch, conflicts resolved by an agent or not at
\* all, goes well: the gate opens, or the merge that was asked for follows.
Prepared ==
  LET i == work.issue IN
  /\ work.pc = "prepare" /\ branch[i] > 0
  /\ IF work.what = "land" THEN Step("merge") /\ UNCHANGED remote
     ELSE /\ LastApr(remote[i]) < MaxApr
          /\ \E judged \in Readings(work.snap) :
               remote' = [remote EXCEPT ![i] = Ask(
                 IF judged = "awaiting_approval" THEN @
                 ELSE SetStatus(@, work.snap, "awaiting_approval"), "pure")]
          /\ Step("next")
  /\ UNCHANGED <<config, mirror, control, jobs, git, history, budget>>

\* park_unmerged: the branch could not be readied or merged.
Unmergeable ==
  /\ work.pc \in {"prepare", "merge"}
  /\ remote' = [remote EXCEPT ![work.issue] = SetStatus(@, work.snap, "blocked")]
  /\ Step("next")
  /\ UNCHANGED <<config, mirror, control, jobs, git, history, budget>>

Merge ==
  /\ work.pc = "merge" /\ branch[work.issue] > 0
  /\ merged' = [merged EXCEPT ![work.issue] = branch[work.issue]]
  /\ Step("done")
  /\ UNCHANGED <<config, remote, mirror, control, jobs, branch, history, budget>>

\* close_issue_done is two remote calls.
SetDone ==
  /\ work.pc = "done"
  /\ remote' = [remote EXCEPT ![work.issue] = SetStatus(@, work.snap, "done")]
  /\ Step("close")
  /\ UNCHANGED <<config, mirror, control, jobs, git, history, budget>>

\* Primary has moved: the other open merge gates are to be readied again.
Close ==
  /\ work.pc = "close"
  /\ remote' = [remote EXCEPT ![work.issue].open = FALSE]
  /\ work' = [work EXCEPT !.pc = "next",
       !.rest = {j \in Issues \ {work.issue} :
                   /\ remote[j].open /\ "awaiting_approval" \in remote[j].labels
                   /\ HasGate(mirror[j], "pure")}]
  /\ UNCHANGED <<config, mirror, control, jobs, git, history, budget>>

\* The faulty variant forgets to say what is to be done with the sibling.
BugNextSibling ==
  /\ work.pc = "next"
  /\ IF work.rest = {} THEN work' = Idle
     ELSE \E j \in work.rest :
            work' = [work EXCEPT !.pc = "prepare", !.issue = j,
                                 !.snap = mirror[j].labels, !.rest = @ \ {j}]
  /\ UNCHANGED <<config, remote, mirror, control, jobs, git, history, budget>>

NextSibling ==
  /\ work.pc = "next"
  /\ IF work.rest = {} THEN work' = Idle
     ELSE \E j \in work.rest :
            work' = [work EXCEPT !.pc = "prepare", !.issue = j, !.what = "ready",
                                 !.snap = mirror[j].labels, !.rest = @ \ {j}]
  /\ UNCHANGED <<config, remote, mirror, control, jobs, git, history, budget>>

\* The process dies and is restarted: the job in progress is put back.
Crash ==
  /\ work.pc # "idle" /\ Spend("faults")
  /\ work' = Idle
  /\ CASE work.pc = "go"    -> UNCHANGED jobs
       [] work.pc = "agent" -> runJob' = Requeued(runJob) /\ UNCHANGED gateJob
       [] OTHER             -> gateJob' = Requeued(gateJob) /\ UNCHANGED runJob
  /\ UNCHANGED <<config, remote, mirror, control, git, history>>

----------------------------------------------------------------------------
People ==
  \E i \in Issues : \/ \E g \in GateKinds, s \in Signals : Reacts(i, g, s)
                    \/ \E w \in Words : Says(i, w)
                    \/ Cancels(i)

Control ==
  \/ Sync
  \/ \E res \in results : DigestResult(res)
  \/ \E i \in Issues, k \in EventKinds :
       \/ ResolveGate(i, k) \/ Ignore(i, k) \/ ParkForApproval(i, k)
       \/ BlockOnCancelled(i, k) \/ HoldOnDeps(i, k) \/ PollPasses(i, k)
       \/ \E intent \in {"implement", "review"} : ScheduleRun(i, k, intent)

Work ==
  \/ WorkGoes \/ NothingToClaim
  \/ \E i \in Issues : ClaimRun(i) \/ RunEnds(i) \/ RunFails(i) \/ ClaimGate(i)
  \/ Prepared \/ Unmergeable \/ Merge \/ SetDone \/ Close \/ NextSibling

Next == People \/ Control \/ Work \/ Crash

Spec == Init /\ [][Next]_vars
============================================================================
