------------------------------ MODULE Recovery ------------------------------
(***************************************************************************)
(* One job of the work lane and everything that follows when it fails:     *)
(* executing/agent_runner.py (the chain of runners, one child process at a *)
(* time), executing/inflight.py (the ledger of children that a restart     *)
(* kills), executing/agent_sessions.py (the conversation a later turn      *)
(* resumes), the end of a task in executing/scheduler.py, and              *)
(* executing/recovery.py (retries, the error post, the agent that looks    *)
(* into it).                                                               *)
(*                                                                         *)
(* The lane is one thread.  Beside it people close the error post, answer  *)
(* on it and press the retry button of the web console; the tracker fails  *)
(* a call; the process dies between any two steps.                         *)
(***************************************************************************)
EXTENDS Naturals, Sequences, FiniteSets

CONSTANTS
  Enabled,     \* config.recovery.enabled
  MaxRetries,  \* config.recovery.max_retries
  Chain,       \* how many runners the chain of the job has
  MaxHuman,    \* bound on what people do
  MaxFaults,   \* bound on calls of the tracker and the file system that fail
  MaxCrashes   \* bound on crashes

ASSUME RecoveryAssumption ==
  /\ Enabled \in BOOLEAN
  /\ Chain \in Nat \ {0}
  /\ {MaxRetries, MaxHuman, MaxFaults, MaxCrashes} \subseteq Nat

VARIABLES
  row,       \* the job's row in the queue
  lane,      \* what the thread of the lane executes
  agents,    \* the children of the job that are alive
  ledger,    \* the child inflight.json names, 0 for none
  session,   \* the runner whose conversation the post remembers, 0 for none
  posts,     \* the error posts of the job, as they are on the tracker
  resolve,   \* queued engagements of the resolve agent
  up,        \* is there a process
  history,   \* what the properties speak of
  budget     \* what is left of the bounds

job  == <<row, session>>
kids == <<agents, ledger>>
seen == <<posts, resolve>>
vars == <<job, lane, kids, seen, up, history, budget>>

----------------------------------------------------------------------------

\* ENGAGE_AFTER_FAILURES
EngageAfter == 3

\* attempts saturate where no comparison tells them apart
AttemptsCap == (IF MaxRetries > EngageAfter THEN MaxRetries ELSE EngageAfter) + 2
Attempted(n) == IF n < AttemptsCap THEN n + 1 ELSE n

Runners  == 1..Chain
Children == 1..(MaxCrashes + 1)

\* what a handler tells the scheduler; "raised": it died without a word
Outcomes == {"ok", "failed", "refused", "parked", "quota", "raised"}

\* what a child comes to: "mute" ends well and leaves no valid result file
Endings == {"ok", "mute", "failed", "quota", "timed_out", "killed"}

Idle == [pc |-> "idle", runner |-> 0, child |-> 0, quota |-> TRUE,
         outcome |-> "none", post |-> 0, made |-> FALSE]

Spend(b)     == budget[b] > 0 /\ budget' = [budget EXCEPT ![b] = @ - 1]
GoesTo(pc)   == lane' = [lane EXCEPT !.pc = pc]
Concludes(o) == lane' = [lane EXCEPT !.pc = "finish", !.outcome = o]
Ends         == lane' = Idle
Notes(h)     == history' = [history EXCEPT ![h] = TRUE]

Init ==
  /\ row = [status |-> "pending", attempts |-> 0, due |-> TRUE] /\ session = 0
  /\ lane = Idle /\ agents = {} /\ ledger = 0
  /\ posts = <<>> /\ resolve = 0 /\ up = TRUE
  /\ history = [retries |-> 0, closed |-> FALSE, after |-> 0,
                misread |-> FALSE, blind |-> FALSE, leaked |-> FALSE]
  /\ budget = [human |-> MaxHuman, faults |-> MaxFaults, crashes |-> MaxCrashes]

\* A step of the thread of the lane.
At(pc) == up /\ lane.pc = pc

----------------------------------------------------------------------------
(* The error post *)

BugFinds(i) ==
  \/ i \in DOMAIN posts /\ posts[i] = "open" /\ UNCHANGED <<history, budget>>
  \/ i = 0 /\ (\A j \in DOMAIN posts : posts[j] # "open") /\ UNCHANGED <<history, budget>>

\* find_error_post: the post that carries the job's marker, open or closed.  A list or
\* a read that fails reads as no post.
Finds(i) ==
  \/ /\ i \in DOMAIN posts \/ (posts = <<>> /\ i = 0)
     /\ UNCHANGED <<history, budget>>
  \/ posts # <<>> /\ i = 0 /\ Spend("faults") /\ Notes("misread")

IsOpen(i) == posts[i] = "open"

----------------------------------------------------------------------------
(* A job starts *)

Claim ==
  /\ At("idle") /\ row.status = "pending" /\ row.due
  /\ row' = [row EXCEPT !.status = "in_progress", !.attempts = Attempted(@)]
  /\ GoesTo("gate") /\ history' = [history EXCEPT !.blind = FALSE]
  /\ UNCHANGED <<session, kids, seen, up, budget>>

BugCancelled(i) == FALSE

\* a person closed the error post of the job
Cancelled(i) == i # 0 /\ ~IsOpen(i)

\* retry_cancelled: a first run is never gated.
Gate ==
  /\ At("gate")
  /\ IF row.attempts <= 1 THEN GoesTo("prepare") /\ UNCHANGED <<history, budget>>
     ELSE \E i \in 0..Len(posts) :
            Finds(i) /\ IF Cancelled(i) THEN Concludes("ok") ELSE GoesTo("prepare")
  /\ UNCHANGED <<job, kids, seen, up>>

\* There is nothing to run any more; the job is refused for good; its branch cannot be
\* prepared; the handler raises; or the chain is tried from its first runner.
Prepare ==
  /\ At("prepare")
  /\ \/ \E o \in {"ok", "refused", "failed", "raised"} : Concludes(o)
     \/ lane' = [lane EXCEPT !.pc = "spawn", !.runner = 1]
  /\ history' = [history EXCEPT !.after = IF history.closed /\ @ < 2 THEN @ + 1 ELSE @]
  /\ UNCHANGED <<job, kids, seen, up, budget>>

----------------------------------------------------------------------------
(* The chain of runners *)

\* the verdict on the last result of a chain
Verdict(ending, quota) ==
  CASE quota                              -> "quota"
    [] ending \in {"killed", "timed_out"} -> "parked"
    [] ending = "ok"                      -> "ok"
    [] OTHER                              -> "failed"

\* A stop or an end is final, any other failure falls through to the next runner; only
\* a chain that failed on quota alone opens the circuit.
Falls(ending) ==
  LET quota == lane.quota /\ ending = "quota" IN
  IF ending \notin {"ok", "mute", "killed"} /\ lane.runner < Chain
  THEN [lane EXCEPT !.pc = "spawn", !.runner = @ + 1, !.child = 0, !.quota = quota]
  ELSE [lane EXCEPT !.pc = "reap", !.child = 0, !.outcome = Verdict(ending, quota)]

\* A child is born (the first runner resumes the session of the post), or the binary cannot
\* be launched.
Spawn ==
  /\ At("spawn")
  /\ \/ \E c \in Children \ agents :
          /\ \A d \in Children \ agents : c <= d
          /\ agents' = agents \cup {c}
          /\ lane' = [lane EXCEPT !.pc = "record", !.child = c]
     \/ UNCHANGED agents /\ lane' = Falls("failed")
  /\ UNCHANGED <<job, ledger, seen, up, history, budget>>

BugLedgered == IF lane.runner = 1 THEN lane.child ELSE ledger

\* the job's entry, overwritten
Ledgered == lane.child

\* on_start; the ledger is best-effort.
Record ==
  /\ At("record") /\ GoesTo("runs")
  /\ \/ ledger' = Ledgered /\ UNCHANGED <<history, budget>>
     \/ UNCHANGED ledger /\ Spend("faults") /\ Notes("leaked")
  /\ UNCHANGED <<job, agents, seen, up>>

\* The child ends, is killed by a stop or a teardown, or reaches its time limit.
AgentEnds ==
  /\ At("runs")
  /\ \E ending \in Endings : lane' = Falls(ending)
  /\ agents' = agents \ {lane.child}
  /\ UNCHANGED <<job, ledger, seen, up, history, budget>>

\* The ledger forgets the child, the post remembers its conversation (a runner may have
\* none), and the work is committed, or cannot be.
Reap ==
  /\ At("reap")
  /\ ledger' = 0
  /\ session' \in {0, lane.runner}
  /\ \E o \in {lane.outcome, IF lane.outcome = "ok" THEN "failed" ELSE lane.outcome} :
       Concludes(o)
  /\ UNCHANGED <<row, agents, seen, up, history, budget>>

----------------------------------------------------------------------------
(* The end of a task *)

BugFollows(o) == IF o = "failed" THEN "report" ELSE "idle"

\* what recovery has to do about a completed job
Follows(o) ==
  IF o # "ok" THEN "report"
  ELSE IF row.attempts > 1 THEN "recovered"
  ELSE "idle"

\* A job that was interrupted, parked or died is pending again, never failed.
Finish ==
  /\ At("finish")
  /\ CASE lane.outcome \in {"raised", "parked"} ->
            row' = [row EXCEPT !.status = "pending"] /\ Ends
       [] lane.outcome = "quota" ->
            row' = [row EXCEPT !.status = "pending", !.due = FALSE] /\ Ends
       [] OTHER ->
            /\ row' = [row EXCEPT !.status = IF lane.outcome = "ok" THEN "done" ELSE "failed"]
            /\ IF Follows(lane.outcome) = "idle" THEN Ends ELSE GoesTo(Follows(lane.outcome))
  /\ UNCHANGED <<session, kids, seen, up, history, budget>>

BugExhausted == lane.outcome = "refused" \/ row.attempts > MaxRetries + 1

Exhausted == lane.outcome = "refused" \/ row.attempts > MaxRetries

Decided(i, made) ==
  IF i # 0 /\ ~made /\ ~IsOpen(i) THEN Idle
  ELSE IF ~Exhausted THEN [lane EXCEPT !.pc = "retry", !.post = i, !.made = made]
  ELSE IF i # 0 THEN [lane EXCEPT !.pc = "engage"]
  ELSE Idle

\* The post first.  The lookup may raise, and the call that creates the post may fail with
\* the post created or not.
Tells ==
  \/ \E i \in DOMAIN posts :
       Finds(i) /\ lane' = Decided(i, FALSE) /\ UNCHANGED posts
  \/ /\ Len(posts) <= MaxFaults
     /\ Finds(0)
     /\ posts' = Append(posts, "open") /\ lane' = Decided(Len(posts) + 1, TRUE)
  \/ /\ Spend("faults") /\ Notes("blind")
     /\ posts' \in {posts, IF posts = <<>> THEN <<"open">> ELSE posts}
     /\ lane' = Decided(0, FALSE)

\* on_failure: where recovery is off, a failure is neither told nor tried again.
Report ==
  /\ At("report")
  /\ IF Enabled THEN Tells ELSE Ends /\ UNCHANGED <<posts, history, budget>>
  /\ UNCHANGED <<job, kids, resolve, up>>

\* The job is due again after a delay; the agent is engaged on the third failure, or
\* at once by a post that comes later than that.
Retry ==
  /\ At("retry")
  /\ row' = [row EXCEPT !.status = "pending", !.due = FALSE]
  /\ history' = [history EXCEPT !.retries = @ + 1]
  /\ IF /\ lane.post # 0
        /\ row.attempts = EngageAfter \/ (lane.made /\ row.attempts > EngageAfter)
     THEN GoesTo("engage") ELSE Ends
  /\ UNCHANGED <<session, kids, seen, up, budget>>

Engage ==
  /\ At("engage") /\ resolve' = resolve + 1 /\ Ends
  /\ UNCHANGED <<job, kids, posts, up, history, budget>>

BugClosing(i) == posts

Closing(i) == [posts EXCEPT ![i] = "closed"]

\* on_recovered: the report and the closing of the post are best-effort.
Recovered ==
  /\ At("recovered") /\ Ends
  /\ \E i \in 0..Len(posts) :
       \/ /\ Finds(i)
          /\ posts' = IF i # 0 /\ IsOpen(i) THEN Closing(i) ELSE posts
       \/ i # 0 /\ Spend("faults") /\ Notes("blind") /\ UNCHANGED posts
  /\ UNCHANGED <<job, kids, resolve, up>>

DelayPasses ==
  /\ ~row.due /\ row' = [row EXCEPT !.due = TRUE]
  /\ UNCHANGED <<session, lane, kids, seen, up, history, budget>>

----------------------------------------------------------------------------
(* The resolve agent *)

ClaimResolve ==
  /\ At("idle") /\ resolve > 0
  /\ resolve' = resolve - 1 /\ GoesTo("resolve")
  /\ UNCHANGED <<job, kids, posts, up, history, budget>>

\* A closed post is left alone.  A quota or a raise puts the engagement back; a failure,
\* and a stop of the process, end it for good: recovery never recovers itself.
Resolve ==
  /\ At("resolve") /\ Ends
  /\ resolve' \in IF \E i \in DOMAIN posts : IsOpen(i) THEN {resolve, resolve + 1} ELSE {resolve}
  /\ UNCHANGED <<job, kids, posts, up, history, budget>>

----------------------------------------------------------------------------
(* People *)

\* closing the error post stops the retries
ClosePost ==
  /\ Spend("human")
  /\ \E i \in DOMAIN posts : IsOpen(i) /\ posts' = [posts EXCEPT ![i] = "closed"]
  /\ Notes("closed")
  /\ UNCHANGED <<job, lane, kids, resolve, up>>

\* an answer on the error post engages the agent, unless it is engaged
Reply ==
  /\ Spend("human") /\ posts # <<>> /\ up
  /\ resolve' = IF resolve = 0 /\ lane.pc # "resolve" THEN 1 ELSE resolve
  /\ UNCHANGED <<job, lane, kids, posts, up, history>>

\* the retry button: a failed job, or one that waits for its delay
PressRetry ==
  /\ Spend("human")
  /\ row.status = "failed" \/ (row.status = "pending" /\ ~row.due)
  /\ row' = [row EXCEPT !.status = "pending", !.due = TRUE]
  /\ UNCHANGED <<session, lane, kids, seen, up, history>>

----------------------------------------------------------------------------
(* Death and restart *)

\* The children live on.
Crash ==
  /\ up /\ lane # Idle /\ Spend("crashes")
  /\ up' = FALSE /\ Ends
  /\ resolve' = IF lane.pc = "resolve" THEN resolve + 1 ELSE resolve
  /\ history' = [history EXCEPT !.leaked = @ \/ lane.pc = "record",
                                !.blind = @ \/ lane.pc \in {"report", "recovered"}]
  /\ UNCHANGED <<job, kids, posts>>

Reclaimed == agents \ {ledger}

BugReset == row

\* reset_in_progress
Reset == IF row.status = "in_progress" THEN [row EXCEPT !.status = "pending"] ELSE row

\* reclaim: the ledger's child is killed, unless its command line cannot be read; what
\* was in progress is pending.
Restart ==
  /\ ~up /\ up' = TRUE
  /\ \/ agents' = Reclaimed /\ UNCHANGED <<history, budget>>
     \/ ledger \in agents /\ Spend("faults") /\ Notes("leaked") /\ UNCHANGED agents
  /\ ledger' = 0
  /\ row' = Reset
  /\ UNCHANGED <<session, lane, seen>>

\* A child that nobody waits for ends by itself.
OrphanEnds ==
  /\ \E c \in agents \ {lane.child} : agents' = agents \ {c}
  /\ UNCHANGED <<job, lane, ledger, seen, up, history, budget>>

----------------------------------------------------------------------------

Lane ==
  \/ Gate \/ Prepare \/ Spawn \/ Record \/ AgentEnds \/ Reap \/ Finish
  \/ Report \/ Retry \/ Engage \/ Recovered \/ Resolve

People == ClosePost \/ Reply \/ PressRetry

Next == Claim \/ ClaimResolve \/ Lane \/ DelayPasses \/ People \/ Crash \/ Restart \/ OrphanEnds

\* The lane goes on while the process lives, and it claims by age, so neither of the
\* two rows waits for ever for the other; delays pass, a dead process is restarted.
Spec ==
  /\ Init /\ [][Next]_vars
  /\ WF_vars(Lane) /\ SF_vars(Claim) /\ SF_vars(ClaimResolve)
  /\ WF_vars(DelayPasses) /\ WF_vars(Restart)
=============================================================================
