--------------------------- MODULE RecoveryProofs ---------------------------
(***************************************************************************)
(* For any number of retries, runners in the chain, human acts, faults and *)
(* crashes: what the recovery of a failed job promises in Recovery.        *)
(***************************************************************************)
EXTENDS RecoveryProperties, FiniteSetTheorems, TLAPS

Pcs ==
  {"idle", "gate", "prepare", "spawn", "record", "runs", "reap", "finish", "report", "retry",
   "engage", "recovered", "resolve"}

\* The job is executed, up to the moment its row is completed.
Executing == {"gate", "prepare", "spawn", "record", "runs", "reap", "finish"}

Row     == [status: {"pending", "in_progress", "done", "failed"}, attempts: Nat, due: BOOLEAN]
Job     == [pc: Pcs, runner: Nat, child: Nat, quota: BOOLEAN, outcome: Outcomes \cup {"none"},
            post: Nat, made: BOOLEAN]
History == [retries: Nat, closed: BOOLEAN, after: Nat, misread: BOOLEAN, blind: BOOLEAN,
            leaked: BOOLEAN]

TypeInv ==
  /\ row \in Row /\ row.attempts <= AttemptsCap
  /\ lane \in Job
  /\ posts \in Seq({"open", "closed"})
  /\ history \in History

\* The thread and the row: a process that is dead executes nothing, a job in execution is in
\* progress, a reported one has failed (or was put back by a person), a recovered one is done.
StatusInv ==
  /\ ~up => lane.pc = "idle"
  /\ lane.pc \in Executing => row.status = "in_progress"
  /\ lane.pc \in {"report", "retry", "engage"} => row.status \in {"failed", "pending"}
  /\ lane.pc = "recovered" => row.status = "done"

\* Each retry has been paid for by an attempt of its own.
RetryInv ==
  /\ history.retries <= MaxRetries /\ history.retries <= row.attempts
  /\ lane.pc \in Executing \cup {"report", "retry"} => history.retries < row.attempts
  /\ lane.pc = "retry" => row.attempts <= MaxRetries

\* A job with an error post has been tried, and is tried again when it is executed.
PostInv ==
  /\ OnePost
  /\ posts # <<>> => row.attempts >= 1
  /\ posts # <<>> /\ lane.pc \in Executing => row.attempts >= 2

\* After a person has closed the post, all there is of it stays closed, and the run that had
\* passed the gate, if any, is the last.
ClosedInv ==
  \/ history.misread
  \/ /\ history.closed => posts # <<>> /\ \A i \in DOMAIN posts : ~IsOpen(i)
     /\ ~history.closed => history.after = 0
     /\ history.after <= 1
     /\ history.after = 1 => lane.pc # "prepare"

\* A failed job has its post or is about to; a job that is done has closed its post or is
\* about to.
ReportInv ==
  /\ Enabled /\ row.status = "failed" => posts # <<>> \/ history.blind \/ lane.pc = "report"
  /\ row.status = "done"
       => \/ \A i \in DOMAIN posts : ~IsOpen(i)
          \/ history.blind \/ history.misread \/ lane.pc = "recovered"

\* The only child alive is the one the lane waits for, and the ledger names it while it
\* runs; what is alive when the process is dead is in the ledger.
AgentInv ==
  \/ history.leaked
  \/ /\ lane.pc \in {"record", "runs"} => agents \subseteq {lane.child}
     /\ lane.pc = "runs" => ledger = lane.child
     /\ lane.pc \notin {"record", "runs"} => agents \subseteq (IF up THEN {} ELSE {ledger})

Safe == StatusInv /\ RetryInv /\ PostInv /\ ClosedInv /\ ReportInv /\ AgentInv

----------------------------------------------------------------------------
(* Where a step leaves the lane *)

\* AttemptsCap is above both limits attempts are compared with.
LEMMA CapIsHigh == AttemptsCap \in Nat /\ AttemptsCap > MaxRetries + 1 /\ AttemptsCap > EngageAfter + 1
  BY RecoveryAssumption DEF AttemptsCap, EngageAfter

\* The lane at rest is in a state of it.
LEMMA IdleIsJob == Idle \in Job /\ Idle.pc = "idle" /\ Idle.child = 0
  BY DEF Idle, Job, Pcs

\* A job that ends leaves the lane at rest.
LEMMA AfterEnds ==
  ASSUME Ends
  PROVE  lane' \in Job /\ lane'.pc = "idle" /\ lane' = Idle
  BY IdleIsJob DEF Ends

\* Going on with a job changes its place only.
LEMMA AfterGoesTo ==
  ASSUME lane \in Job, NEW p \in Pcs, GoesTo(p)
  PROVE  lane' \in Job /\ lane'.pc = p /\ lane'.child = lane.child /\ lane'.post = lane.post
  BY DEF GoesTo, Job

\* A concluded job is about to be finished.
LEMMA AfterConcludes ==
  ASSUME lane \in Job, NEW o \in Outcomes \cup {"none"}, Concludes(o)
  PROVE  lane' \in Job /\ lane'.pc = "finish"
  BY DEF Concludes, Job, Pcs

\* The two ways a chain goes on keep the record of the lane a record of the lane.
LEMMA NextRunner ==
  ASSUME lane \in Job, NEW n \in Nat, NEW q \in BOOLEAN
  PROVE  [lane EXCEPT !.pc = "spawn", !.runner = n, !.child = 0, !.quota = q] \in Job
  BY DEF Job, Pcs

\* A chain of agents that is over leaves no child.
LEMMA ChainEnd ==
  ASSUME lane \in Job, NEW v \in Outcomes
  PROVE  [lane EXCEPT !.pc = "reap", !.child = 0, !.outcome = v] \in Job
  BY DEF Job, Pcs

\* A child that has ended is followed by the next runner or by the end of the chain.
LEMMA AfterFalls ==
  ASSUME lane \in Job, NEW e \in Endings, lane' = Falls(e)
  PROVE  lane' \in Job /\ lane'.pc \in {"spawn", "reap"}
<1> DEFINE q == lane.quota /\ e = "quota"
<1>1. q \in BOOLEAN /\ lane.quota \in BOOLEAN
  BY DEF Job
<1>2. Verdict(e, q) \in Outcomes
  BY DEF Verdict, Outcomes
<1>3. Falls(e) = IF e \notin {"ok", "mute", "killed"} /\ lane.runner < Chain
                 THEN [lane EXCEPT !.pc = "spawn", !.runner = lane.runner + 1, !.child = 0, !.quota = q]
                 ELSE [lane EXCEPT !.pc = "reap", !.child = 0, !.outcome = Verdict(e, q)]
  BY DEF Falls
<1>4. lane.runner \in Nat /\ "spawn" \in Pcs /\ "reap" \in Pcs
  BY DEF Job, Pcs
<1> HIDE DEF q
<1>5. CASE e \notin {"ok", "mute", "killed"} /\ lane.runner < Chain
  <2> DEFINE n == lane.runner + 1
  <2>1. n \in Nat /\ lane' = [lane EXCEPT !.pc = "spawn", !.runner = n, !.child = 0, !.quota = q]
    BY <1>3, <1>4, <1>5
  <2> HIDE DEF n
  <2>2. lane'.pc = "spawn"
    BY <2>1 DEF Job
  <2>3. lane' \in Job
    BY <2>1, <1>1, NextRunner
  <2> QED BY <2>2, <2>3
<1>6. CASE ~(e \notin {"ok", "mute", "killed"} /\ lane.runner < Chain)
  <2> DEFINE v == Verdict(e, q)
  <2>1. v \in Outcomes /\ lane' = [lane EXCEPT !.pc = "reap", !.child = 0, !.outcome = v]
    BY <1>2, <1>3, <1>6
  <2> HIDE DEF v
  <2>2. lane'.pc = "reap"
    BY <2>1 DEF Job
  <2>3. lane' \in Job
    BY <2>1, ChainEnd
  <2> QED BY <2>2, <2>3
<1> QED BY <1>5, <1>6

\* What follows the report: nothing, a retry of a job that has retries left, or the agent.
LEMMA AfterDecided ==
  ASSUME TypeInv, NEW i \in Nat, NEW made \in BOOLEAN, lane' = Decided(i, made)
  PROVE  /\ lane' \in Job /\ lane'.pc \in {"idle", "retry", "engage"}
         /\ lane'.pc = "retry" => row.attempts <= MaxRetries
<1>1. CASE i # 0 /\ ~made /\ ~IsOpen(i)
  BY <1>1, IdleIsJob DEF Decided
<1>2. CASE ~(i # 0 /\ ~made /\ ~IsOpen(i)) /\ ~Exhausted
  <2>1. lane' = [lane EXCEPT !.pc = "retry", !.post = i, !.made = made]
    BY <1>2 DEF Decided
  <2>2. row.attempts <= MaxRetries
    BY <1>2, RecoveryAssumption DEF Exhausted, TypeInv, Row
  <2> QED BY <2>1, <2>2 DEF TypeInv, Job, Pcs
<1>3. CASE ~(i # 0 /\ ~made /\ ~IsOpen(i)) /\ Exhausted
  <2>1. lane' = IF i # 0 THEN [lane EXCEPT !.pc = "engage"] ELSE Idle
    BY <1>3 DEF Decided
  <2> QED BY <2>1, IdleIsJob DEF TypeInv, Job, Pcs
<1> QED BY <1>1, <1>2, <1>3

\* The lookup of the error post leaves what it does not note.
LEMMA AfterFinds ==
  ASSUME TypeInv, NEW i \in Nat, Finds(i)
  PROVE  /\ history' \in History
         /\ history' = history \/ (history' = [history EXCEPT !.misread = TRUE] /\ posts # <<>> /\ i = 0)
         /\ history' = history => i \in DOMAIN posts \/ (posts = <<>> /\ i = 0) \/ history.misread
  BY DEF Finds, TypeInv, History, Notes, Spend

----------------------------------------------------------------------------
(* Types *)

\* The types hold at the start.
LEMMA TypeInit == Init => TypeInv
  BY CapIsHigh, IdleIsJob, RecoveryAssumption
  DEF Init, TypeInv, Row, History

\* An append to the posts, and a post that is closed, leave them posts.
LEMMA PostTypes ==
  ASSUME posts \in Seq({"open", "closed"})
  PROVE  /\ Append(posts, "open") \in Seq({"open", "closed"})
         /\ <<"open">> \in Seq({"open", "closed"})
         /\ \A i \in DOMAIN posts : [posts EXCEPT ![i] = "closed"] \in Seq({"open", "closed"})
  OBVIOUS

\* One more attempt, up to the cap.
LEMMA AttemptedBounds ==
  ASSUME NEW n \in Nat, n <= AttemptsCap
  PROVE  /\ Attempted(n) \in Nat /\ Attempted(n) <= AttemptsCap
         /\ Attempted(n) = n + 1 \/ (Attempted(n) = n /\ n = AttemptsCap)
  BY CapIsHigh DEF Attempted

\* Every step keeps the types.
LEMMA TypeStep == TypeInv /\ [Next]_vars => TypeInv'
<1> SUFFICES ASSUME TypeInv, [Next]_vars PROVE TypeInv'
  OBVIOUS
<1>0. /\ row \in Row /\ row.attempts <= AttemptsCap /\ row.attempts \in Nat
      /\ lane \in Job /\ posts \in Seq({"open", "closed"}) /\ history \in History
  BY DEF TypeInv, Row
<1> USE <1>0
<1>1. CASE Claim
  <2> DEFINE n == Attempted(row.attempts)
  <2>1. row' = [row EXCEPT !.status = "in_progress", !.attempts = n]
    BY <1>1 DEF Claim
  <2>2. n \in Nat /\ n <= AttemptsCap
    BY AttemptedBounds
  <2> HIDE DEF n
  <2>3. row' \in Row /\ row'.attempts <= AttemptsCap
    BY <2>1, <2>2 DEF Row
  <2>4. lane' \in Job
    BY <1>1, AfterGoesTo DEF Claim, Pcs
  <2>5. history' \in History /\ posts' = posts
    BY <1>1 DEF Claim, History, seen
  <2> QED BY <2>3, <2>4, <2>5 DEF TypeInv
<1>2. CASE Gate
  <2>1. row' = row /\ posts' = posts
    BY <1>2 DEF Gate, job, seen
  <2>2. CASE row.attempts <= 1
    BY <1>2, <2>1, <2>2, AfterGoesTo DEF Gate, TypeInv, Pcs
  <2>3. CASE ~(row.attempts <= 1)
    <3>1. PICK i \in 0..Len(posts) : Finds(i) /\ (Concludes("ok") \/ GoesTo("prepare"))
      BY <1>2, <2>3 DEF Gate
    <3>2. history' \in History
      BY <3>1, AfterFinds
    <3>3. lane' \in Job
      BY <3>1, AfterGoesTo, AfterConcludes DEF Pcs, Outcomes
    <3> QED BY <2>1, <3>2, <3>3 DEF TypeInv
  <2> QED BY <2>2, <2>3
<1>3. CASE Prepare
  <2>1. lane' \in Job
    <3>1. CASE \E o \in {"ok", "refused", "failed", "raised"} : Concludes(o)
      BY <3>1, AfterConcludes DEF Outcomes
    <3>2. CASE lane' = [lane EXCEPT !.pc = "spawn", !.runner = 1]
      BY <3>2 DEF Job, Pcs
    <3> QED BY <1>3, <3>1, <3>2 DEF Prepare
  <2>2. history' \in History
    <3> DEFINE n == IF history.closed /\ history.after < 2 THEN history.after + 1 ELSE history.after
    <3>1. history' = [history EXCEPT !.after = n]
      BY <1>3 DEF Prepare
    <3>2. n \in Nat
      BY DEF History
    <3> HIDE DEF n
    <3> QED BY <3>1, <3>2 DEF History
  <2> QED BY <1>3, <2>1, <2>2 DEF Prepare, TypeInv, job, seen
<1>4. CASE Spawn
  <2>1. lane' \in Job
    <3>1. CASE lane' = Falls("failed")
      BY <3>1, AfterFalls DEF Endings
    <3>2. CASE \E c \in Children : lane' = [lane EXCEPT !.pc = "record", !.child = c]
      <4>1. PICK c \in Children : lane' = [lane EXCEPT !.pc = "record", !.child = c]
        BY <3>2
      <4>2. c \in Nat
        BY RecoveryAssumption DEF Children
      <4> QED BY <4>1, <4>2 DEF Job, Pcs
    <3> QED BY <1>4, <3>1, <3>2 DEF Spawn
  <2> QED BY <1>4, <2>1 DEF Spawn, TypeInv, job, seen
<1>5. CASE Record
  <2>1. lane' \in Job
    BY <1>5, AfterGoesTo DEF Record, Pcs
  <2>2. history' \in History
    BY <1>5 DEF Record, History, Notes
  <2> QED BY <1>5, <2>1, <2>2 DEF Record, TypeInv, job, seen
<1>6. CASE AgentEnds
  BY <1>6, AfterFalls DEF AgentEnds, TypeInv, job, seen
<1>7. CASE Reap
  <2>1. lane.outcome \in Outcomes \cup {"none"}
    BY DEF Job
  <2>2. lane' \in Job
    BY <1>7, <2>1, AfterConcludes DEF Reap, Outcomes
  <2> QED BY <1>7, <2>2 DEF Reap, TypeInv, seen
<1>8. CASE Finish
  <2>1. lane' \in Job
    <3>1. Follows(lane.outcome) \in Pcs
      BY DEF Follows, Pcs
    <3> QED BY <1>8, <3>1, AfterEnds, AfterGoesTo DEF Finish
  <2>2. row' \in Row /\ row'.attempts = row.attempts
    BY <1>8 DEF Finish, Row
  <2> QED BY <1>8, <2>1, <2>2 DEF Finish, TypeInv, seen
<1>9. CASE Report
  <2>1. row' = row
    BY <1>9 DEF Report, job
  <2>2. CASE \E i \in DOMAIN posts :
               Finds(i) /\ lane' = Decided(i, FALSE) /\ UNCHANGED posts
    <3>1. PICK i \in DOMAIN posts : Finds(i) /\ lane' = Decided(i, FALSE) /\ UNCHANGED posts
      BY <2>2
    <3>2. i \in Nat
      OBVIOUS
    <3>3. history' \in History
      BY <3>1, <3>2, AfterFinds
    <3>4. lane' \in Job
      BY <3>1, <3>2, AfterDecided
    <3> QED BY <2>1, <3>1, <3>3, <3>4 DEF TypeInv
  <2>3. CASE /\ Finds(0)
             /\ posts' = Append(posts, "open") /\ lane' = Decided(Len(posts) + 1, TRUE)
    <3>1. Len(posts) + 1 \in Nat
      OBVIOUS
    <3>2. history' \in History
      BY <2>3, AfterFinds
    <3>3. lane' \in Job
      BY <2>3, <3>1, AfterDecided
    <3> QED BY <2>1, <2>3, <3>2, <3>3, PostTypes DEF TypeInv
  <2>4. CASE /\ Notes("blind")
             /\ posts' \in {posts, IF posts = <<>> THEN <<"open">> ELSE posts}
             /\ lane' = Decided(0, FALSE)
    <3>1. history' \in History
      BY <2>4 DEF Notes, History
    <3> QED BY <2>1, <2>4, <3>1, AfterDecided, PostTypes DEF TypeInv
  <2>5. CASE Ends /\ UNCHANGED <<posts, history>>
    BY <1>9, <2>1, <2>5, AfterEnds DEF Report, TypeInv
  <2> QED BY <1>9, <2>2, <2>3, <2>4, <2>5 DEF Report, Tells
<1>10. CASE Retry
  <2>1. lane' \in Job
    BY <1>10, AfterGoesTo, AfterEnds DEF Retry, Pcs
  <2>2. row' \in Row /\ row'.attempts = row.attempts
    BY <1>10 DEF Retry, Row
  <2>3. history' \in History
    BY <1>10 DEF Retry, History
  <2> QED BY <1>10, <2>1, <2>2, <2>3 DEF Retry, TypeInv, seen
<1>11. CASE Engage
  BY <1>11, AfterEnds DEF Engage, TypeInv, job
<1>12. CASE Recovered
  <2>1. PICK i \in 0..Len(posts) :
          \/ /\ Finds(i)
             /\ posts' = IF i # 0 /\ IsOpen(i) THEN Closing(i) ELSE posts
          \/ i # 0 /\ Spend("faults") /\ Notes("blind") /\ UNCHANGED posts
    BY <1>12 DEF Recovered
  <2>2. history' \in History
    <3>1. CASE Finds(i)
      BY <3>1, AfterFinds
    <3>2. CASE Notes("blind")
      BY <3>2 DEF Notes, History
    <3> QED BY <2>1, <3>1, <3>2
  <2>3. posts' \in Seq({"open", "closed"})
    BY <2>1, PostTypes DEF Closing
  <2> QED BY <1>12, <2>2, <2>3, AfterEnds DEF Recovered, TypeInv, job
<1>13. CASE Resolve
  BY <1>13, AfterEnds DEF Resolve, TypeInv, job
<1>14. CASE ClaimResolve
  BY <1>14, AfterGoesTo DEF ClaimResolve, TypeInv, job, Pcs
<1>15. CASE DelayPasses
  BY <1>15 DEF DelayPasses, TypeInv, Row, seen
<1>16. CASE ClosePost
  <2>1. posts' \in Seq({"open", "closed"})
    BY <1>16, PostTypes DEF ClosePost
  <2>2. history' \in History
    BY <1>16 DEF ClosePost, Notes, History
  <2> QED BY <1>16, <2>1, <2>2 DEF ClosePost, TypeInv, job
<1>17. CASE Reply
  BY <1>17 DEF Reply, TypeInv, job
<1>18. CASE PressRetry
  BY <1>18 DEF PressRetry, TypeInv, Row, seen
<1>19. CASE Crash
  <2>1. history' \in History
    BY <1>19 DEF Crash, History
  <2> QED BY <1>19, <2>1, AfterEnds DEF Crash, TypeInv, job
<1>20. CASE Restart
  <2>1. history' \in History
    BY <1>20 DEF Restart, Notes, History
  <2>2. row' \in Row /\ row'.attempts = row.attempts
    BY <1>20 DEF Restart, Reset, Row
  <2> QED BY <1>20, <2>1, <2>2 DEF Restart, TypeInv, seen
<1>21. CASE OrphanEnds
  BY <1>21 DEF OrphanEnds, TypeInv, job, seen
<1>22. CASE UNCHANGED vars
  BY <1>22 DEF vars, job, seen, TypeInv
<1> QED BY <1>1, <1>2, <1>3, <1>4, <1>5, <1>6, <1>7, <1>8, <1>9, <1>10, <1>11, <1>12, <1>13,
          <1>14, <1>15, <1>16, <1>17, <1>18, <1>19, <1>20, <1>21, <1>22
       DEF Next, Lane, People

----------------------------------------------------------------------------
(* The thread and the row *)

\* Where each step of the lane starts, and where it may go.
LEMMA LaneMoves ==
  ASSUME TypeInv
  PROVE  /\ Claim => up /\ lane.pc = "idle" /\ lane'.pc = "gate"
         /\ ClaimResolve => up /\ lane.pc = "idle" /\ lane'.pc = "resolve"
         /\ Gate => up /\ lane.pc = "gate" /\ lane'.pc \in {"prepare", "finish"}
         /\ Prepare => up /\ lane.pc = "prepare" /\ lane'.pc \in {"spawn", "finish"}
         /\ Spawn => up /\ lane.pc = "spawn" /\ lane'.pc \in {"record", "spawn", "reap"}
         /\ Record => up /\ lane.pc = "record" /\ lane'.pc = "runs" /\ lane'.child = lane.child
         /\ AgentEnds => up /\ lane.pc = "runs" /\ lane'.pc \in {"spawn", "reap"}
         /\ Reap => up /\ lane.pc = "reap" /\ lane'.pc = "finish"
         /\ Finish => up /\ lane.pc = "finish" /\ lane'.pc \in {"idle", "report", "recovered"}
         /\ Report => up /\ lane.pc = "report" /\ lane'.pc \in {"idle", "retry", "engage"}
         /\ Retry => up /\ lane.pc = "retry" /\ lane'.pc \in {"idle", "engage"}
         /\ Engage => up /\ lane.pc = "engage" /\ lane'.pc = "idle"
         /\ Recovered => up /\ lane.pc = "recovered" /\ lane'.pc = "idle"
         /\ Resolve => up /\ lane.pc = "resolve" /\ lane'.pc = "idle"
         /\ Crash => up /\ lane'.pc = "idle"
<1>0. lane \in Job
  BY DEF TypeInv
<1>1. /\ "gate" \in Pcs /\ "resolve" \in Pcs /\ "prepare" \in Pcs /\ "runs" \in Pcs
      /\ "report" \in Pcs /\ "recovered" \in Pcs /\ "engage" \in Pcs
  BY DEF Pcs
<1>2. "ok" \in Outcomes /\ "refused" \in Outcomes /\ "failed" \in Outcomes /\ "raised" \in Outcomes
  BY DEF Outcomes
<1>3. Claim => up /\ lane.pc = "idle" /\ lane'.pc = "gate"
  BY <1>0, <1>1, AfterGoesTo DEF Claim, At
<1>4. ClaimResolve => up /\ lane.pc = "idle" /\ lane'.pc = "resolve"
  BY <1>0, <1>1, AfterGoesTo DEF ClaimResolve, At
<1>5. Gate => up /\ lane.pc = "gate" /\ lane'.pc \in {"prepare", "finish"}
  BY <1>0, <1>1, <1>2, AfterGoesTo, AfterConcludes DEF Gate, At
<1>6. Prepare => up /\ lane.pc = "prepare" /\ lane'.pc \in {"spawn", "finish"}
  <2>1. ASSUME \E o \in {"ok", "refused", "failed", "raised"} : Concludes(o)
        PROVE  lane'.pc = "finish"
    BY <1>0, <1>2, <2>1, AfterConcludes
  <2>2. ASSUME lane' = [lane EXCEPT !.pc = "spawn", !.runner = 1]
        PROVE  lane'.pc = "spawn"
    BY <1>0, <2>2 DEF Job
  <2> QED BY <2>1, <2>2 DEF Prepare, At
<1>7. Spawn => up /\ lane.pc = "spawn" /\ lane'.pc \in {"record", "spawn", "reap"}
  <2>1. ASSUME NEW c \in Children, lane' = [lane EXCEPT !.pc = "record", !.child = c]
        PROVE  lane'.pc = "record"
    BY <1>0, <2>1 DEF Job
  <2>2. lane' = Falls("failed") => lane'.pc \in {"spawn", "reap"}
    BY <1>0, AfterFalls DEF Endings
  <2> QED BY <2>1, <2>2 DEF Spawn, At
<1>8. Record => up /\ lane.pc = "record" /\ lane'.pc = "runs" /\ lane'.child = lane.child
  BY <1>0, <1>1, AfterGoesTo DEF Record, At
<1>9. AgentEnds => up /\ lane.pc = "runs" /\ lane'.pc \in {"spawn", "reap"}
  BY <1>0, AfterFalls DEF AgentEnds, At
<1>10. Reap => up /\ lane.pc = "reap" /\ lane'.pc = "finish"
  <2>1. lane.outcome \in Outcomes \cup {"none"}
    BY <1>0 DEF Job
  <2> QED BY <1>0, <1>2, <2>1, AfterConcludes DEF Reap, At
<1>11. Finish => up /\ lane.pc = "finish" /\ lane'.pc \in {"idle", "report", "recovered"}
  <2>1. Follows(lane.outcome) \in {"idle", "report", "recovered"}
    BY DEF Follows
  <2> QED BY <1>0, <1>1, <2>1, AfterGoesTo, AfterEnds DEF Finish, At
<1>12. Report => up /\ lane.pc = "report" /\ lane'.pc \in {"idle", "retry", "engage"}
  <2>1. /\ \A i \in DOMAIN posts : i \in Nat
        /\ Len(posts) + 1 \in Nat
    BY DEF TypeInv
  <2>2. Report => Ends \/ \E i \in Nat, made \in BOOLEAN : lane' = Decided(i, made)
    BY <2>1 DEF Report, Tells
  <2> QED BY <2>2, AfterDecided, AfterEnds DEF Report, At
<1>13. Retry => up /\ lane.pc = "retry" /\ lane'.pc \in {"idle", "engage"}
  BY <1>0, <1>1, AfterGoesTo, AfterEnds DEF Retry, At
<1>14. /\ Engage => up /\ lane.pc = "engage" /\ lane'.pc = "idle"
       /\ Recovered => up /\ lane.pc = "recovered" /\ lane'.pc = "idle"
       /\ Resolve => up /\ lane.pc = "resolve" /\ lane'.pc = "idle"
       /\ Crash => up /\ lane'.pc = "idle"
  BY AfterEnds DEF Engage, Recovered, Resolve, Crash, At
<1> QED BY <1>3, <1>4, <1>5, <1>6, <1>7, <1>8, <1>9, <1>10, <1>11, <1>12, <1>13, <1>14

\* No job runs at the start.
LEMMA StatusInit == Init => StatusInv
  BY IdleIsJob DEF Init, StatusInv, Executing

\* Every step keeps the row and the lane in agreement.
LEMMA StatusStep == TypeInv /\ StatusInv /\ [Next]_vars => StatusInv'
<1> SUFFICES ASSUME TypeInv, StatusInv, [Next]_vars PROVE StatusInv'
  OBVIOUS
<1>0. row \in Row /\ lane \in Job
  BY DEF TypeInv
<1> USE <1>0 DEF StatusInv, Executing
<1>1. CASE Claim
  BY <1>1, LaneMoves DEF Claim, Row
<1>2. CASE Gate \/ Prepare \/ Spawn \/ Record \/ AgentEnds \/ Reap
  <2>1. up' = up /\ row' = row
    BY <1>2 DEF Gate, Prepare, Spawn, Record, AgentEnds, Reap, job
  <2> QED BY <1>2, <2>1, LaneMoves
<1>3. CASE Finish
  <2>1. CASE lane.outcome \in {"raised", "parked", "quota"}
    <3>1. lane' = Idle
      BY <1>3, <2>1 DEF Finish, Ends
    <3> QED BY <1>3, <3>1, IdleIsJob DEF Finish
  <2>2. CASE lane.outcome \notin {"raised", "parked", "quota"}
    <3>1. /\ row'.status = IF lane.outcome = "ok" THEN "done" ELSE "failed"
          /\ IF Follows(lane.outcome) = "idle" THEN Ends ELSE GoesTo(Follows(lane.outcome))
      BY <1>3, <2>2 DEF Finish, Row
    <3>2. lane.outcome = "ok" => lane'.pc \in {"idle", "recovered"}
      BY <3>1, AfterEnds, AfterGoesTo DEF Follows, Pcs
    <3>3. lane.outcome # "ok" => lane'.pc = "report"
      BY <3>1, AfterGoesTo DEF Follows, Pcs
    <3> QED BY <1>3, <3>1, <3>2, <3>3, LaneMoves DEF Finish
  <2> QED BY <2>1, <2>2
<1>4. CASE Report \/ Engage \/ Recovered \/ Resolve \/ ClaimResolve
  <2>1. up' = up /\ row' = row
    BY <1>4 DEF Report, Engage, Recovered, Resolve, ClaimResolve, job
  <2> QED BY <1>4, <2>1, LaneMoves
<1>5. CASE Retry
  BY <1>5, LaneMoves DEF Retry, Row
<1>6. CASE DelayPasses
  BY <1>6 DEF DelayPasses, Row
<1>7. CASE ClosePost \/ Reply \/ OrphanEnds
  BY <1>7 DEF ClosePost, Reply, OrphanEnds, job
<1>8. CASE PressRetry
  BY <1>8 DEF PressRetry, Row
<1>9. CASE Crash
  BY <1>9, LaneMoves
<1>10. CASE Restart
  BY <1>10 DEF Restart, Row
<1>11. CASE UNCHANGED vars
  BY <1>11 DEF vars, job
<1> QED BY <1>1, <1>2, <1>3, <1>4, <1>5, <1>6, <1>7, <1>8, <1>9, <1>10, <1>11
       DEF Next, Lane, People

----------------------------------------------------------------------------
(* The retries *)

\* No step but Retry counts a retry, and the lookup says what it misread.
LEMMA HistoryMoves ==
  ASSUME TypeInv, [Next]_vars
  PROVE  /\ ~Retry => history'.retries = history.retries
         /\ ~Prepare => history'.after = history.after
         /\ history.misread => history'.misread
         /\ ~ClosePost => history'.closed = history.closed
         /\ ~Claim => (history.blind => history'.blind)
         /\ history.leaked => history'.leaked
<1>0. history \in History
  BY DEF TypeInv
<1> DEFINE Keeps(h) == /\ h.retries = history.retries /\ h.after = history.after
                       /\ history.misread => h.misread
                       /\ h.closed = history.closed
                       /\ history.blind => h.blind
                       /\ history.leaked => h.leaked
<1>1. Claim => /\ history'.retries = history.retries /\ history'.after = history.after
               /\ history'.misread = history.misread /\ history'.closed = history.closed
               /\ history'.leaked = history.leaked
  BY <1>0 DEF Claim, History
<1>2. Prepare => /\ history'.retries = history.retries
                 /\ history'.misread = history.misread /\ history'.closed = history.closed
                 /\ history'.blind = history.blind /\ history'.leaked = history.leaked
  BY <1>0 DEF Prepare, History
<1>3. Retry => /\ history'.after = history.after
               /\ history'.misread = history.misread /\ history'.closed = history.closed
               /\ history'.blind = history.blind /\ history'.leaked = history.leaked
  BY <1>0 DEF Retry, History
<1>4. ClosePost => /\ history'.retries = history.retries /\ history'.after = history.after
                   /\ history'.misread = history.misread
                   /\ history'.blind = history.blind /\ history'.leaked = history.leaked
  BY <1>0 DEF ClosePost, Notes, History
<1>5. ASSUME Notes("misread") \/ Notes("blind") \/ Notes("leaked")  PROVE Keeps(history')
  BY <1>0, <1>5 DEF Notes, History
<1>6. ASSUME NEW i, Finds(i)  PROVE Keeps(history')
  BY <1>5, <1>6 DEF Finds
<1>7. Crash => Keeps(history')
  BY <1>0 DEF Crash, History
<1>8. Gate \/ Report \/ Recovered \/ Record \/ Restart => Keeps(history')
  BY <1>5, <1>6 DEF Gate, Report, Tells, Recovered, Record, Restart
<1>9. \/ Spawn \/ AgentEnds \/ Reap \/ Finish \/ Engage \/ Resolve \/ ClaimResolve
      \/ DelayPasses \/ Reply \/ PressRetry \/ OrphanEnds \/ UNCHANGED vars
      => Keeps(history')
  BY DEF Spawn, AgentEnds, Reap, Finish, Engage, Resolve, ClaimResolve, DelayPasses, Reply,
         PressRetry, OrphanEnds, vars
<1>10. Keeps(history') => /\ history'.retries = history.retries /\ history'.after = history.after
                          /\ history.misread => history'.misread
                          /\ history'.closed = history.closed
                          /\ history.blind => history'.blind
                          /\ history.leaked => history'.leaked
  OBVIOUS
<1> HIDE DEF Keeps
<1> QED BY <1>1, <1>2, <1>3, <1>4, <1>7, <1>8, <1>9, <1>10 DEF Next, Lane, People

\* No retry is spent at the start.
LEMMA RetryInit == Init => RetryInv
  BY IdleIsJob, RecoveryAssumption DEF Init, RetryInv, Executing

\* Every step keeps the retries within the cap.
LEMMA RetryStep == TypeInv /\ StatusInv /\ RetryInv /\ [Next]_vars => RetryInv'
<1> SUFFICES ASSUME TypeInv, StatusInv, RetryInv, [Next]_vars PROVE RetryInv'
  OBVIOUS
<1>0. /\ row \in Row /\ lane \in Job /\ row.attempts \in Nat /\ row.attempts <= AttemptsCap
      /\ history.retries \in Nat /\ MaxRetries \in Nat
  BY RecoveryAssumption DEF TypeInv, Row, History
<1> USE <1>0 DEF RetryInv, Executing
<1>1. CASE Claim
  <2>1. row'.attempts = Attempted(row.attempts)
    BY <1>1 DEF Claim, Row
  <2>2. history'.retries = history.retries
    BY <1>1, HistoryMoves, LaneMoves DEF Retry, At
  <2>3. history.retries < row'.attempts
    BY <2>1, AttemptedBounds, CapIsHigh
  <2>4. row'.attempts \in Nat
    BY <2>1, AttemptedBounds
  <2> QED BY <1>1, <2>2, <2>3, <2>4, LaneMoves
<1>2. CASE Retry
  <2>1. row'.attempts = row.attempts
    BY <1>2 DEF Retry, Row
  <2>2. history'.retries = history.retries + 1
    BY <1>2 DEF Retry, TypeInv, History
  <2> QED BY <1>2, <2>1, <2>2, LaneMoves
<1>3. CASE Report
  <2>1. row' = row
    BY <1>3 DEF Report, job
  <2>2. lane'.pc = "retry" => row.attempts <= MaxRetries
    <3>1. /\ \A i \in DOMAIN posts : i \in Nat
          /\ Len(posts) + 1 \in Nat
      BY DEF TypeInv
    <3>2. Ends \/ \E i \in Nat, made \in BOOLEAN : lane' = Decided(i, made)
      BY <1>3, <3>1 DEF Report, Tells
    <3> QED BY <3>2, AfterDecided, AfterEnds
  <2> QED BY <1>3, <2>1, <2>2, LaneMoves, HistoryMoves DEF Retry, At
<1>4. CASE \/ Gate \/ Prepare \/ Spawn \/ Record \/ AgentEnds \/ Reap \/ Finish \/ Engage
           \/ Recovered \/ Resolve \/ ClaimResolve \/ Crash
  <2>1. row'.attempts = row.attempts
    BY <1>4 DEF Gate, Prepare, Spawn, Record, AgentEnds, Reap, Finish, Engage, Recovered, Resolve,
                ClaimResolve, Crash, job, Row
  <2>2. lane'.pc \in Executing \cup {"report", "retry"} => lane.pc \in Executing /\ lane'.pc # "retry"
    BY <1>4, LaneMoves
  <2>3. history'.retries = history.retries \/ Retry
    BY HistoryMoves
  <2>4. ~Retry
    BY <1>4, LaneMoves DEF Retry, At, Crash
  <2> QED BY <2>1, <2>2, <2>3, <2>4
<1>5. CASE DelayPasses \/ ClosePost \/ Reply \/ OrphanEnds \/ PressRetry \/ Restart \/ UNCHANGED vars
  <2>1. row'.attempts = row.attempts
    BY <1>5 DEF DelayPasses, ClosePost, Reply, OrphanEnds, PressRetry, Restart, Reset, job, vars, Row
  <2>2. lane' = lane /\ history'.retries = history.retries
    BY <1>5 DEF DelayPasses, ClosePost, Reply, OrphanEnds, PressRetry, Restart, vars, job, Notes,
                TypeInv, History
  <2> QED BY <2>1, <2>2
<1> QED BY <1>1, <1>2, <1>3, <1>4, <1>5 DEF Next, Lane, People

----------------------------------------------------------------------------
(* The error post *)

\* What each step does to the posts: a post is created where the lookup found none, and
\* from then on there are posts; only people and a recovery close one.
LEMMA PostMoves ==
  ASSUME TypeInv, [Next]_vars
  PROVE  /\ ~(Report \/ Recovered \/ ClosePost) => posts' = posts
         /\ Len(posts') <= 1 \/ Len(posts') <= Len(posts) \/ history'.misread
         /\ posts # <<>> => posts' # <<>>
         /\ posts = <<>> /\ posts' # <<>> => Report
         /\ posts # <<>> /\ (\A i \in DOMAIN posts : ~IsOpen(i))
              => (\A i \in DOMAIN posts' : ~IsOpen(i)') \/ history'.misread
<1>0. posts \in Seq({"open", "closed"}) /\ history \in History
  BY DEF TypeInv
<1> USE <1>0
<1>1. CASE Report
  <2>1. CASE UNCHANGED posts
    BY <1>1, <2>1 DEF IsOpen
  <2>2. CASE Finds(0) /\ posts' = Append(posts, "open")
    <3>1. posts # <<>> => history'.misread
      BY <2>2 DEF Finds, Notes, History
    <3> QED BY <1>1, <2>2, <3>1
  <2>3. CASE posts' = IF posts = <<>> THEN <<"open">> ELSE posts
    BY <1>1, <2>3 DEF IsOpen
  <2> QED BY <1>1, <2>1, <2>2, <2>3 DEF Report, Tells
<1>2. CASE Recovered
  <2>1. PICK i \in 0..Len(posts) : posts' \in {posts, IF i # 0 /\ IsOpen(i) THEN Closing(i) ELSE posts}
    BY <1>2 DEF Recovered
  <2> QED BY <1>2, <2>1 DEF Closing, IsOpen
<1>3. CASE ClosePost
  <2>1. PICK i \in DOMAIN posts : posts' = [posts EXCEPT ![i] = "closed"]
    BY <1>3 DEF ClosePost
  <2>2. Len(posts') = Len(posts) /\ DOMAIN posts' = DOMAIN posts /\ posts # <<>>
    BY <2>1
  <2>3. posts' # <<>>
    BY <2>1, <2>2
  <2>4. (\A j \in DOMAIN posts : ~IsOpen(j)) => (\A j \in DOMAIN posts' : ~IsOpen(j)')
    BY <2>1, <2>2 DEF IsOpen
  <2> QED BY <1>3, <2>2, <2>3, <2>4
<1>4. CASE ~(Report \/ Recovered \/ ClosePost)
  <2>1. posts' = posts
    BY <1>4 DEF Next, Lane, People, Claim, ClaimResolve, Gate, Prepare, Spawn, Record, AgentEnds,
                Reap, Finish, Retry, Engage, Resolve, DelayPasses, Reply, PressRetry, Crash,
                Restart, OrphanEnds, vars, seen
  <2> QED BY <1>4, <2>1 DEF IsOpen
<1> QED BY <1>1, <1>2, <1>3, <1>4

\* Only Claim counts an attempt, and none is taken back.
LEMMA AttemptMoves ==
  ASSUME TypeInv, [Next]_vars
  PROVE  /\ ~Claim => row'.attempts = row.attempts
         /\ Claim => row'.attempts = Attempted(row.attempts)
         /\ row'.attempts \in Nat
<1>0. row \in Row
  BY DEF TypeInv
<1>1. Claim => row'.attempts = Attempted(row.attempts)
  BY <1>0 DEF Claim, Row
<1>2. ~Claim => row'.attempts = row.attempts
  <2>1. Finish \/ Retry \/ DelayPasses \/ PressRetry \/ Restart => row'.attempts = row.attempts
    <3>1. Retry \/ DelayPasses \/ PressRetry => row'.attempts = row.attempts
      BY <1>0 DEF Row, Retry, DelayPasses, PressRetry
    <3>2. Finish => row'.attempts = row.attempts
      BY <1>0 DEF Row, Finish
    <3>3. Restart => row'.attempts = row.attempts
      BY <1>0 DEF Row, Restart, Reset
    <3> QED BY <3>1, <3>2, <3>3
  <2>2. \/ Gate \/ Prepare \/ Spawn \/ Record \/ AgentEnds \/ Reap \/ Report \/ Engage \/ Recovered
        \/ Resolve \/ ClaimResolve \/ ClosePost \/ Reply \/ Crash \/ OrphanEnds \/ UNCHANGED vars
        => row' = row
    BY DEF Gate, Prepare, Spawn, Record, AgentEnds, Reap, Report, Engage, Recovered, Resolve,
           ClaimResolve, ClosePost, Reply, Crash, OrphanEnds, vars, job
  <2> QED BY <2>1, <2>2 DEF Next, Lane, People
<1>3. row'.attempts \in Nat
  BY TypeStep DEF TypeInv, Row
<1> QED BY <1>1, <1>2, <1>3

\* Only Claim brings a job to the gate; what executes then, executed before.
LEMMA ExecutingMoves ==
  ASSUME TypeInv, [Next]_vars
  PROVE  /\ ~Claim /\ lane'.pc \in Executing => lane.pc \in Executing
         /\ lane'.pc = "prepare" => Gate \/ lane.pc = "prepare"
         /\ Claim => lane.pc = "idle" /\ lane'.pc = "gate"
<1>1. \/ DelayPasses \/ ClosePost \/ Reply \/ OrphanEnds \/ PressRetry \/ Restart \/ UNCHANGED vars
      => lane' = lane
  BY DEF DelayPasses, ClosePost, Reply, OrphanEnds, PressRetry, Restart, vars, job
<1> QED BY <1>1, LaneMoves DEF Next, Lane, People, Executing

\* Nothing is posted at the start.
LEMMA PostInit == Init => PostInv
  BY DEF Init, PostInv, OnePost

\* Every step keeps the thread to one post.
LEMMA PostStep == TypeInv /\ StatusInv /\ RetryInv /\ PostInv /\ [Next]_vars => PostInv'
<1> SUFFICES ASSUME TypeInv, StatusInv, RetryInv, PostInv, [Next]_vars PROVE PostInv'
  OBVIOUS
<1>0. /\ row.attempts \in Nat /\ row.attempts <= AttemptsCap /\ history.retries \in Nat
      /\ posts \in Seq({"open", "closed"}) /\ posts' \in Seq({"open", "closed"})
  BY TypeStep DEF TypeInv, Row, History
<1>1. OnePost'
  BY <1>0, PostMoves, HistoryMoves DEF PostInv, OnePost
<1>2. posts' # <<>> => row'.attempts >= 1
  <2>1. Report => row.attempts >= 1
    BY <1>0, LaneMoves DEF RetryInv
  <2>2. posts' # <<>> => row.attempts >= 1
    BY <2>1, PostMoves DEF PostInv
  <2>3. Attempted(row.attempts) \in Nat /\ Attempted(row.attempts) >= row.attempts
    BY <1>0, CapIsHigh DEF Attempted
  <2> QED BY <1>0, <2>2, <2>3, AttemptMoves
<1>3. posts' # <<>> /\ lane'.pc \in Executing => row'.attempts >= 2
  <2>1. CASE Claim
    <3>1. posts' # <<>> => posts # <<>>
      BY <2>1, PostMoves, LaneMoves
    <3>2. row.attempts >= 1 => Attempted(row.attempts) >= 2
      BY <1>0, CapIsHigh, RecoveryAssumption DEF Attempted, EngageAfter
    <3> QED BY <2>1, <3>1, <3>2, AttemptMoves DEF PostInv
  <2>2. CASE ~Claim
    <3>1. lane'.pc \in Executing => lane.pc \in Executing
      BY <2>2, ExecutingMoves
    <3>2. Report => lane'.pc \notin Executing
      BY LaneMoves DEF Executing
    <3> QED BY <2>2, <3>1, <3>2, PostMoves, AttemptMoves DEF PostInv
  <2> QED BY <2>1, <2>2
<1> QED BY <1>1, <1>2, <1>3 DEF PostInv

\* No entry is closed at the start.
LEMMA ClosedInit == Init => ClosedInv
  BY IdleIsJob DEF Init, ClosedInv

\* Every step keeps closed entries at rest.
LEMMA ClosedStep == TypeInv /\ PostInv /\ ClosedInv /\ [Next]_vars => ClosedInv'
<1> SUFFICES ASSUME TypeInv, PostInv, ClosedInv, [Next]_vars, ~history'.misread PROVE ClosedInv'
  BY DEF ClosedInv
<1>0. /\ history \in History /\ history' \in History /\ history.after \in Nat
      /\ posts \in Seq({"open", "closed"})
  BY TypeStep DEF TypeInv, History
<1>1. ~history.misread
  BY HistoryMoves
<1>2. history'.closed => posts' # <<>> /\ \A i \in DOMAIN posts' : ~IsOpen(i)'
  <2>1. CASE history.closed
    BY <1>1, <2>1, PostMoves DEF ClosedInv
  <2>2. CASE ~history.closed /\ history'.closed
    <3>1. ClosePost
      BY <2>2, HistoryMoves
    <3>2. PICK i \in DOMAIN posts : posts' = [posts EXCEPT ![i] = "closed"]
      BY <3>1 DEF ClosePost
    <3>3. Len(posts) <= 1
      BY <1>1 DEF PostInv, OnePost
    <3> QED BY <1>0, <3>2, <3>3 DEF IsOpen
  <2> QED BY <2>1, <2>2
<1>3. CASE Prepare
  <2>1. history'.after = IF history.closed /\ history.after < 2 THEN history.after + 1 ELSE history.after
    BY <1>3 DEF Prepare, TypeInv, History
  <2>2. lane.pc = "prepare" /\ lane'.pc # "prepare" /\ history'.closed = history.closed
    BY <1>3, LaneMoves, HistoryMoves DEF ClosePost, Spend
  <2> QED BY <1>0, <1>1, <1>2, <2>1, <2>2 DEF ClosedInv
<1>4. CASE ~Prepare
  <2>1. history'.after = history.after
    BY <1>4, HistoryMoves
  <2>2. ~history'.closed => ~history.closed
    BY <1>0, HistoryMoves DEF ClosePost, Notes, History
  <2>3. history.after = 1 => lane'.pc # "prepare"
    <3> SUFFICES ASSUME history.after = 1, Gate PROVE lane'.pc # "prepare"
      BY <1>1, ExecutingMoves DEF ClosedInv
    <3>1. posts # <<>> /\ \A i \in DOMAIN posts : ~IsOpen(i)
      BY <1>1 DEF ClosedInv
    <3>2. row.attempts >= 2 /\ row.attempts \in Nat
      BY <3>1, LaneMoves DEF PostInv, Executing, TypeInv, Row
    <3>3. PICK i \in 0..Len(posts) :
            Finds(i) /\ IF Cancelled(i) THEN Concludes("ok") ELSE GoesTo("prepare")
      BY <3>2 DEF Gate
    <3>4. i \in DOMAIN posts
      BY <1>0, <3>1, <3>3 DEF Finds, Notes, History
    <3>5. Cancelled(i)
      BY <1>0, <3>1, <3>4 DEF Cancelled
    <3> QED BY <3>3, <3>5, AfterConcludes DEF Outcomes, TypeInv
  <2> QED BY <1>1, <1>2, <2>1, <2>2, <2>3 DEF ClosedInv
<1> QED BY <1>3, <1>4

----------------------------------------------------------------------------
(* The report of a failure, and of a recovery *)

\* Only the end of a task completes a row, and goes on to tell of it; a first run that
\* succeeds has nothing to tell.
LEMMA RowMoves ==
  ASSUME TypeInv, [Next]_vars
  PROVE  /\ row'.status \in {"failed", "done"} => Finish \/ row'.status = row.status
         /\ Finish /\ row'.status = "failed" => lane'.pc = "report"
         /\ Finish /\ row'.status = "done" => lane'.pc = "recovered" \/ ~(row.attempts >= 2)
<1>0. row \in Row /\ lane \in Job /\ row.attempts \in Nat
  BY DEF TypeInv, Row
<1>1. row'.status \in {"failed", "done"} => Finish \/ row'.status = row.status
  <2>1. Claim \/ Retry \/ PressRetry => row'.status \notin {"failed", "done"}
    <3>1. Claim => row'.status = "in_progress"
      BY <1>0 DEF Claim, Row
    <3>2. Retry \/ PressRetry => row'.status = "pending"
      BY <1>0 DEF Retry, PressRetry, Row
    <3> QED BY <3>1, <3>2
  <2>2. Restart /\ row'.status \in {"failed", "done"} => row'.status = row.status
    BY <1>0 DEF Restart, Reset, Row
  <2>3. DelayPasses => row.status = row'.status
    BY <1>0 DEF DelayPasses, Row
  <2>4. \/ Gate \/ Prepare \/ Spawn \/ Record \/ AgentEnds \/ Reap \/ Report \/ Engage \/ Recovered
        \/ Resolve \/ ClaimResolve \/ ClosePost \/ Reply \/ Crash \/ OrphanEnds \/ UNCHANGED vars
        => row' = row
    BY DEF Gate, Prepare, Spawn, Record, AgentEnds, Reap, Report, Engage, Recovered, Resolve,
           ClaimResolve, ClosePost, Reply, Crash, OrphanEnds, vars, job
  <2> QED BY <2>1, <2>2, <2>3, <2>4 DEF Next, Lane, People
<1>2. ASSUME Finish, row'.status \in {"failed", "done"}
      PROVE  /\ row'.status = IF lane.outcome = "ok" THEN "done" ELSE "failed"
             /\ IF Follows(lane.outcome) = "idle" THEN Ends ELSE GoesTo(Follows(lane.outcome))
  BY <1>0, <1>2 DEF Finish, Row
<1>3. Finish /\ row'.status = "failed" => lane'.pc = "report"
  BY <1>0, <1>2, AfterGoesTo DEF Follows, Pcs
<1>4. Finish /\ row'.status = "done" => lane'.pc = "recovered" \/ ~(row.attempts >= 2)
  BY <1>0, <1>2, AfterGoesTo DEF Follows, Pcs
<1> QED BY <1>1, <1>3, <1>4

\* There is no failure to report at the start.
LEMMA ReportInit == Init => ReportInv
  BY DEF Init, ReportInv

\* Every step keeps failures accounted for.
LEMMA ReportStep == TypeInv /\ StatusInv /\ PostInv /\ ReportInv /\ [Next]_vars => ReportInv'
<1> SUFFICES ASSUME TypeInv, StatusInv, PostInv, ReportInv, [Next]_vars PROVE ReportInv'
  OBVIOUS
<1>0. /\ history \in History /\ history' \in History
      /\ posts \in Seq({"open", "closed"})
  BY TypeStep DEF TypeInv
<1>1. Enabled /\ row'.status = "failed" => posts' # <<>> \/ history'.blind \/ lane'.pc = "report"
  <2> SUFFICES ASSUME Enabled, row'.status = "failed" PROVE posts' # <<>> \/ history'.blind \/ lane'.pc = "report"
    OBVIOUS
  <2>1. CASE Finish
    BY <2>1, RowMoves
  <2>2. CASE ~Finish
    <3>1. row.status = "failed"
      BY <2>2, RowMoves
    <3>2. ~Claim
      BY <3>1 DEF Claim
    <3>3. CASE posts # <<>> \/ history.blind
      BY <3>2, <3>3, PostMoves, HistoryMoves
    <3>4. CASE lane.pc = "report"
      <4>1. CASE Report
        <5>1. Notes("blind") => history'.blind
          BY <1>0 DEF Notes, History
        <5>2. Append(posts, "open") # <<>>
          BY <1>0
        <5>3. (\E i \in DOMAIN posts : UNCHANGED posts) => posts' # <<>>
          BY <1>0
        <5> QED BY <4>1, <5>1, <5>2, <5>3 DEF Report, Tells
      <4>2. CASE Crash
        BY <1>0, <3>4, <4>2 DEF Crash, History
      <4>3. CASE ~Report /\ ~Crash
        <5>1. lane' = lane
          BY <3>4, <4>3, LaneMoves
             DEF Next, Lane, People, DelayPasses, ClosePost, Reply, OrphanEnds, PressRetry,
                 Restart, vars, job
        <5> QED BY <3>4, <5>1
      <4> QED BY <4>1, <4>2, <4>3
    <3> QED BY <3>1, <3>3, <3>4 DEF ReportInv
  <2> QED BY <2>1, <2>2
<1>2. ASSUME row'.status = "done"
      PROVE  \/ \A i \in DOMAIN posts' : ~IsOpen(i)'
             \/ history'.blind \/ history'.misread \/ lane'.pc = "recovered"
  <2>1. ASSUME posts = <<>>, ~Report PROVE \A i \in DOMAIN posts' : ~IsOpen(i)'
    BY <2>1, PostMoves
  <2>2. CASE Finish
    <3>1. lane.pc \in Executing /\ ~Report
      BY <2>2, LaneMoves DEF Executing
    <3>2. row.attempts >= 2 \/ posts = <<>>
      BY <3>1 DEF PostInv
    <3> QED BY <1>2, <2>1, <2>2, <3>1, <3>2, RowMoves
  <2>3. CASE ~Finish
    <3>1. row.status = "done"
      BY <1>2, <2>3, RowMoves
    <3>2. ~Claim /\ ~Report
      BY <3>1, LaneMoves DEF Claim, StatusInv
    <3>3. CASE posts # <<>> /\ \A i \in DOMAIN posts : ~IsOpen(i)
      BY <3>3, PostMoves
    <3>4. CASE posts = <<>>
      BY <2>1, <3>2, <3>4
    <3>5. CASE history.blind \/ history.misread
      BY <3>2, <3>5, HistoryMoves
    <3>6. CASE lane.pc = "recovered"
      <4>1. CASE Recovered
        <5>1. Notes("blind") => history'.blind
          BY <1>0 DEF Notes, History
        <5>2. ASSUME NEW i \in 0..Len(posts), Finds(i),
                     posts' = IF i # 0 /\ IsOpen(i) THEN Closing(i) ELSE posts
              PROVE  (\A j \in DOMAIN posts' : ~IsOpen(j)') \/ history'.misread
          <6>1. CASE history'.misread
            BY <6>1
          <6>2. CASE ~history'.misread
            <7>1. Len(posts) <= 1
              BY <6>2, HistoryMoves DEF PostInv, OnePost
            <7>2. i \in DOMAIN posts \/ (posts = <<>> /\ i = 0)
              BY <1>0, <5>2, <6>2 DEF Finds, Notes, History
            <7>3. CASE posts = <<>>
              BY <2>1, <3>2, <7>3
            <7>4. CASE i \in DOMAIN posts
              <8>1. i = 1 /\ DOMAIN posts = {1}
                <9>1. DOMAIN posts = 1..Len(posts) /\ Len(posts) \in Nat
                  BY <1>0
                <9>2. Len(posts) = 1
                  BY <7>1, <7>4, <9>1
                <9> QED BY <7>4, <9>1, <9>2
              <8> QED BY <1>0, <5>2, <8>1 DEF IsOpen, Closing
            <7> QED BY <7>2, <7>3, <7>4
          <6> QED BY <6>1, <6>2
        <5> QED BY <4>1, <5>1, <5>2 DEF Recovered
      <4>2. CASE Crash
        BY <1>0, <3>6, <4>2 DEF Crash, History
      <4>3. CASE ~Recovered /\ ~Crash
        <5>1. lane' = lane
          BY <3>6, <4>3, LaneMoves
             DEF Next, Lane, People, DelayPasses, ClosePost, Reply, OrphanEnds, PressRetry,
                 Restart, vars, job
        <5> QED BY <3>6, <5>1
      <4> QED BY <4>1, <4>2, <4>3
    <3> QED BY <3>1, <3>3, <3>4, <3>5, <3>6 DEF ReportInv
  <2> QED BY <2>2, <2>3
<1> QED BY <1>1, <1>2 DEF ReportInv

----------------------------------------------------------------------------
(* The children *)

\* No agent is alive at the start.
LEMMA AgentInit == Init => AgentInv
  BY IdleIsJob DEF Init, AgentInv

\* Every step keeps agents one at a time.
LEMMA AgentStep == TypeInv /\ StatusInv /\ AgentInv /\ [Next]_vars => AgentInv'
<1> SUFFICES ASSUME TypeInv, StatusInv, AgentInv, [Next]_vars, ~history'.leaked PROVE AgentInv'
  BY DEF AgentInv
<1>0. /\ lane \in Job /\ history \in History /\ ~history.leaked
      /\ lane.pc \in {"record", "runs"} => agents \subseteq {lane.child}
      /\ lane.pc = "runs" => ledger = lane.child
      /\ lane.pc \notin {"record", "runs"} => agents \subseteq (IF up THEN {} ELSE {ledger})
  BY HistoryMoves DEF TypeInv, AgentInv
<1> USE <1>0 DEF AgentInv
<1>1. CASE Spawn
  <2>1. up /\ up' /\ agents = {}
    BY <1>1, LaneMoves DEF Spawn
  <2>2. CASE UNCHANGED agents /\ lane' = Falls("failed")
    <3>1. lane'.pc \in {"spawn", "reap"}
      BY <2>2, AfterFalls DEF Endings
    <3> QED BY <2>1, <2>2, <3>1
  <2>3. ASSUME NEW c \in Children, agents' = agents \cup {c},
               lane' = [lane EXCEPT !.pc = "record", !.child = c]
        PROVE  AgentInv'
    <3>1. lane'.pc = "record" /\ lane'.child = c
      BY <2>3 DEF Job
    <3> QED BY <2>1, <2>3, <3>1
  <2> QED BY <1>1, <2>2, <2>3 DEF Spawn
<1>2. CASE Record
  <2>1. ledger' = lane.child
    BY <1>2 DEF Record, Ledgered, Notes, History
  <2> QED BY <1>2, <2>1, LaneMoves DEF Record
<1>3. CASE AgentEnds
  <2>1. agents' = {} /\ up' = up
    BY <1>3, LaneMoves DEF AgentEnds
  <2> QED BY <1>3, <2>1, LaneMoves
<1>4. CASE Claim \/ ClaimResolve \/ Gate \/ Prepare \/ Reap \/ Finish \/ Report \/ Retry \/ Engage
           \/ Recovered \/ Resolve
  <2>1. agents' = agents /\ up' = up
    BY <1>4 DEF Claim, ClaimResolve, Gate, Prepare, Reap, Finish, Report, Retry, Engage, Recovered,
                Resolve, kids
  <2>2. up /\ lane.pc \notin {"record", "runs"} /\ lane'.pc \notin {"record", "runs"}
    BY <1>4, LaneMoves
  <2> QED BY <2>1, <2>2
<1>5. CASE DelayPasses \/ ClosePost \/ Reply \/ PressRetry \/ UNCHANGED vars
  <2>1. lane' = lane /\ agents' = agents /\ ledger' = ledger /\ up' = up
    BY <1>5 DEF DelayPasses, ClosePost, Reply, PressRetry, vars, kids, job
  <2> QED BY <2>1
<1>6. CASE Crash
  <2>1. lane.pc # "record"
    BY <1>6 DEF Crash, History
  <2>2. agents' = agents /\ ledger' = ledger /\ ~up' /\ up /\ lane'.pc = "idle"
    BY <1>6, LaneMoves DEF Crash, kids
  <2> QED BY <2>1, <2>2
<1>7. CASE Restart
  <2>1. lane.pc = "idle" /\ ~up /\ up' /\ lane' = lane
    BY <1>7 DEF Restart, StatusInv
  <2>2. agents' = agents \ {ledger}
    BY <1>7 DEF Restart, Reclaimed, Notes, History
  <2> QED BY <2>1, <2>2
<1>8. CASE OrphanEnds
  <2>1. lane' = lane /\ agents' \subseteq agents /\ ledger' = ledger /\ up' = up
    BY <1>8 DEF OrphanEnds
  <2> QED BY <2>1
<1> QED BY <1>1, <1>2, <1>3, <1>4, <1>5, <1>6, <1>7, <1>8 DEF Next, Lane, People

----------------------------------------------------------------------------
(* Together *)

\* Safe holds at first, and every step keeps it.
THEOREM SafeAlways == Spec => [](TypeInv /\ Safe)
<1>1. Init => TypeInv /\ Safe
  BY TypeInit, StatusInit, RetryInit, PostInit, ClosedInit, ReportInit, AgentInit
  DEF Safe, ReportInv, Init
<1>2. TypeInv /\ Safe /\ [Next]_vars => (TypeInv /\ Safe)'
  BY TypeStep, StatusStep, RetryStep, PostStep, ClosedStep, ReportStep, AgentStep DEF Safe
<1> QED BY <1>1, <1>2, PTL DEF Spec

\* A job has one error post, unless a lookup of it failed (find_error_post).
THEOREM PostIsUnique == Spec => []OnePost
<1>1. Safe => OnePost
  BY DEF Safe, PostInv
<1> QED BY <1>1, SafeAlways, PTL

\* The retries of a job are capped, whatever the console, the parks and the crashes do.
THEOREM RetriesAreCapped == Spec => []RetriesCapped
<1>1. Safe => RetriesCapped
  BY DEF Safe, RetryInv, RetriesCapped
<1> QED BY <1>1, SafeAlways, PTL

\* A closed error post stops the retries: one run more at most (retry_cancelled).
THEOREM ClosingStops == Spec => []ClosedStops
<1>1. Safe => ClosedStops
  BY DEF Safe, ClosedInv, ClosedStops
<1> QED BY <1>1, SafeAlways, PTL

\* Where recovery is on, a failure is told on an error post, but for a report that failed
\* itself (on_failure).
THEOREM FailureIsReported == Spec => []NeverSilent
<1>1. Safe => NeverSilent
  BY IdleIsJob DEF Safe, ReportInv, NeverSilent
<1> QED BY <1>1, SafeAlways, PTL

\* A success closes the error post, with the same exception (on_recovered).
THEOREM PostIsSettled == Spec => []PostsSettle
<1>1. Safe => PostsSettle
  BY IdleIsJob DEF Safe, ReportInv, PostsSettle
<1> QED BY <1>1, SafeAlways, PTL

\* Two children of a job are never alive at a time, over crashes and restarts, unless one
\* of them was never recorded (inflight.py).
THEOREM AgentIsAlone == Spec => []OneAgent
<1>1. Safe => OneAgent
  <2> SUFFICES ASSUME AgentInv, ~history.leaked PROVE Cardinality(agents) <= 1
    BY DEF Safe, OneAgent
  <2>1. \E c : agents \subseteq {c}
    BY DEF AgentInv
  <2>2. PICK c : agents = {} \/ agents = {c}
    BY <2>1
  <2>3. Cardinality({}) = 0 /\ Cardinality({c}) = 1
    BY FS_EmptySet, FS_Singleton
  <2> QED BY <2>2, <2>3
<1> QED BY <1>1, SafeAlways, PTL
=============================================================================
