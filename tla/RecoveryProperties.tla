------------------------- MODULE RecoveryProperties -------------------------
(* What the recovery of a failed job promises. *)
EXTENDS Recovery

----------------------------------------------------------------------------
(* Invariants *)

\* A job has one error post, whatever failed, crashed or was retried, as long as the
\* tracker answers the lookups (find_error_post takes a failed lookup for no post).
OnePost == Len(posts) <= 1 \/ history.misread

\* The retries the runtime schedules are capped, also when people press the retry
\* button, and parks and crashes count attempts of their own.
RetriesCapped == history.retries <= MaxRetries

\* Closing the error post stops the retries: at most the run that had passed the gate
\* goes on, and neither its failure, a crash nor the retry button starts another.
ClosedStops == history.after <= 1 \/ history.misread

\* Where recovery is on, a job is not left failed without an error post, unless the tracker
\* refused the post or the process died in the middle of the report.
NeverSilent ==
  Enabled /\ row.status = "failed" /\ lane = Idle => posts # <<>> \/ history.blind

\* A job that succeeded after all leaves no open error post behind, with the same
\* exceptions.
PostsSettle ==
  row.status = "done" /\ lane = Idle
    => (\A i \in DOMAIN posts : ~IsOpen(i)) \/ history.blind \/ history.misread

\* Two children of a job never work on the repository at a time: what a dead process
\* left behind is killed before the job runs again, whichever runner of the chain it
\* was.  A child that was never recorded is not found.
OneAgent == Cardinality(agents) <= 1 \/ history.leaked

\* "Only the PRIMARY spec resumes the prior session - a fallback is a different
\* provider/account, so resuming its (foreign) id is invalid" (agent_runner.py).
\* Violated by the code.
OwnSession == lane.pc = "spawn" /\ lane.runner = 1 => session \in {0, 1}

----------------------------------------------------------------------------
(* Liveness *)

\* A job that waits is tried again, whatever the resolve agent does on the same lane, and
\* a job that was begun comes to an end of that attempt, however often the process dies.
TriedAgain == \A s \in {"pending", "in_progress"} : row.status = s ~> row.status # s

\* "EVERY non-self failure becomes remote state", a crash of the handler included
\* (recovery.py).  Violated by the code.
EveryFailureReported ==
  lane.outcome = "raised" ~> posts # <<>> \/ row.status = "done"
=============================================================================
