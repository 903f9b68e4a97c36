-------------------------- MODULE IssueProperties --------------------------
(* What the life of an issue must respect, whatever people do and when. *)
EXTENDS IssueLifecycle

Job == [pc: {"idle", "go", "agent", "prepare", "merge", "done", "close", "next"},
        issue: Issues \cup {"none"}, what: {"none", "ready", "land", "merge"},
        snap: SUBSET Statuses, job: Issues \cup {"none"},
        kind: {"none", "implement", "review", "ready", "land", "merge"},
        rest: SUBSET Issues, cut: BOOLEAN]

\* The state is what its declaration says.
TypeOK ==
  /\ config \in Setups
  /\ remote \in [Issues -> Entry] /\ mirror \in [Issues -> Entry]
  /\ pend \in [Issues -> [EventKinds -> {"no", "ready", "later"}]]
  /\ results \subseteq [issue: Issues, intent: {"implement", "review"},
                        report: Reports("implement") \cup Reports("review")]
  /\ runJob \in [Issues -> {"no", "implement", "review"}]
  /\ gateJob \in [Issues -> {"no", "ready", "land", "merge"}]
  /\ work \in Job
  /\ branch \in [Issues -> Nat] /\ merged \in [Issues -> Nat]
  /\ signed \subseteq Issues /\ reworks \in [Issues -> Nat]
  /\ budget \in [{"human", "faults"} -> Nat]

\* No issue reads done unless its branch, as it is at that moment, is on the
\* primary branch: "an unmerged issue must never read as done"
\* (close_issue_done's only callers, whatever failed or was retried before).
DoneIsMerged ==
  [][\A i \in Issues : "done" \in remote'[i].labels \ remote[i].labels
                         => branch[i] > 0 /\ merged[i] = branch[i]]_vars

\* Where merges are gated, the primary branch takes an issue's work only after
\* a person approved it on that issue, over however many gates and reworks.
MergeAuthorised ==
  [][\A i \in Issues : merged'[i] # merged[i] /\ config.gated => i \in signed]_vars

\* No agent implements an issue before everything the issue depends on has
\* reached the primary branch, although the gate is judged by the mirror and
\* the run starts later.
DependenciesFirst ==
  [][\A i \in Issues : work.pc # "agent" /\ work'.pc = "agent" /\ work'.issue = i
                         /\ work'.kind = "implement"
                         => \A d \in config.deps[i] : merged[d] > 0]_vars

\* Reviews send an issue back by themselves fewer than max_attempts times,
\* although attempts are counted in a conversation the mirror may hold late.
\* The count is defeated only where events of an issue are held for what it depends
\* on and a doubled label lets them agree with every status the issue takes meanwhile.
OneLabel(e) == \A s, t \in e.labels : s = t

ReworksBounded ==
  [][\A i \in Issues :
       reworks'[i] # reworks[i] /\ (config.deps[i] = {} \/ OneLabel(mirror[i]))
         => reworks'[i] < MaxReviews]_vars

\* All of it together, as whoever depends on the primary branch sees it: the lifecycle
\* implements Delivery.  A review, which writes nothing, builds nothing.
Abstract == INSTANCE Delivery WITH
  rules    <- [gated |-> config.gated, deps |-> config.deps],
  building <- {i \in Issues : work.pc = "agent" /\ work.issue = i /\ work.kind = "implement"},
  primary  <- merged,
  done     <- {i \in Issues : "done" \in remote[i].labels}

ImplementsDelivery == Abstract!Spec

\* At no time does the primary branch have an issue without what the issue depends on, or
\* one nobody signed for where merges are gated, or the tracker an issue that reads done
\* without any of it merged: over reworks, cancellations, crashes and stale mirrors.
PrimaryStands == Abstract!Promise

\* A merge is decided only by a signal on the latest gate ("any earlier gate's
\* approval is dead - approval counts only on the latest gate comment").
LatestGateDecides ==
  [][\A i \in Issues :
       /\ gateJob[i] = "no" /\ gateJob'[i] = "land"
       /\ \E k \in EventKinds : pend'[i][k] # pend[i][k]
       => \E g \in GateKinds : /\ IsLive(mirror[i], g)
                               /\ mirror[i].gate[g].by \cap {"approve", "merge"} # {}]_vars

\* Where finished work awaits a sign-off ("react on this comment to complete"),
\* approving it never makes the agent start over.
SignOffCompletes ==
  [][\A i \in Issues :
       /\ config.hitl /\ config.auto /\ ~config.review
       /\ mirror[i] = remote[i] /\ remote[i].labels = {"awaiting_approval"}
       /\ remote[i].last = "none" /\ "approve" \in PlainSignals(remote[i])
       => remote'[i].labels # {"todo"}]_vars

\* A status with no transitions out of it is final for the runtime.
TerminalIsFinal ==
  [][\A i \in Issues : \A s \in Terminal :
       remote[i].labels = {s} => remote'[i].labels = {s}]_vars

\* "Skip a stale implement/review rather than run an agent on work that no longer applies"
\* (run_agent_job, work_runner.py:134-137).  Violated by the code: the mirror is compared
\* with the remote, not with what the run was queued for.
RunApplies ==
  [][\A i \in Issues : work.pc # "agent" /\ work'.pc = "agent" /\ work'.issue = i
                         => \E s \in Readings(remote[i].labels) : Intent(s) = work'.kind]_vars

\* An issue whose status says that it is the machine's turn has something under way about
\* it: a difference to sync, an event, a job or a result.  Violated by the code, since a
\* run of one kind takes the place of one of the other.
UnderWay(i) ==
  \/ News(i) # {} \/ \E k \in EventKinds : pend[i][k] # "no"
  \/ \E res \in results : res.issue = i
  \/ runJob[i] # "no" \/ gateJob[i] # "no" \/ i \in {work.issue, work.job}

NotStranded ==
  \A i \in Issues :
    remote[i].open /\ remote[i].labels \in {{"todo"}, {"in_review"}} => UnderWay(i)
============================================================================
