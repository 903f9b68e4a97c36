----------------------- MODULE SpecChangeProperties -----------------------
(* What the approval of a spec-change request must and must not do. *)
EXTENDS SpecChange

----------------------------------------------------------------------------
(* Invariants *)

\* Every variable has its type.
TypeOK ==
  /\ remote \in Request /\ mirror \in Request
  /\ queue \in Seq(Tasks)
  /\ control.pc \in {"idle", "event", "guard", "promote", "relabel", "label", "enqueue", "close",
                     "result", "propose", "park", "script", "failed", "raised"}
  /\ control # Idle => control.task \in Tasks
  /\ control.yes \in BOOLEAN /\ control.blind \in BOOLEAN
  /\ worker \in [pc: {"none", "pending", "looked", "running", "killed"}, wrote: BOOLEAN]
  /\ dir \in [plan: {0} \cup Plans, kind: Proposals \cup {"question", "none"}]
  /\ UNION {live, created, approved, refused, unmarked} \subseteq Plans
  /\ dropped \subseteq [tries: Nat, post: Posts, fatal: BOOLEAN]
  /\ unclosed \in BOOLEAN
  /\ finals \in [Plans -> Nat] /\ posted \in [Plans -> Nat]
  /\ budget \in [{"plans", "runs", "human", "faults", "crashes"} -> Nat]

\* People are asked about a plan once, whatever crashed or was triggered again in
\* between (the idempotency of propose_spec_change).
AskedOnce == \A p \in Plans : posted[p] <= 1

\* What recovery leaves failed it leaves for a reason: it is off, the handler itself died,
\* the retries are used up, or a person closed the error post.
Justified(d) == ~Enabled \/ d.fatal \/ d.tries > MaxRetries \/ d.post = "closed"

\* An approval that has been taken is carried out: as long as the request is open and reads
\* done, its script is about to be enqueued, waits, runs or has just failed, whatever syncs
\* supersede.  Else it has been tried as often as recovery tries it, or the one call that
\* closes the request failed; and a crash between two steps may lose it.
ApprovalKept ==
  remote.open /\ "done" \in remote.labels /\ budget.crashes = MaxCrashes
    => \/ control.pc \in {"enqueue", "close"}
       \/ "final" \in Pending
       \/ control.pc \in {"script", "failed", "raised"} /\ control.task.kind = "final"
       \/ unclosed \/ \E d \in dropped : Justified(d)

\* "Nothing is promoted before approval, so an unapproved or buggy run can never corrupt
\* the real spec" (_promote_staged_spec, advance.py:1189-1190).  Violated by the code.
OnlyApprovedLive == live \subseteq approved

----------------------------------------------------------------------------
(* What a step may never do *)

\* Several events of one drain tell of the same approval, and an approval may meet a
\* rejection: a plan's creating script is enqueued once, and not for a plan that was
\* rejected; nor is it rejected afterwards.  The guard stands on one successful read of
\* one status label.  It is defeated by two labels (a clarification round that overlaps
\* the approval), by a read that fails, and by a decision the tracker does not show: a
\* label that could not be swapped, or a new plan whose approval request was lost.
Decided(p) == finals[p] > 0 \/ p \in refused

DecidedOnce ==
  [][\A p \in Plans :
       finals'[p] # finals[p] \/ p \in refused' \ refused
         => \/ ~Decided(p)
            \/ control.blind \/ p \in unmarked
            \/ \E r \in {remote, mirror} : Cardinality(r.labels) > 1]_vars

\* "resolve_spec_change_request's remote-truth guard ensures only the first approval ever
\* reaches here, so only ONE apply is tagged" (advance.py:1175-1176).  Violated by the code,
\* by a read of the guard that fails, whatever the labels say.
OneApply == unmarked = {} => \A p \in Plans : finals[p] <= 1

----------------------------------------------------------------------------
(* Liveness *)

Approvable ==
  remote.open /\ remote.last \in approved /\ remote.labels = {"awaiting_approval"}

\* A person's approval of the plan asked about is acted on, to the closing of the
\* request, unless the worker asks anew, the process crashes in the middle, the script is
\* left failed for good, or the call that closes the request fails.
ApprovalLands ==
  Approvable ~> \/ ~remote.open \/ remote.last \notin approved
                \/ "awaiting_input" \in remote.labels
                \/ budget.crashes < MaxCrashes
                \/ unclosed \/ \E d \in dropped : Justified(d)
=============================================================================
