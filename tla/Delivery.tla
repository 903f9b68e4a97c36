------------------------------ MODULE Delivery ------------------------------
(***************************************************************************)
(* What the life of issues promises to whoever looks at the primary branch *)
(* and at the tracker: an agent builds an issue only on what it depends    *)
(* on, one at a time; the primary branch takes a built issue, at rest, and *)
(* where merges are gated only a signed one; an issue is called done when  *)
(* the primary branch has all of it.  Handlers, gates, mirrors, queues and *)
(* crashes are IssueLifecycle's, which implements this.                    *)
(***************************************************************************)
EXTENDS Naturals

CONSTANTS Issues

VARIABLES
  rules,     \* whether merges are gated, and what each issue depends on
  signed,    \* the issues people approved or authorised the merge of
  building,  \* the issue an agent builds, if there is one
  branch,    \* the state of each issue's branch, 0 where there is none
  primary,   \* the state of it the primary branch contains
  done       \* the issues that read done

vars == <<rules, signed, building, branch, primary, done>>

Delivered(i) == primary[i] > 0
Buildable(i) == \A d \in rules.deps[i] : Delivered(d)

Init ==
  /\ rules.gated \in BOOLEAN /\ rules.deps \in [Issues -> SUBSET Issues]
  /\ signed = {} /\ building = {} /\ done = {}
  /\ branch = [i \in Issues |-> 0] /\ primary = [i \in Issues |-> 0]

Sign(i) ==
  /\ signed' = signed \cup {i}
  /\ UNCHANGED <<rules, building, branch, primary, done>>

Begin(i) ==
  /\ building = {} /\ Buildable(i)
  /\ building' = {i}
  /\ branch' = [branch EXCEPT ![i] = IF @ = 0 THEN 1 ELSE @]
  /\ UNCHANGED <<rules, signed, primary, done>>

\* Whatever the agent wrote is kept, however it ended.
End(i) ==
  /\ building = {i} /\ building' = {}
  /\ branch' \in {branch, [branch EXCEPT ![i] = @ + 1]}
  /\ UNCHANGED <<rules, signed, primary, done>>

Merge(i) ==
  /\ building = {} /\ branch[i] > 0
  /\ rules.gated => i \in signed
  /\ primary' = [primary EXCEPT ![i] = branch[i]]
  /\ UNCHANGED <<rules, signed, building, branch, done>>

Finish(i) ==
  /\ building = {} /\ Delivered(i) /\ primary[i] = branch[i]
  /\ done' = done \cup {i}
  /\ UNCHANGED <<rules, signed, building, branch, primary>>

\* A result that comes late, or a doubled label, takes done away again.
Reopen(i) ==
  /\ i \in done /\ done' = done \ {i}
  /\ UNCHANGED <<rules, signed, building, branch, primary>>

Next == \E i \in Issues : Sign(i) \/ Begin(i) \/ End(i) \/ Merge(i) \/ Finish(i) \/ Reopen(i)

Spec == Init /\ [][Next]_vars

----------------------------------------------------------------------------
\* What is on the primary branch was signed for where that is asked, and stands on what
\* it depends on, which is there too; what reads done is there.
Promise ==
  /\ done \subseteq {i \in Issues : Delivered(i)}
  /\ \A i \in Issues : Delivered(i) => Buildable(i) /\ (rules.gated => i \in signed)
=============================================================================
