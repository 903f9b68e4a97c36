------------------------------ MODULE MCIssues ------------------------------
(* Instances of IssueLifecycle for TLC. *)
EXTENDS IssueProperties

CONSTANTS first, second

Alone == [i \in Issues |-> {}]
Chain == [i \in Issues |-> IF i = second THEN {first} ELSE {}]

Setup(review, gated, hitl, auto, deps) ==
  [review |-> review, gated |-> gated, hitl |-> hitl, auto |-> auto, deps |-> deps]

\* With merges gated, as by default.
Reviewed   == {Setup(TRUE, TRUE, FALSE, TRUE, Alone)}
SignedOff  == {Setup(FALSE, TRUE, TRUE, TRUE, Alone)}
Unreviewed == {Setup(FALSE, TRUE, FALSE, TRUE, deps) : deps \in {Alone, Chain}}

\* Reviews and gated merges in every combination, a sign-off instead of a
\* review, and an approval asked for before any work.
Every == {Setup(r, g, FALSE, TRUE, Alone) : r, g \in BOOLEAN} \cup SignedOff
           \cup {Setup(TRUE, TRUE, FALSE, FALSE, Alone)}
=============================================================================
