----------------------------- MODULE MCTracker -----------------------------
(* Instances of TrackerSync for TLC. *)
EXTENDS TrackerProperties, TLC

CONSTANTS e1, c1, l1, r1, p1, c2

First    == [rev |-> 0, stamp |-> 0]
Note(on) == [on |-> on, rev |-> 0, stamp |-> 0]

\* One labelled entry with a comment someone reacted to, and a pull request with a
\* comment.
MCSeed ==
  [EmptyStore EXCEPT
     !.labels       = {l1},
     !.entries      = e1 :> NewRow(First),
     !.tags         = {<<e1, l1>>},
     !.comments     = c1 :> Note(e1),
     !.reactions    = r1 :> [on |-> c1],
     !.pulls        = p1 :> NewRow(First),
     !.pullComments = c2 :> Note(p1)]
=============================================================================
