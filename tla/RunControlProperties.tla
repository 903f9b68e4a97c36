------------------------ MODULE RunControlProperties ------------------------
(* What the control of the runner promises. *)
EXTENDS RunControl

----------------------------------------------------------------------------
(* Invariants *)

\* Every variable has its type.
TypeOK ==
  /\ desired \in Desired \cup {"none"}
  /\ beat \in [pid: Runners \cup {Nobody}, fresh: BOOLEAN]
  /\ comments \in Seq(Verbs) /\ Len(comments) <= MaxComments
  /\ proc \in [Runners -> [pc: Stages, state: {"paused", "running", "stopped"}, told: BOOLEAN,
                           last: Desired \cup {"none"}, cursor: Nat, next: Nat \ {0},
                           writing: SUBSET Threads, stamped: BOOLEAN]]
  /\ raced \in BOOLEAN /\ obeyed \in 0..MaxComments

\* Two processes serve one storage only when one looked for an owner while the other had no
\* whole stamp on file, because it had yet to make its first, was in the middle of one, or
\* the last one failed: never because a stamp was old, because one was started in the
\* foreground or because the last one is still winding down.
OneRunner == raced \/ Cardinality({p \in Runners : Serves(p)}) <= 1

\* "Exactly one runner per storage" (build_scheduler).  Violated by the code while a
\* process has no whole stamp on file.
ExactlyOne == Cardinality({p \in Runners : Serves(p)}) <= 1

----------------------------------------------------------------------------
(* Actions *)

\* "... so a command fires exactly once" (ControlChannel.poll).  Violated by the code:
\* the cursor is that of the process, and each new process obeys the old comments again.
CommandFiresOnce == [][\A p \in Runners : Obey(p) => proc[p].next > obeyed]_vars

----------------------------------------------------------------------------
(* Liveness *)

\* A stop written for a runner that turns its loop ends the process, unless it is
\* overwritten first or the control thread dies of an exception.
StopLands ==
  \A p \in Runners :
    desired = "stopped" /\ Loops(p)
      ~> ~Exists(p) \/ proc[p].pc = "dead" \/ desired # "stopped"

\* Each command commented is obeyed by a runner that goes on turning its loop.
CommandHeard ==
  \A p \in Runners, i \in 1..MaxComments :
    i <= Len(comments) /\ Loops(p) ~> proc[p].next > i \/ ~Loops(p)
=============================================================================
