----------------------------- MODULE RunControl -----------------------------
(***************************************************************************)
(* Who runs, and who tells it what to do: the processes that serve one     *)
(* storage (executing/run.py, the control loop of executing/scheduler.py), *)
(* the two files through which the command line and the web console        *)
(* command and observe them (executing/runner_control.py), and the CONTROL *)
(* post on whose comments operators give commands (executing/control.py).  *)
(*                                                                         *)
(* A process is spawned, checks that nobody owns the storage, reclaims     *)
(* what an earlier one left in flight and turns its control loop: read     *)
(* control.json, stamp runner.json, poll the CONTROL post, drain.  Its     *)
(* work thread stamps too, for as long as a job runs.  A stamp truncates   *)
(* the file and then writes it, and whoever reads an empty or a torn file  *)
(* reads no record.  A process identifier that died is not reused:         *)
(* runner.json that names a dead process names nobody.                     *)
(***************************************************************************)
EXTENDS Naturals, Sequences, FiniteSets

CONSTANTS
  Runners,      \* process identifiers, each free again when its process is gone
  Nobody,       \* the identifier of no process
  MaxCommands,  \* bound on commands through the command line or the web console
  MaxComments,  \* bound on comments on the CONTROL post
  MaxEvents,    \* bound on crashes, loops that die of an exception, stamps that fail,
                \* stamps that grow old and stamps of work threads
  MaxSpawns     \* bound on processes

ASSUME RunControlAssumption ==
  /\ Nobody \notin Runners
  /\ {MaxCommands, MaxComments, MaxEvents, MaxSpawns} \subseteq Nat

VARIABLES
  desired,   \* control.json
  beat,      \* runner.json: the process it names, Nobody when it cannot be read, and
             \* whether the stamp is fresh
  comments,  \* the commands of approvers on the CONTROL post, oldest first
  proc,      \* the processes
  raced,     \* has a process checked the owner while another had no whole stamp on file
  obeyed,    \* the newest comment any process has obeyed, 0 for none
  budget     \* what is left of the bounds

files == <<desired, beat>>
past  == <<raced, obeyed>>
vars  == <<files, comments, proc, past, budget>>

----------------------------------------------------------------------------

Verbs   == {"start", "pause", "stop"}
Desired == {"running", "paused", "stopped"}
Asks    == [start |-> "running", pause |-> "paused", stop |-> "stopped"]

Stages == {"off", "boot", "built", "reconcile", "reload", "beat", "poll", "obey", "final",
           "ended", "dead"}

Threads == {"control", "work"}

\* writing: the threads in the middle of a stamp; stamped: the last stamp is on file, whole
Gone == [pc |-> "off", state |-> "paused", told |-> FALSE, last |-> "none",
         cursor |-> 0, next |-> 1, writing |-> {}, stamped |-> FALSE]

Exists(p)  == proc[p].pc # "off"
\* a process past the owner check, whose loops run or are about to
Serves(p)  == proc[p].pc \notin {"off", "boot"}
Loops(p)   == Serves(p) /\ proc[p].pc \notin {"built", "final", "ended", "dead"}

\* A guard that takes an old stamp for a dead process.
BugOwner == IF beat.fresh THEN beat.pid ELSE Nobody

\* read_runner_status: alive; pid_is_runner: the process named exists, however old the stamp.
\* A file that cannot be read, being written or torn, names nobody to either.
Alive == beat.pid # Nobody /\ beat.fresh
Owner == beat.pid

Spend(kind) == budget[kind] > 0 /\ budget' = [budget EXCEPT ![kind] = @ - 1]

\* A request_stop that sets the state and forgets the event.
BugStopped(r) == [r EXCEPT !.state = "stopped"]

\* request_stop: final for the process, whichever thread calls it
Stopped(r) == [r EXCEPT !.state = "stopped", !.told = TRUE]
Paused(r)  == [r EXCEPT !.state = IF @ = "stopped" THEN @ ELSE "paused"]

Init ==
  /\ desired = "none" /\ beat = [pid |-> Nobody, fresh |-> FALSE]
  /\ comments = <<>>
  /\ proc = [p \in Runners |-> Gone]
  /\ raced = FALSE /\ obeyed = 0
  /\ budget = [command |-> MaxCommands, event |-> MaxEvents, spawn |-> MaxSpawns]

----------------------------------------------------------------------------
(* The operators *)

\* which free identifier a new process gets makes no difference
Spawn(p) ==
  /\ ~Exists(p) /\ p = CHOOSE q \in Runners : ~Exists(q)
  /\ budget.spawn > 0
  /\ proc' = [proc EXCEPT ![p] = [Gone EXCEPT !.pc = "boot"]]

\* `specseed start`, the console's start button: nothing happens when the file names a
\* live process, be its stamp fresh (alive) or old (busy)
StartRunner(p) ==
  /\ Owner = Nobody /\ Spawn(p)
  /\ desired' = "running"
  /\ budget' = [budget EXCEPT !.spawn = @ - 1]
  /\ UNCHANGED <<beat, comments, past>>

\* `specseed run`, in the foreground
Foreground(p) ==
  /\ Spawn(p)
  /\ budget' = [budget EXCEPT !.spawn = @ - 1]
  /\ UNCHANGED <<files, comments, past>>

\* pause_runner, resume_runner
WriteCommand(d) ==
  /\ Spend("command")
  /\ desired' = d
  /\ UNCHANGED <<beat, comments, proc, past>>

\* stop_runner: the flag, and SIGTERM to the process of a fresh stamp
StopRunner ==
  /\ Spend("command")
  /\ desired' = "stopped"
  /\ proc' = IF Alive THEN [proc EXCEPT ![Owner] = Stopped(@)] ELSE proc
  /\ UNCHANGED <<beat, comments, past>>

\* An approver comments on the CONTROL post; comments of others are never commands.
Comment(verb) ==
  /\ Len(comments) < MaxComments
  /\ comments' = Append(comments, verb)
  /\ UNCHANGED <<files, proc, past, budget>>

----------------------------------------------------------------------------
(* The start of a process *)

Goes(p, r) == proc' = [proc EXCEPT ![p] = r]

\* build_scheduler: the owner check; behind it the reclaim kills what is in flight, also the
\* agent of another process that serves the storage
Refused(p) ==
  /\ proc[p].pc = "boot" /\ Owner # Nobody
  /\ Goes(p, Gone)
  /\ UNCHANGED <<files, comments, past, budget>>

Build(p) ==
  /\ proc[p].pc = "boot" /\ Owner = Nobody
  /\ Goes(p, [proc[p] EXCEPT !.pc = "built"])
  /\ raced' = (raced \/ \E q \in Runners \ {p} : Serves(q) /\ ~proc[q].stamped)
  /\ UNCHANGED <<files, comments, obeyed, budget>>

\* the rest of main: resume_runner overrides the flag an earlier runner left
Launch(p) ==
  /\ proc[p].pc = "built"
  /\ desired' = "running"
  /\ Goes(p, [proc[p] EXCEPT !.pc = "reconcile", !.state = "running"])
  /\ UNCHANGED <<beat, comments, past, budget>>

----------------------------------------------------------------------------
(* The control loop *)

At(p, pc) == proc[p].pc = pc

\* _reconcile_control_file: a value is obeyed when it differs from the one last read.  A file
\* that is being written reads as none and is read again in the next turn: as if the command
\* came after this read.
Obeyed(r, d, then) ==
  CASE d = "paused"  -> [Paused(r) EXCEPT !.pc = then]
    [] d = "running" -> [r EXCEPT !.pc = IF r.state = "stopped" THEN then ELSE "reload"]
    [] d = "stopped" -> [Stopped(r) EXCEPT !.pc = then]

Reconcile(p) ==
  /\ At(p, "reconcile") /\ ~proc[p].told
  /\ Goes(p, IF desired \in {"none", proc[p].last} THEN [proc[p] EXCEPT !.pc = "beat"]
             ELSE Obeyed([proc[p] EXCEPT !.last = desired], desired, "beat"))
  /\ UNCHANGED <<files, comments, past, budget>>

\* resume's second half: the configuration has been read again, and the process may have
\* been told to stop meanwhile.  A resume by comment returns to the commands it came from.
Reload(p) ==
  /\ At(p, "reload")
  /\ Goes(p, [proc[p] EXCEPT !.pc = IF proc[p].next <= proc[p].cursor THEN "obey" ELSE "beat",
                             !.state = IF @ = "stopped" THEN @ ELSE "running"])
  /\ UNCHANGED <<files, comments, past, budget>>

\* write_runner_status empties the file ...
Opens(p, thread) ==
  /\ thread \notin proc[p].writing
  /\ beat' = [pid |-> Nobody, fresh |-> FALSE]
  /\ Goes(p, [proc[p] EXCEPT !.writing = @ \cup {thread}, !.stamped = FALSE])

\* ... and writes it: whole, unless the write fails, which nobody is told, or gets mixed up
\* with that of the other thread.
Writes(p, thread, then) ==
  LET rest == proc[p].writing \ {thread}
      Left(whole) == [proc[p] EXCEPT !.pc = then, !.writing = rest,
                                     !.stamped = whole /\ rest = {}] IN
  /\ thread \in proc[p].writing
  /\ \/ /\ beat' = [pid |-> p, fresh |-> TRUE]
        /\ Goes(p, Left(TRUE)) /\ UNCHANGED budget
     \/ /\ beat' = [pid |-> Nobody, fresh |-> FALSE]
        /\ Goes(p, Left(FALSE)) /\ Spend("event")

\* _heartbeat of the control thread: every exception is swallowed
Stamps(p, then) ==
  /\ \/ Opens(p, "control") /\ UNCHANGED budget
     \/ Writes(p, "control", then)
  /\ UNCHANGED <<desired, comments, past>>

\* at most one stamp every few seconds
Heartbeat(p) ==
  /\ At(p, "beat")
  /\ \/ Stamps(p, "poll")
     \/ /\ "control" \notin proc[p].writing
        /\ Goes(p, [proc[p] EXCEPT !.pc = "poll"])
        /\ UNCHANGED <<files, comments, past, budget>>

\* _heartbeat of the work thread, which outlives the control thread: no lock keeps them apart
Works(p) == Serves(p) /\ ~At(p, "built")

WorkBeat(p) ==
  /\ Works(p) /\ Opens(p, "work") /\ Spend("event")
  /\ UNCHANGED <<desired, comments, past>>

WorkBeatEnds(p) ==
  /\ Works(p) /\ Writes(p, "work", proc[p].pc)
  /\ UNCHANGED <<desired, comments, past>>

\* A paused runner that does not poll.
BugFresh(r) == [r EXCEPT !.cursor = IF r.state = "paused" THEN @ ELSE Len(comments), !.pc = "obey"]

\* ControlChannel.poll: the comments past the cursor, which lives as long as the process.
\* A tracker that does not answer yields no commands.
Fresh(r) == [r EXCEPT !.cursor = Len(comments), !.pc = "obey"]

Poll(p) ==
  /\ At(p, "poll")
  /\ Goes(p, Fresh(proc[p]))
  /\ UNCHANGED <<files, comments, past, budget>>

\* one command of the poll
Obey(p) ==
  LET r == proc[p]
      verb == comments[r.next] IN
  /\ At(p, "obey") /\ r.next <= r.cursor
  /\ Goes(p, Obeyed([r EXCEPT !.next = @ + 1], Asks[verb], "obey"))
  /\ obeyed' = IF r.next > obeyed THEN r.next ELSE obeyed
  /\ UNCHANGED <<files, comments, raced, budget>>

\* The commands are obeyed: sync and drain, when running, and the next turn.
NextTurn(p) ==
  /\ At(p, "obey") /\ proc[p].next > proc[p].cursor
  /\ Goes(p, [proc[p] EXCEPT !.pc = IF proc[p].told THEN "final" ELSE "reconcile"])
  /\ UNCHANGED <<files, comments, past, budget>>

\* a stop that came during the drain is seen at the top of the turn
Leave(p) ==
  /\ At(p, "reconcile") /\ proc[p].told
  /\ Goes(p, [proc[p] EXCEPT !.pc = "final"])
  /\ UNCHANGED <<files, comments, past, budget>>

----------------------------------------------------------------------------
(* The end of a process *)

\* what the files look like once p is no process any more
Vacated(p) == IF beat.pid = p THEN [pid |-> Nobody, fresh |-> FALSE] ELSE beat

\* The final stamp says stopped and names the process, which is still there.
FinalBeat(p) == At(p, "final") /\ Stamps(p, "ended")

\* Both loops have ended: main returns.
Exit(p) ==
  /\ proc[p].pc \in {"ended", "dead"} /\ proc[p].told /\ proc[p].writing = {}
  /\ Goes(p, Gone)
  /\ beat' = Vacated(p)
  /\ UNCHANGED <<desired, comments, past, budget>>

\* A sqlite error out of claim_next or pending_count ends the control thread alone.
ControlDies(p) ==
  /\ At(p, "obey") /\ proc[p].next > proc[p].cursor /\ Spend("event")
  /\ Goes(p, [proc[p] EXCEPT !.pc = "dead"])
  /\ UNCHANGED <<files, comments, past>>

Crash(p) ==
  /\ Exists(p) /\ Spend("event")
  /\ Goes(p, Gone)
  /\ beat' = Vacated(p)
  /\ UNCHANGED <<desired, comments, past>>

\* STALE_AFTER_S passes without a stamp: a tracker call that hangs, a machine asleep
GrowsStale ==
  /\ beat.fresh /\ Spend("event")
  /\ beat' = [beat EXCEPT !.fresh = FALSE]
  /\ UNCHANGED <<desired, comments, proc, past>>

----------------------------------------------------------------------------

Loop(p) ==
  \/ Reconcile(p) \/ Reload(p) \/ Heartbeat(p) \/ Poll(p) \/ Obey(p)
  \/ NextTurn(p) \/ Leave(p) \/ FinalBeat(p)

Starts(p) == Refused(p) \/ Build(p) \/ Launch(p)

Next ==
  \/ \E p \in Runners :
       \/ StartRunner(p) \/ Foreground(p) \/ Starts(p) \/ Loop(p)
       \/ WorkBeat(p) \/ WorkBeatEnds(p) \/ Exit(p) \/ ControlDies(p) \/ Crash(p)
  \/ \E d \in {"running", "paused"} : WriteCommand(d)
  \/ StopRunner
  \/ \E verb \in Verbs : Comment(verb)
  \/ GrowsStale

\* A process that can take a step of its own, the end of a stamp or its own end among them,
\* takes one: the work loop of a process told to stop ends (StopTerminates of Scheduler).
\* Operators, faults and time owe nothing.
Fairness == \A p \in Runners : WF_vars(Starts(p) \/ Loop(p) \/ WorkBeatEnds(p) \/ Exit(p))

Spec     == Init /\ [][Next]_vars
FairSpec == Spec /\ Fairness
=============================================================================
