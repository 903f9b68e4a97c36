-------------------------- MODULE RunControlProofs --------------------------
(***************************************************************************)
(* For any set of process identifiers and any number of commands,          *)
(* comments, faults and processes: every variable of RunControl keeps its  *)
(* type, and one storage has one runner unless a process looked for an     *)
(* owner while another had no whole stamp on file.                         *)
(***************************************************************************)
EXTENDS RunControlProperties, FiniteSetTheorems, TLAPS

Process == [pc: Stages, state: {"paused", "running", "stopped"}, told: BOOLEAN,
            last: Desired \cup {"none"}, cursor: Nat, next: Nat \ {0},
            writing: SUBSET Threads, stamped: BOOLEAN]

\* A process has polled no comment that is not there, and stamps only once it serves.
ProcInv ==
  \A p \in Runners : /\ proc[p].cursor <= Len(comments)
                     /\ proc[p].stamped => Serves(p)

TypeInv == TypeOK /\ ProcInv

\* Unless one looked at the wrong time: who serves is alone, and runner.json names it for as
\* long as its last stamp is on file, however old the stamp is.
AloneInv ==
  \/ raced
  \/ /\ \A p, q \in Runners : Serves(p) /\ Serves(q) => p = q
     /\ \A p \in Runners : Serves(p) /\ proc[p].stamped => beat.pid = p

----------------------------------------------------------------------------
(* What an action makes of the processes *)

\* One process becomes r, the others stay what they are.
LEMMA Turn ==
  ASSUME proc \in [Runners -> Process], NEW p \in Runners, NEW r \in Process, Goes(p, r)
  PROVE  /\ proc' \in [Runners -> Process]
         /\ proc'[p] = r
         /\ \A q \in Runners : q # p => proc'[q] = proc[q]
BY DEF Goes

\* A command is obeyed by a process, which stays a process.
LEMMA ObeyedType ==
  ASSUME NEW r \in Process, NEW d \in Desired, NEW then \in Stages
  PROVE  /\ Obeyed(r, d, then) \in Process
         /\ Obeyed(r, d, then).pc \in {then, "reload"}
         /\ Obeyed(r, d, then).cursor = r.cursor
         /\ Obeyed(r, d, then).stamped = r.stamped
BY DEF Obeyed, Paused, Stopped, Process, Desired, Stages

\* The processes as the type invariant has them.
LEMMA ProcTyped == TypeOK => proc \in [Runners -> Process]
BY DEF TypeOK, Process

\* A process that is gone is a process.
LEMMA GoneIsProcess ==
  /\ Gone \in Process /\ Gone.pc = "off" /\ Gone.cursor = 0 /\ Gone.stamped = FALSE
BY DEF Process, Gone, Stages, Desired, Threads

\* What a step of process p leaves of it.
Effect(p) ==
  /\ proc' \in [Runners -> Process]
  /\ \A q \in Runners : q # p => proc'[q] = proc[q]
  /\ proc'[p].cursor <= Len(comments)

\* A thread opens or writes runner.json: a process that counts its stamp as whole has named
\* itself there.
LEMMA StampEffect ==
  ASSUME TypeInv, NEW p \in Runners, Serves(p),
         NEW thread \in Threads, NEW then \in Stages \ {"off", "boot"},
         Opens(p, thread) \/ Writes(p, thread, then)
  PROVE  /\ Effect(p) /\ Serves(p)'
         /\ beat' \in {[pid |-> Nobody, fresh |-> FALSE], [pid |-> p, fresh |-> TRUE]}
         /\ proc'[p].stamped => beat' = [pid |-> p, fresh |-> TRUE]
<1> DEFINE r == proc[p]
<1>1. proc \in [Runners -> Process] /\ r \in Process /\ r.cursor <= Len(comments)
  BY ProcTyped DEF TypeInv, TypeOK, ProcInv
<1>2. CASE Opens(p, thread)
  <2> DEFINE w == r.writing \cup {thread}
             s == [r EXCEPT !.writing = w, !.stamped = FALSE]
  <2>1. w \in SUBSET Threads
    BY <1>1 DEF Process
  <2>2. s \in Process /\ s.pc = r.pc /\ s.cursor = r.cursor /\ s.stamped = FALSE
    <3> HIDE DEF w
    <3>1. QED
      BY <1>1, <2>1 DEF Process
  <2>3. Goes(p, s) /\ beat' = [pid |-> Nobody, fresh |-> FALSE]
    BY <1>2 DEF Opens
  <2> HIDE DEF s
  <2>4. QED
    BY <1>1, <2>2, <2>3, Turn DEF Effect, Serves
<1>3. CASE Writes(p, thread, then)
  <2>1. PICK whole \in BOOLEAN, rest \in SUBSET Threads :
          /\ beat' = [pid |-> IF whole THEN p ELSE Nobody, fresh |-> whole]
          /\ Goes(p, [r EXCEPT !.pc = then, !.writing = rest, !.stamped = whole /\ rest = {}])
    <3> DEFINE rest == r.writing \ {thread}
    <3>1. rest \in SUBSET Threads
      BY <1>1 DEF Process
    <3>2. CASE /\ beat' = [pid |-> p, fresh |-> TRUE]
               /\ Goes(p, [r EXCEPT !.pc = then, !.writing = rest,
                                    !.stamped = TRUE /\ rest = {}])
      <4> HIDE DEF rest
      <4>1. WITNESS TRUE \in BOOLEAN, rest \in SUBSET Threads
      <4>2. QED
        BY <3>2
    <3>3. CASE /\ beat' = [pid |-> Nobody, fresh |-> FALSE]
               /\ Goes(p, [r EXCEPT !.pc = then, !.writing = rest,
                                    !.stamped = FALSE /\ rest = {}])
      <4> HIDE DEF rest
      <4>1. WITNESS FALSE \in BOOLEAN, rest \in SUBSET Threads
      <4>2. QED
        BY <3>3
    <3>4. QED
      BY <1>3, <3>2, <3>3 DEF Writes
  <2> DEFINE whose == whole /\ rest = {}
             s == [r EXCEPT !.pc = then, !.writing = rest, !.stamped = whose]
  <2>2. Goes(p, s)
    BY <2>1
  <2>3. whose \in BOOLEAN /\ (whose => whole)
    OBVIOUS
  <2> HIDE DEF whose
  <2>4. s \in Process /\ s.pc = then /\ s.cursor = r.cursor /\ s.stamped = whose
    BY <1>1, <2>3 DEF Process
  <2> HIDE DEF s
  <2>5. Effect(p) /\ proc'[p].pc = then /\ proc'[p].stamped = whose
    BY <1>1, <2>2, <2>4, Turn DEF Effect
  <2>6. QED
    BY <2>1, <2>3, <2>5 DEF Serves
<1>4. QED
  BY <1>2, <1>3

\* A turn of the control loop, which neither begins nor ends the process.
LEMMA LoopEffect ==
  ASSUME TypeInv, NEW p \in Runners, Loop(p)
  PROVE  /\ Effect(p)
         /\ Serves(p) /\ proc'[p].pc \notin {"off", "boot"}
         /\ beat' \in {beat, [pid |-> Nobody, fresh |-> FALSE], [pid |-> p, fresh |-> TRUE]}
         /\ proc'[p].stamped => \/ proc[p].stamped /\ beat' = beat
                               \/ beat' = [pid |-> p, fresh |-> TRUE]
<1> DEFINE r == proc[p]
<1>1. /\ proc \in [Runners -> Process] /\ r \in Process /\ r.cursor <= Len(comments)
      /\ comments \in Seq(Verbs) /\ Len(comments) \in Nat /\ desired \in Desired \cup {"none"}
  BY ProcTyped DEF TypeInv, TypeOK, ProcInv
<1> USE DEF Effect, Serves, At
<1>2. CASE Reconcile(p)
  <2>1. CASE desired \in {"none", r.last}
    <3> DEFINE s == [r EXCEPT !.pc = "beat"]
    <3>1. s \in Process /\ s.pc = "beat" /\ s.cursor = r.cursor /\ s.stamped = r.stamped
      BY <1>1 DEF Process, Stages
    <3>2. Goes(p, s)
      BY <1>2, <2>1 DEF Reconcile
    <3> HIDE DEF s
    <3>3. QED
      BY <1>1, <1>2, <3>1, <3>2, Turn DEF Reconcile, files
  <2>2. CASE desired \notin {"none", r.last}
    <3> DEFINE t == [r EXCEPT !.last = desired]
               s == Obeyed(t, desired, "beat")
    <3>1. t \in Process /\ t.cursor = r.cursor /\ t.stamped = r.stamped
      BY <1>1 DEF Process
    <3>2. Goes(p, s)
      BY <1>2, <2>2 DEF Reconcile
    <3>3. desired \in Desired /\ "beat" \in Stages
      BY <1>1, <2>2 DEF Stages
    <3> HIDE DEF t
    <3>4. s \in Process /\ s.pc \in {"beat", "reload"} /\ s.cursor = r.cursor /\ s.stamped = r.stamped
      BY <3>1, <3>3, ObeyedType
    <3> HIDE DEF s
    <3>5. QED
      BY <1>1, <1>2, <3>2, <3>4, Turn DEF Reconcile, files
  <2>3. QED
    BY <2>1, <2>2
<1>3. CASE Reload(p)
  <2> DEFINE s == [r EXCEPT !.pc = IF r.next <= r.cursor THEN "obey" ELSE "beat",
                            !.state = IF r.state = "stopped" THEN r.state ELSE "running"]
  <2>1. s \in Process /\ s.pc \in {"obey", "beat"} /\ s.cursor = r.cursor /\ s.stamped = r.stamped
    BY <1>1 DEF Process, Stages
  <2>2. Goes(p, s)
    BY <1>3 DEF Reload
  <2> HIDE DEF s
  <2>3. QED
    BY <1>1, <1>3, <2>1, <2>2, Turn DEF Reload, files
<1>4. CASE Heartbeat(p)
  <2>0. Serves(p)
    BY <1>4 DEF Heartbeat
  <2>1. CASE Stamps(p, "poll")
    <3>1. Opens(p, "control") \/ Writes(p, "control", "poll")
      BY <2>1 DEF Stamps
    <3>2. "control" \in Threads /\ "poll" \in Stages \ {"off", "boot"}
      BY DEF Threads, Stages
    <3>3. /\ Effect(p) /\ Serves(p)'
          /\ beat' \in {[pid |-> Nobody, fresh |-> FALSE], [pid |-> p, fresh |-> TRUE]}
          /\ proc'[p].stamped => beat' = [pid |-> p, fresh |-> TRUE]
      BY <2>0, <3>1, <3>2, StampEffect
    <3>4. QED
      BY <2>0, <3>3
  <2>2. CASE Goes(p, [r EXCEPT !.pc = "poll"]) /\ UNCHANGED files
    <3> DEFINE s == [r EXCEPT !.pc = "poll"]
    <3>1. s \in Process /\ s.pc = "poll" /\ s.cursor = r.cursor /\ s.stamped = r.stamped
      BY <1>1 DEF Process, Stages
    <3>2. Goes(p, s) /\ beat' = beat
      BY <2>2 DEF files
    <3> HIDE DEF s
    <3>3. QED
      BY <1>1, <2>0, <3>1, <3>2, Turn
  <2>3. QED
    BY <1>4, <2>1, <2>2 DEF Heartbeat
<1>5. CASE Poll(p)
  <2> DEFINE s == Fresh(r)
  <2>1. s \in Process /\ s.pc = "obey" /\ s.cursor = Len(comments) /\ s.stamped = r.stamped
    BY <1>1 DEF Process, Stages, Fresh
  <2>2. Goes(p, s)
    BY <1>5 DEF Poll
  <2> HIDE DEF s
  <2>3. QED
    BY <1>1, <1>5, <2>1, <2>2, Turn DEF Poll, files
<1>6. CASE Obey(p)
  <2> DEFINE n == r.next + 1
             t == [r EXCEPT !.next = n]
             d == Asks[comments[r.next]]
             s == Obeyed(t, d, "obey")
  <2>0. n \in Nat \ {0}
    BY <1>1 DEF Process
  <2>1. t \in Process /\ t.cursor = r.cursor /\ t.stamped = r.stamped
    <3> HIDE DEF n
    <3>1. QED
      BY <1>1, <2>0 DEF Process
  <2>2. r.next \in 1 .. Len(comments)
    BY <1>1, <1>6 DEF Obey, Process
  <2>3. d \in Desired /\ "obey" \in Stages
    BY <1>1, <2>2 DEF Asks, Verbs, Desired, Stages
  <2>4. Goes(p, s)
    BY <1>6 DEF Obey
  <2> HIDE DEF n, t, d
  <2>5. s \in Process /\ s.pc \in {"obey", "reload"} /\ s.cursor = r.cursor /\ s.stamped = r.stamped
    BY <2>1, <2>3, ObeyedType
  <2> HIDE DEF s
  <2>6. QED
    BY <1>1, <1>6, <2>4, <2>5, Turn DEF Obey, files
<1>7. CASE NextTurn(p) \/ Leave(p)
  <2>1. PICK pc \in {"final", "reconcile"} : Goes(p, [r EXCEPT !.pc = pc])
    BY <1>7 DEF NextTurn, Leave
  <2> DEFINE s == [r EXCEPT !.pc = pc]
  <2>2. s \in Process /\ s.pc = pc /\ s.cursor = r.cursor /\ s.stamped = r.stamped
    BY <1>1 DEF Process, Stages
  <2> HIDE DEF s
  <2>3. QED
    BY <1>1, <1>7, <2>1, <2>2, Turn DEF NextTurn, Leave, files, s
<1>8. CASE FinalBeat(p)
  <2>1. Serves(p) /\ (Opens(p, "control") \/ Writes(p, "control", "ended"))
    BY <1>8 DEF FinalBeat, Stamps
  <2>2. "control" \in Threads /\ "ended" \in Stages \ {"off", "boot"}
    BY DEF Threads, Stages
  <2>3. /\ Effect(p) /\ Serves(p)'
        /\ beat' \in {[pid |-> Nobody, fresh |-> FALSE], [pid |-> p, fresh |-> TRUE]}
        /\ proc'[p].stamped => beat' = [pid |-> p, fresh |-> TRUE]
    BY <2>1, <2>2, StampEffect
  <2>4. QED
    BY <2>1, <2>3
<1>9. QED
  BY <1>2, <1>3, <1>4, <1>5, <1>6, <1>7, <1>8 DEF Loop

\* The work thread stamps.
LEMMA WorkEffect ==
  ASSUME TypeInv, NEW p \in Runners, WorkBeat(p) \/ WorkBeatEnds(p)
  PROVE  /\ Effect(p) /\ Serves(p) /\ Serves(p)'
         /\ beat' \in {[pid |-> Nobody, fresh |-> FALSE], [pid |-> p, fresh |-> TRUE]}
         /\ proc'[p].stamped => beat' = [pid |-> p, fresh |-> TRUE]
<1>1. Serves(p) /\ (Opens(p, "work") \/ Writes(p, "work", proc[p].pc))
  BY DEF WorkBeat, WorkBeatEnds, Works
<1>2. "work" \in Threads /\ proc[p].pc \in Stages \ {"off", "boot"}
  BY <1>1, ProcTyped DEF Threads, Serves, TypeInv, Process
<1>3. QED
  BY <1>1, <1>2, StampEffect

\* A process begins, or begins to serve.
LEMMA StartEffect ==
  ASSUME TypeInv, NEW p \in Runners,
         StartRunner(p) \/ Foreground(p) \/ Build(p) \/ Launch(p)
  PROVE  /\ Effect(p)
         /\ proc'[p].stamped = proc[p].stamped
         /\ StartRunner(p) \/ Foreground(p) => ~Serves(p)'
         /\ Build(p) => ~Serves(p)
         /\ Launch(p) => Serves(p) /\ Serves(p)'
<1> DEFINE r == proc[p]
<1>1. /\ proc \in [Runners -> Process] /\ r \in Process /\ r.cursor <= Len(comments)
      /\ Len(comments) \in Nat /\ (r.stamped => Serves(p))
  BY ProcTyped DEF TypeInv, TypeOK, ProcInv
<1> USE DEF Effect
<1>2. CASE StartRunner(p) \/ Foreground(p)
  <2> DEFINE s == [Gone EXCEPT !.pc = "boot"]
  <2>1. s \in Process /\ s.pc = "boot" /\ s.cursor = 0 /\ s.stamped = FALSE
    BY GoneIsProcess DEF Process, Stages
  <2>2. Goes(p, s) /\ r.pc = "off"
    BY <1>2 DEF StartRunner, Foreground, Spawn, Goes, Exists
  <2>3. r.stamped = FALSE
    BY <1>1, <2>2 DEF Serves, Process
  <2> HIDE DEF s
  <2>4. /\ Effect(p) /\ proc'[p].stamped = r.stamped
        /\ ~Serves(p)'
    <3>1. /\ proc' \in [Runners -> Process] /\ proc'[p] = s
          /\ \A q \in Runners : q # p => proc'[q] = proc[q]
      BY <1>1, <2>1, <2>2, Turn
    <3>2. Effect(p)
      BY <1>1, <2>1, <3>1
    <3>3. proc'[p].stamped = r.stamped
      BY <2>1, <2>3, <3>1
    <3>4. QED
      BY <2>1, <3>1, <3>2, <3>3 DEF Serves
  <2>5. ~Build(p) /\ ~Launch(p)
    BY <2>2 DEF Build, Launch
  <2>6. QED
    BY <2>4, <2>5
<1>3. CASE Build(p)
  <2> DEFINE s == [r EXCEPT !.pc = "built"]
  <2>1. s \in Process /\ s.pc = "built" /\ s.cursor = r.cursor /\ s.stamped = r.stamped
    BY <1>1 DEF Process, Stages
  <2>2. Goes(p, s) /\ r.pc = "boot"
    BY <1>3 DEF Build
  <2> HIDE DEF s
  <2>3. Effect(p) /\ proc'[p].stamped = r.stamped
    BY <1>1, <2>1, <2>2, Turn
  <2>4. ~StartRunner(p) /\ ~Foreground(p) /\ ~Launch(p)
    BY <2>2 DEF StartRunner, Foreground, Spawn, Exists, Launch
  <2>5. QED
    BY <2>2, <2>3, <2>4 DEF Serves
<1>4. CASE Launch(p)
  <2> DEFINE s == [r EXCEPT !.pc = "reconcile", !.state = "running"]
  <2>1. s \in Process /\ s.pc = "reconcile" /\ s.cursor = r.cursor /\ s.stamped = r.stamped
    BY <1>1 DEF Process, Stages
  <2>2. Goes(p, s) /\ r.pc = "built"
    BY <1>4 DEF Launch
  <2> HIDE DEF s
  <2>3. Effect(p) /\ proc'[p].stamped = r.stamped /\ Serves(p)'
    BY <1>1, <2>1, <2>2, Turn DEF Serves
  <2>4. ~StartRunner(p) /\ ~Foreground(p) /\ ~Build(p)
    BY <2>2 DEF StartRunner, Foreground, Spawn, Exists, Build
  <2>5. QED
    BY <2>2, <2>3, <2>4 DEF Serves
<1>5. QED
  BY <1>2, <1>3, <1>4

\* A process ends; one whose control thread has died still serves with the other.
LEMMA EndEffect ==
  ASSUME TypeInv, NEW p \in Runners,
         Refused(p) \/ Exit(p) \/ ControlDies(p) \/ Crash(p)
  PROVE  /\ Effect(p)
         /\ proc'[p].stamped => proc[p].stamped
         /\ ControlDies(p) => Serves(p) /\ Serves(p)'
         /\ Refused(p) \/ Exit(p) \/ Crash(p) => ~Serves(p)' /\ ~proc'[p].stamped
<1> DEFINE r == proc[p]
<1>1. /\ proc \in [Runners -> Process] /\ r \in Process /\ r.cursor <= Len(comments)
      /\ Len(comments) \in Nat
  BY ProcTyped DEF TypeInv, TypeOK, ProcInv
<1> USE DEF Effect
<1>2. CASE Refused(p) \/ Exit(p) \/ Crash(p)
  <2>1. Gone \in Process /\ Gone.pc = "off" /\ Gone.cursor = 0 /\ Gone.stamped = FALSE
    BY GoneIsProcess
  <2>2. Goes(p, Gone)
    BY <1>2 DEF Refused, Exit, Crash
  <2>3. proc'[p] = Gone /\ Effect(p)
    BY <1>1, <2>1, <2>2, Turn
  <2>4. ~Serves(p)' /\ ~proc'[p].stamped
    BY <2>1, <2>3 DEF Serves
  <2>5. ~ControlDies(p)
    <3>1. ASSUME ControlDies(p)
          PROVE  proc'[p].pc = "dead"
      BY <1>1, <3>1 DEF ControlDies, Goes, Process
    <3>2. QED
      BY <2>1, <2>3, <3>1
  <2>6. QED
    BY <2>3, <2>4, <2>5
<1>3. CASE ControlDies(p)
  <2> DEFINE s == [r EXCEPT !.pc = "dead"]
  <2>1. s \in Process /\ s.pc = "dead" /\ s.cursor = r.cursor /\ s.stamped = r.stamped
    BY <1>1 DEF Process, Stages
  <2>2. Goes(p, s) /\ r.pc = "obey"
    BY <1>3 DEF ControlDies, At
  <2> HIDE DEF s
  <2>3. Effect(p) /\ proc'[p].stamped = r.stamped /\ proc'[p].pc = "dead"
    BY <1>1, <2>1, <2>2, Turn
  <2>4. ~Refused(p) /\ ~Exit(p) /\ ~Crash(p)
    <3>1. ASSUME Refused(p) \/ Exit(p) \/ Crash(p)
          PROVE  proc'[p].pc = "off"
      BY <1>1, <3>1 DEF Refused, Exit, Crash, Goes, Gone
    <3>2. QED
      BY <2>3, <3>1
  <2>5. QED
    BY <2>2, <2>3, <2>4 DEF Serves
<1>4. QED
  BY <1>2, <1>3

----------------------------------------------------------------------------
(* Types *)

\* The types hold at the start.
LEMMA TypeInit == Init => TypeInv
<1> SUFFICES ASSUME Init
             PROVE  TypeInv
  OBVIOUS
<1>1. Gone \in Process /\ Gone.cursor = 0 /\ Gone.stamped = FALSE
  BY GoneIsProcess
<1>2. proc \in [Runners -> Process]
  BY <1>1 DEF Init
<1>3. comments \in Seq(Verbs) /\ Len(comments) = 0
  BY DEF Init
<1>4. ProcInv
  BY <1>1, <1>3 DEF Init, ProcInv
<1>5. TypeOK
  <2>1. MaxComments \in Nat
    BY RunControlAssumption
  <2>2. comments \in Seq(Verbs) /\ Len(comments) <= MaxComments /\ obeyed \in 0..MaxComments
    BY <1>3, <2>1 DEF Init
  <2>3. /\ desired \in Desired \cup {"none"} /\ raced \in BOOLEAN
        /\ beat \in [pid: Runners \cup {Nobody}, fresh: BOOLEAN]
    BY DEF Init
  <2>4. QED
    BY <1>2, <2>2, <2>3 DEF TypeOK, Process
<1>6. QED
  BY <1>4, <1>5 DEF TypeInv

\* What is not a process keeps its type when the control loop, a start or an end touches it.
LEMMA RestStep ==
  ASSUME TypeInv, NEW p \in Runners,
         \/ StartRunner(p) \/ Foreground(p) \/ Starts(p) \/ Loop(p)
         \/ WorkBeat(p) \/ WorkBeatEnds(p) \/ Exit(p) \/ ControlDies(p) \/ Crash(p)
  PROVE  /\ desired' \in Desired \cup {"none"}
         /\ beat' \in [pid: Runners \cup {Nobody}, fresh: BOOLEAN]
         /\ comments' = comments
         /\ raced' \in BOOLEAN /\ obeyed' \in 0..MaxComments
<1> USE DEF TypeInv, TypeOK
<1>1. CASE StartRunner(p) \/ Foreground(p) \/ Starts(p)
  BY <1>1 DEF StartRunner, Foreground, Starts, Refused, Build, Launch, files, past, Desired
<1>2. CASE Obey(p)
  <2>1. proc[p].next \in Nat \ {0} /\ proc[p].cursor \in Nat /\ proc[p].cursor <= Len(comments)
    BY DEF ProcInv
  <2>2. proc[p].next \in 0..MaxComments
    BY <1>2, <2>1, RunControlAssumption DEF Obey
  <2>3. QED
    BY <1>2, <2>2 DEF Obey, files
<1>3. CASE (Loop(p) /\ ~Obey(p)) \/ WorkBeat(p) \/ WorkBeatEnds(p)
  <2>1. UNCHANGED <<desired, comments, past>>
    BY <1>3 DEF Loop, Reconcile, Reload, Heartbeat, Poll, NextTurn, Leave, FinalBeat, Stamps, files,
                WorkBeat, WorkBeatEnds
  <2>2. beat' \in {beat, [pid |-> Nobody, fresh |-> FALSE], [pid |-> p, fresh |-> TRUE]}
    BY <1>3, LoopEffect, WorkEffect
  <2>3. beat' \in [pid: Runners \cup {Nobody}, fresh: BOOLEAN]
    <3> DEFINE Beats == [pid: Runners \cup {Nobody}, fresh: BOOLEAN]
    <3>1. /\ beat \in Beats /\ [pid |-> p, fresh |-> TRUE] \in Beats
          /\ [pid |-> Nobody, fresh |-> FALSE] \in Beats
      OBVIOUS
    <3> HIDE DEF Beats
    <3>2. beat' \in Beats
      BY <2>2, <3>1
    <3>3. QED
      BY <3>2 DEF Beats
  <2>4. raced' = raced /\ obeyed' = obeyed /\ desired' = desired /\ comments' = comments
    BY <2>1 DEF past
  <2>5. raced' \in BOOLEAN
    BY <2>4 DEF past
  <2>6. obeyed' \in 0..MaxComments /\ desired' \in Desired \cup {"none"}
    BY <2>4
  <2>7. QED
    BY <2>3, <2>4, <2>5, <2>6
<1>4. CASE Exit(p) \/ ControlDies(p) \/ Crash(p)
  <2>1. beat' \in {beat, [pid |-> Nobody, fresh |-> FALSE]} /\ UNCHANGED <<desired, comments, past>>
    BY <1>4 DEF Exit, ControlDies, Crash, Vacated, files
  <2>2. [pid |-> Nobody, fresh |-> FALSE] \in [pid: Runners \cup {Nobody}, fresh: BOOLEAN]
    OBVIOUS
  <2>3. beat' \in [pid: Runners \cup {Nobody}, fresh: BOOLEAN]
    BY <2>1, <2>2
  <2>4. QED
    BY <2>1, <2>3 DEF past
<1>5. QED
  BY <1>1, <1>2, <1>3, <1>4

\* The commands from outside, and the passing of time.
LEMMA OutsideStep ==
  ASSUME TypeInv,
         \/ \E d \in {"running", "paused"} : WriteCommand(d)
         \/ StopRunner
         \/ \E verb \in Verbs : Comment(verb)
         \/ GrowsStale
  PROVE  /\ TypeInv'
         /\ raced' = raced /\ beat'.pid = beat.pid
         /\ \A p \in Runners : /\ proc'[p].pc = proc[p].pc
                               /\ proc'[p].stamped = proc[p].stamped
<1>1. proc \in [Runners -> Process]
  BY ProcTyped DEF TypeInv
<1> USE DEF TypeInv
<1>2. CASE \E d \in {"running", "paused"} : WriteCommand(d)
  BY <1>2 DEF WriteCommand, TypeOK, ProcInv, Serves, Desired, past
<1>3. CASE GrowsStale
  BY <1>3 DEF GrowsStale, TypeOK, ProcInv, Serves, past
<1>4. CASE \E verb \in Verbs : Comment(verb)
  <2>1. PICK verb \in Verbs : Comment(verb)
    BY <1>4
  <2>2. comments' \in Seq(Verbs) /\ Len(comments') = Len(comments) + 1
    BY <2>1 DEF Comment, TypeOK
  <2>3. Len(comments) \in Nat /\ Len(comments') <= MaxComments
    BY <2>1, <2>2, RunControlAssumption DEF Comment, TypeOK
  <2>4. proc' = proc /\ UNCHANGED <<files, past>>
    BY <2>1 DEF Comment
  <2>5. TypeOK'
    BY <2>2, <2>3, <2>4 DEF TypeOK, files, past
  <2>6. \A p \in Runners : proc[p].cursor \in Nat
    BY <1>1 DEF Process
  <2>7. ProcInv'
    BY <2>2, <2>3, <2>4, <2>6 DEF ProcInv, Serves
  <2>8. QED
    BY <2>4, <2>5, <2>7 DEF files, past
<1>5. CASE StopRunner
  <2>1. CASE Alive
    <3> DEFINE p == beat.pid
               r == proc[p]
               s == Stopped(r)
    <3>1. p \in Runners
      BY <2>1 DEF Alive, TypeOK
    <3>2. r \in Process
      BY <1>1, <3>1
    <3>3. s \in Process /\ s.pc = r.pc /\ s.cursor = r.cursor /\ s.stamped = r.stamped
      BY <3>2 DEF Stopped, Process
    <3>4. Goes(p, s) /\ desired' = "stopped" /\ UNCHANGED <<beat, comments, past>>
      BY <1>5, <2>1 DEF StopRunner, Goes, Owner
    <3> HIDE DEF s
    <3>5. /\ proc' \in [Runners -> Process] /\ proc'[p] = s
          /\ \A q \in Runners : q # p => proc'[q] = proc[q]
      BY <1>1, <3>1, <3>3, <3>4, Turn
    <3> HIDE DEF p
    <3>6. TypeOK'
      BY <3>4, <3>5 DEF TypeOK, Process, past, Desired
    <3>7. \A q \in Runners : /\ proc'[q].pc = proc[q].pc /\ proc'[q].cursor = proc[q].cursor
                             /\ proc'[q].stamped = proc[q].stamped
      BY <3>3, <3>5
    <3>8. ProcInv'
      BY <3>4, <3>7 DEF ProcInv, Serves
    <3>9. QED
      BY <3>4, <3>6, <3>7, <3>8 DEF past
  <2>2. CASE ~Alive
    BY <1>5, <2>2 DEF StopRunner, TypeOK, ProcInv, Serves, Desired, past
  <2>3. QED
    BY <2>1, <2>2
<1>6. QED
  BY <1>2, <1>3, <1>4, <1>5

\* Every step keeps the types.
LEMMA TypeStep == TypeInv /\ [Next]_vars => TypeInv'
<1> SUFFICES ASSUME TypeInv, [Next]_vars
             PROVE  TypeInv'
  OBVIOUS
<1>1. ASSUME NEW p \in Runners,
             \/ StartRunner(p) \/ Foreground(p) \/ Starts(p) \/ Loop(p)
             \/ WorkBeat(p) \/ WorkBeatEnds(p) \/ Exit(p) \/ ControlDies(p) \/ Crash(p)
      PROVE  TypeInv'
  <2>1. Effect(p) /\ (proc'[p].stamped => Serves(p)')
    <3>1. CASE Loop(p)
      BY <3>1, LoopEffect DEF Serves
    <3>2. CASE StartRunner(p) \/ Foreground(p) \/ Build(p) \/ Launch(p)
      <4>1. proc[p].stamped => Serves(p)
        BY DEF TypeInv, ProcInv
      <4>2. Build(p) => Serves(p)' \/ ~proc[p].stamped
        BY <4>1, StartEffect
      <4>3. (StartRunner(p) \/ Foreground(p)) => ~proc[p].stamped
        BY <4>1 DEF StartRunner, Foreground, Spawn, Exists, Serves
      <4>4. QED
        BY <3>2, <4>1, <4>2, <4>3, StartEffect
    <3>3. CASE Refused(p) \/ Exit(p) \/ ControlDies(p) \/ Crash(p)
      BY <3>3, EndEffect
    <3>4. CASE WorkBeat(p) \/ WorkBeatEnds(p)
      BY <3>4, WorkEffect
    <3>5. QED
      BY <1>1, <3>1, <3>2, <3>3, <3>4 DEF Starts
  <2>2. /\ desired' \in Desired \cup {"none"}
        /\ beat' \in [pid: Runners \cup {Nobody}, fresh: BOOLEAN]
        /\ comments' = comments
        /\ raced' \in BOOLEAN /\ obeyed' \in 0..MaxComments
    BY <1>1, RestStep
  <2>3. TypeOK'
    BY <2>1, <2>2 DEF TypeInv, TypeOK, Effect, Process
  <2>4. ProcInv'
    BY <2>1, <2>2 DEF TypeInv, ProcInv, Effect, Serves
  <2>5. QED
    BY <2>3, <2>4 DEF TypeInv
<1>2. CASE UNCHANGED vars
  BY <1>2 DEF vars, files, past, TypeInv, TypeOK, ProcInv, Serves
<1>3. QED
  BY <1>1, <1>2, OutsideStep DEF Next

\* Every variable keeps its type, and no process obeys a comment that is not there.
THEOREM RunControlTypes == Spec => []TypeOK
<1>1. TypeInv => TypeOK
  BY DEF TypeInv
<1>2. QED
  BY <1>1, TypeInit, TypeStep, PTL DEF Spec

----------------------------------------------------------------------------
(* One runner *)

\* Nobody serves at the start.
LEMMA AloneInit == Init => AloneInv
BY DEF Init, AloneInv, Serves, Gone

\* Every step keeps the holder of the lock alone.
LEMMA AloneStep == TypeInv /\ AloneInv /\ [Next]_vars => AloneInv'
<1> SUFFICES ASSUME TypeInv, AloneInv, [Next]_vars, ~raced'
             PROVE  AloneInv'
  BY DEF AloneInv
<1> DEFINE Alone ==
      /\ \A p, q \in Runners : Serves(p) /\ Serves(q) => p = q
      /\ \A p \in Runners : Serves(p) /\ proc[p].stamped => beat.pid = p
<1>1. ASSUME NEW p \in Runners, Loop(p) \/ WorkBeat(p) \/ WorkBeatEnds(p)
      PROVE  Alone'
  <2>1. Alone
    BY <1>1 DEF AloneInv, Loop, Reconcile, Reload, Heartbeat, Poll, Obey, NextTurn, Leave, FinalBeat,
                Stamps, WorkBeat, WorkBeatEnds, past
  <2>2. /\ \A q \in Runners : q # p => proc'[q] = proc[q]
        /\ Serves(p)
        /\ proc'[p].stamped => \/ proc[p].stamped /\ beat' = beat
                              \/ beat' = [pid |-> p, fresh |-> TRUE]
    BY <1>1, LoopEffect, WorkEffect DEF Effect
  <2>3. \A q \in Runners : q # p => ~Serves(q)'
    BY <2>1, <2>2 DEF Serves
  <2>4. proc'[p].stamped => beat'.pid = p
    BY <2>1, <2>2
  <2>5. QED
    BY <2>3, <2>4
<1>2. ASSUME NEW p \in Runners, Build(p)
      PROVE  Alone'
  <2>1. Alone /\ \A q \in Runners \ {p} : Serves(q) => proc[q].stamped
    BY <1>2 DEF AloneInv, Build
  <2>2. \A q \in Runners \ {p} : ~Serves(q)
    <3>1. beat.pid = Nobody
      BY <1>2 DEF Build, Owner
    <3>2. QED
      BY <2>1, <3>1, RunControlAssumption
  <2>3. \A q \in Runners : q # p => proc'[q] = proc[q]
    BY <1>2, StartEffect DEF Effect
  <2>4. ~proc'[p].stamped
    <3>1. proc'[p].stamped = proc[p].stamped /\ ~Serves(p)
      BY <1>2, StartEffect
    <3>2. QED
      BY <3>1 DEF TypeInv, ProcInv
  <2>5. QED
    BY <2>2, <2>3, <2>4 DEF Serves
<1>3. ASSUME NEW p \in Runners,
             StartRunner(p) \/ Foreground(p) \/ Launch(p) \/ Refused(p) \/ Exit(p) \/ ControlDies(p) \/ Crash(p)
      PROVE  Alone'
  <2>1. Alone
    BY <1>3 DEF AloneInv, StartRunner, Foreground, Launch, Refused, Exit, ControlDies, Crash, past
  <2>2. /\ \A q \in Runners : q # p => proc'[q] = proc[q]
        /\ Serves(p)' => Serves(p)
        /\ proc'[p].stamped => proc[p].stamped
    BY <1>3, StartEffect, EndEffect DEF Effect
  <2>3. beat' = beat \/ (beat'.pid \in {beat.pid, Nobody} /\ beat.pid = p /\ ~Serves(p)')
    <3>1. CASE Exit(p) \/ Crash(p)
      <4>1. beat' = Vacated(p) /\ ~Serves(p)'
        BY <3>1, EndEffect DEF Exit, Crash
      <4>2. beat \in [pid: Runners \cup {Nobody}, fresh: BOOLEAN]
        BY DEF TypeInv, TypeOK
      <4>3. QED
        BY <4>1, <4>2 DEF Vacated
    <3>2. QED
      BY <1>3, <3>1 DEF StartRunner, Foreground, Launch, Refused, ControlDies, files
  <2>4. \A q \in Runners : Serves(q)' => Serves(q) /\ (proc'[q].stamped => proc[q].stamped)
    BY <2>2 DEF Serves
  <2>5. \A q \in Runners : Serves(q)' /\ proc'[q].stamped => beat'.pid = q
    BY <2>1, <2>3, <2>4
  <2>6. QED
    BY <2>1, <2>4, <2>5
<1>4. CASE \/ \E d \in {"running", "paused"} : WriteCommand(d)
           \/ StopRunner
           \/ \E verb \in Verbs : Comment(verb)
           \/ GrowsStale
  <2>1. /\ raced' = raced /\ beat'.pid = beat.pid
        /\ \A p \in Runners : proc'[p].pc = proc[p].pc /\ proc'[p].stamped = proc[p].stamped
    BY <1>4, OutsideStep
  <2>2. QED
    BY <2>1 DEF AloneInv, Serves
<1>5. CASE UNCHANGED vars
  BY <1>5 DEF vars, files, past, AloneInv, Serves
<1>6. QED
  BY <1>1, <1>2, <1>3, <1>4, <1>5 DEF Next, Starts, AloneInv

\* One storage is served by one process, whoever was started how and however old a stamp is,
\* unless one looked for an owner while another had no whole stamp on file.
THEOREM OneRunnerServes == Spec => []OneRunner
<1>1. AloneInv => OneRunner
  <2> SUFFICES ASSUME AloneInv, ~raced
               PROVE  Cardinality({p \in Runners : Serves(p)}) <= 1
    BY DEF OneRunner
  <2> DEFINE S == {p \in Runners : Serves(p)}
  <2>1. \A p, q \in S : p = q
    BY DEF AloneInv
  <2>2. S = {} \/ \E p : S = {p}
    BY <2>1
  <2> HIDE DEF S
  <2>3. Cardinality(S) \in {0, 1}
    BY <2>2, FS_EmptySet, FS_Singleton
  <2>4. QED
    BY <2>3 DEF S
<1>2. QED
  BY <1>1, TypeInit, TypeStep, AloneInit, AloneStep, PTL DEF Spec

=============================================================================
