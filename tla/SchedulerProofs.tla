-------------------------- MODULE SchedulerProofs --------------------------
(***************************************************************************)
(* SafetyInv is inductive.  The steps are split once: the quiet ones, which *)
(* neither take a row up nor let one go (QuietStep), and Claim, Finish,     *)
(* Recover, the death of the process and its restart.  Each part of the    *)
(* invariant is then one lemma over that split, and the theorems at the end *)
(* hold for every number of posts, ids, retries, crashes and commands.     *)
(***************************************************************************)
EXTENDS SchedulerProperties, TLAPS

----------------------------------------------------------------------------
(* The operations of the task table: each keeps it well-typed, and each changes at most *)
(* one row, in a way that never brings a deleted row back and never hands out an id     *)
(* twice.                                                                               *)

\* A row that does not exist has the type of a row, like any other.
LEMMA AbsentIsRow == Absent \in Row
BY DEF Absent, Row, Kinds, EventKinds, WorkKinds, Statuses, NoTask

\* What an absent row reads.
LEMMA AbsentFields == Absent.status = "absent" /\ Absent.kind = "entry"
BY DEF Absent

\* Each operation of the table keeps its rows and its id counter well-typed.
LEMMA EnqueueTyped ==
  ASSUME QueueTypeOK, NEW kind \in Kinds, NEW post \in Posts \cup {NoPost},
         NEW ref \in Ids \cup {NoTask}, Enqueue(kind, post, ref)
  PROVE  QueueTypeOK'
<1> DEFINE row == [kind |-> kind, post |-> post, status |-> "pending",
                   attempts |-> 0, due |-> TRUE, ref |-> ref]
<1>1. row \in Row
  BY DEF Row, Statuses
<1>2. tasks' \in [Ids -> Row]
  BY <1>1 DEF QueueTypeOK, Enqueue
<1>3. nextId' \in 1..(MaxTasks + 1)
  BY QueueAssumption DEF QueueTypeOK, Enqueue
<1> QED BY <1>2, <1>3 DEF QueueTypeOK

\* A claim keeps the table's types.
LEMMA ClaimTyped ==
  ASSUME QueueTypeOK, NEW l, NEW t \in Ids, ClaimNext(l, t)
  PROVE  QueueTypeOK' /\ tasks'[t] \in Row
<1>1. tasks[t] \in Row /\ tasks[t].attempts + 1 \in Nat
  BY DEF QueueTypeOK, Row
<1>2. \A r \in Row, n \in Nat : [r EXCEPT !.status = "in_progress", !.attempts = n] \in Row
  BY DEF Row, Statuses
<1>3. [tasks[t] EXCEPT !.status = "in_progress", !.attempts = tasks[t].attempts + 1] \in Row
  BY <1>1, <1>2
<1>4. tasks' \in [Ids -> Row]
  BY <1>3 DEF QueueTypeOK, ClaimNext
<1> QED BY <1>4 DEF QueueTypeOK, ClaimNext

\* So does an update,
LEMMA UpdateTyped ==
  ASSUME QueueTypeOK, NEW t \in Ids, NEW status \in Statuses, NEW due \in BOOLEAN,
         Update(t, status, due)
  PROVE  QueueTypeOK'
<1>1. [tasks[t] EXCEPT !.status = status, !.due = due] \in Row
  BY DEF QueueTypeOK, Row
<1> QED BY <1>1 DEF QueueTypeOK, Update

\* a removal,
LEMMA RemoveTyped ==
  ASSUME QueueTypeOK, NEW t \in Ids, Remove(t)
  PROVE  QueueTypeOK'
BY AbsentIsRow DEF QueueTypeOK, Remove

\* the reset of the rows in progress,
LEMMA ResetTyped ==
  ASSUME QueueTypeOK, ResetInProgress
  PROVE  QueueTypeOK'
<1>1. \A t \in Ids : [tasks[t] EXCEPT !.status = "pending"] \in Row
  BY DEF QueueTypeOK, Row, Statuses
<1> QED BY <1>1 DEF QueueTypeOK, ResetInProgress

\* and a row that becomes due.
LEMMA DueTyped ==
  ASSUME QueueTypeOK, NEW t \in Ids, BecomeDue(t)
  PROVE  QueueTypeOK'
<1>1. [tasks[t] EXCEPT !.due = TRUE] \in Row
  BY DEF QueueTypeOK, Row
<1> QED BY <1>1 DEF QueueTypeOK, BecomeDue

\* What each operation does to the rows: one row at most changes, the others,
\* its kind, its post and its reference stay.
LEMMA EnqueueEffect ==
  ASSUME QueueTypeOK, NEW kind, NEW post, NEW ref, Enqueue(kind, post, ref)
  PROVE  /\ nextId \in Ids /\ nextId' = nextId + 1
         /\ \A u \in Ids : u # nextId => tasks'[u] = tasks[u]
         /\ tasks'[nextId].status = "pending" /\ tasks'[nextId].attempts = 0
         /\ tasks'[nextId].kind = kind /\ tasks'[nextId].ref = ref
BY QueueAssumption DEF QueueTypeOK, Enqueue, Ids

\* What a claim does to the rows.
LEMMA ClaimEffect ==
  ASSUME QueueTypeOK, NEW l, NEW t \in Ids, ClaimNext(l, t)
  PROVE  /\ nextId' = nextId
         /\ \A u \in Ids : u # t => tasks'[u] = tasks[u]
         /\ tasks[t].status = "pending" /\ tasks'[t].status = "in_progress"
         /\ tasks[t].attempts \in Nat /\ tasks'[t].attempts = tasks[t].attempts + 1
         /\ tasks'[t].kind = tasks[t].kind /\ tasks'[t].ref = tasks[t].ref
<1>1. tasks[t] \in Row
  BY DEF QueueTypeOK
<1>2. tasks'[t] = [tasks[t] EXCEPT !.status = "in_progress", !.attempts = tasks[t].attempts + 1]
  BY DEF QueueTypeOK, ClaimNext
<1>3. tasks[t].attempts \in Nat
  BY <1>1 DEF Row
<1>4. \A n : \A r \in Row : LET q == [r EXCEPT !.status = "in_progress", !.attempts = n] IN
        q.status = "in_progress" /\ q.attempts = n /\ q.kind = r.kind /\ q.ref = r.ref
  BY DEF Row
<1>5. /\ tasks'[t].status = "in_progress" /\ tasks'[t].attempts = tasks[t].attempts + 1
      /\ tasks'[t].kind = tasks[t].kind /\ tasks'[t].ref = tasks[t].ref
  BY <1>1, <1>2, <1>4
<1> QED BY <1>3, <1>5 DEF QueueTypeOK, ClaimNext, Claimable, InStatus

\* What an update does to the rows.
LEMMA UpdateEffect ==
  ASSUME QueueTypeOK, NEW t \in Ids, NEW status, NEW due, Update(t, status, due)
  PROVE  /\ nextId' = nextId
         /\ \A u \in Ids : u # t => tasks'[u] = tasks[u]
         /\ ~Present(t) => tasks'[t] = tasks[t]
         /\ Present(t) => tasks'[t].status = status
         /\ tasks'[t].attempts = tasks[t].attempts
         /\ tasks'[t].kind = tasks[t].kind /\ tasks'[t].ref = tasks[t].ref
BY DEF QueueTypeOK, Update, Row

\* What a removal does to the rows.
LEMMA RemoveEffect ==
  ASSUME QueueTypeOK, NEW t \in Ids, Remove(t)
  PROVE  /\ nextId' = nextId
         /\ \A u \in Ids : u # t => tasks'[u] = tasks[u]
         /\ tasks'[t] = Absent
BY DEF QueueTypeOK, Remove

\* What the reset does to the rows.
LEMMA ResetEffect ==
  ASSUME QueueTypeOK, ResetInProgress
  PROVE  /\ nextId' = nextId
         /\ \A u \in Ids :
              /\ tasks[u].status # "in_progress" => tasks'[u] = tasks[u]
              /\ tasks[u].status = "in_progress" => tasks'[u].status = "pending"
              /\ tasks'[u].attempts = tasks[u].attempts
              /\ tasks'[u].kind = tasks[u].kind /\ tasks'[u].ref = tasks[u].ref
BY DEF QueueTypeOK, ResetInProgress, Row

\* What becoming due does to the rows.
LEMMA DueEffect ==
  ASSUME QueueTypeOK, NEW t \in Ids, BecomeDue(t)
  PROVE  /\ nextId' = nextId
         /\ \A u \in Ids : u # t => tasks'[u] = tasks[u]
         /\ tasks[t].status = "pending" /\ tasks'[t].status = "pending"
         /\ tasks'[t].attempts = tasks[t].attempts
         /\ tasks'[t].kind = tasks[t].kind /\ tasks'[t].ref = tasks[t].ref
BY DEF QueueTypeOK, BecomeDue, Row

----------------------------------------------------------------------------
(* Threads *)

\* A thread that moves on, or ends with an outcome, stays a thread and keeps
\* its task, the row it claimed and the result it read.
LEMMA ThreadMoves ==
  ASSUME NEW th \in Thread, NEW pc \in PCs
  PROVE  /\ [th EXCEPT !.pc = pc] \in Thread
         /\ [th EXCEPT !.pc = pc].pc = pc
         /\ [th EXCEPT !.pc = pc].task = th.task
         /\ [th EXCEPT !.pc = pc].row = th.row
         /\ [th EXCEPT !.pc = pc].read = th.read
         /\ [th EXCEPT !.pc = pc].out = th.out
BY DEF Thread

\* A thread that reports an outcome changes in nothing else.
LEMMA ThreadReports ==
  ASSUME NEW th \in Thread, NEW out \in Outs
  PROVE  /\ [th EXCEPT !.out = out] \in Thread
         /\ [th EXCEPT !.out = out].pc = th.pc
         /\ [th EXCEPT !.out = out].task = th.task
         /\ [th EXCEPT !.out = out].row = th.row
         /\ [th EXCEPT !.out = out].read = th.read
         /\ [th EXCEPT !.out = out].out = out
BY DEF Thread

\* A thread at rest is a thread.
LEMMA RestIsThread ==
  ASSUME NEW pc \in PCs
  PROVE  Rest(pc) \in Thread /\ Rest(pc).pc = pc
BY AbsentIsRow DEF Rest, Thread, Outs

\* What going on does to the threads.
LEMMA GotoEffect ==
  ASSUME thr \in [Lanes -> Thread], NEW l \in Lanes, NEW pc \in PCs, Goto(l, pc)
  PROVE  /\ thr' \in [Lanes -> Thread]
         /\ \A k \in Lanes : k # l => thr'[k] = thr[k]
         /\ thr'[l].pc = pc /\ thr'[l].task = thr[l].task /\ thr'[l].out = thr[l].out
         /\ thr'[l].row = thr[l].row /\ thr'[l].read = thr[l].read
<1>1. thr[l] \in Thread /\ thr'[l] = [thr[l] EXCEPT !.pc = pc]
  BY DEF Goto
<1>2. thr'[l] \in Thread
  BY <1>1, ThreadMoves
<1> QED BY <1>1, <1>2, ThreadMoves DEF Goto

\* What the end of a job does to the threads.
LEMMA EndedEffect ==
  ASSUME thr \in [Lanes -> Thread], NEW l \in Lanes, NEW out \in Outs, Ended(l, out)
  PROVE  /\ thr' \in [Lanes -> Thread]
         /\ \A k \in Lanes : k # l => thr'[k] = thr[k]
         /\ thr'[l].pc = "ended" /\ thr'[l].task = thr[l].task /\ thr'[l].out = out
         /\ thr'[l].row = thr[l].row /\ thr'[l].read = thr[l].read
<1> DEFINE mid == [thr[l] EXCEPT !.pc = "ended"]
<1>1. thr[l] \in Thread /\ "ended" \in PCs
  BY DEF PCs
<1>2. thr'[l] = [mid EXCEPT !.out = out] /\ \A k \in Lanes : k # l => thr'[k] = thr[k]
  BY DEF Ended
<1>3. mid \in Thread /\ mid.pc = "ended" /\ mid.task = thr[l].task
      /\ mid.row = thr[l].row /\ mid.read = thr[l].read
  BY <1>1, ThreadMoves
<1> HIDE DEF mid
<1>4. /\ thr'[l] \in Thread /\ thr'[l].pc = "ended" /\ thr'[l].task = thr[l].task
      /\ thr'[l].out = out
      /\ thr'[l].row = thr[l].row /\ thr'[l].read = thr[l].read
  BY <1>2, <1>3, ThreadReports
<1> QED BY <1>2, <1>4 DEF Ended

----------------------------------------------------------------------------
\* The safety invariant holds at the start.
LEMMA InitSafe == Init => SafetyInv
<1> SUFFICES ASSUME Init PROVE SafetyInv
  OBVIOUS
<1>1. QueueTypeOK
  BY AbsentIsRow, QueueAssumption DEF Init, QueueTypeOK, QueueInit
<1>2. thr \in [Lanes -> Thread]
  BY RestIsThread DEF Init, PCs
<1>3. sweep \in [post: Posts \cup {NoPost}, kind: EventKinds \cup {"none"},
                drop: SUBSET Ids, cut: SUBSET (Ids \X Nat)]
  BY DEF Init, NoSweep
<1>4. budget \in [human: Nat, stops: Nat, faults: Nat]
  BY SchedulerAssumption DEF Init
<1>5. TypeOK
  BY <1>1, <1>2, <1>3, <1>4 DEF TypeOK, Init
<1>6. IdsInv /\ HeldInv
  BY DEF Init, QueueInit, IdsInv, HeldInv, Absent, Rest, Holding, Busy, Lanes
<1>7. InProgressOwned /\ InterruptInv /\ InterruptReaches /\ ResultInv /\ AppliedOnce
  BY DEF Init, QueueInit, InProgressOwned, InStatus, Absent, Rest, Lanes, NoSweep, Executing,
         InterruptInv, InterruptReaches, ResultInv, AppliedOnce
<1> QED BY <1>5, <1>6, <1>7 DEF SafetyInv

----------------------------------------------------------------------------
(* Types *)

\* Budgets are only spent while there is something left.
LEMMA SpendTyped ==
  ASSUME budget \in [human: Nat, stops: Nat, faults: Nat],
         NEW b \in {"human", "stops", "faults"}, Spend(b)
  PROVE  budget' \in [human: Nat, stops: Nat, faults: Nat]
<1>1. budget[b] \in Nat /\ budget[b] > 0
  BY DEF Spend
<1>2. budget[b] - 1 \in Nat
  BY <1>1
<1> DEFINE rest == budget[b] - 1
<1>3. budget' = [budget EXCEPT ![b] = rest] /\ rest \in Nat
  BY <1>2 DEF Spend
<1> HIDE DEF rest
<1> QED BY <1>3

\* A step that leaves the table alone keeps it well-typed.
LEMMA SameTable ==
  ASSUME QueueTypeOK, UNCHANGED queueVars
  PROVE  QueueTypeOK'
BY DEF QueueTypeOK, queueVars

\* Scheduling a job keeps the table well-typed, whether one was queued or not.
LEMMA ScheduleTyped ==
  ASSUME QueueTypeOK, NEW p \in Posts \cup {NoPost}, NEW kind \in Kinds, Schedule(p, kind)
  PROVE  QueueTypeOK'
BY EnqueueTyped, SameTable DEF Schedule, NoTask

\* The row a thread carries is a row.
LEMMA ThreadRow ==
  ASSUME thr \in [Lanes -> Thread], NEW l \in Lanes
  PROVE  /\ thr[l].row \in Row /\ thr[l].task \in Ids \cup {NoTask} /\ thr[l].pc \in PCs
         /\ thr[l].out \in Outs
         /\ thr[l].row.post \in Posts \cup {NoPost} /\ thr[l].row.kind \in Kinds
         /\ thr[l].row.attempts \in Nat /\ thr[l].row.ref \in Ids \cup {NoTask}
BY DEF Thread, Row

\* Recovery leaves its thread at rest, on its way home or to escalate.
LEMMA RecoverRests ==
  ASSUME SafetyInv, NEW l \in Lanes, Recover(l)
  PROVE  /\ thr' \in [Lanes -> Thread]
         /\ \A k \in Lanes : k # l => thr'[k] = thr[k]
         /\ thr'[l].pc \in {"drain", "top", "escalate"}
<1>1. thr \in [Lanes -> Thread]
  BY DEF SafetyInv, TypeOK
<1>2. PICK pc \in {"drain", "top", "escalate"} : thr' = [thr EXCEPT ![l] = Rest(pc)]
  BY DEF Recover, Home
<1>3. Rest(pc) \in Thread /\ Rest(pc).pc = pc
  BY RestIsThread DEF PCs
<1> QED BY <1>1, <1>2, <1>3

\* So does finishing, unless recovery is next.
LEMMA FinishRests ==
  ASSUME SafetyInv, NEW l \in Lanes, Finish(l)
  PROVE  /\ thr' \in [Lanes -> Thread]
         /\ \A k \in Lanes : k # l => thr'[k] = thr[k]
         /\ thr'[l].pc \in {"recover", "drain", "top"}
<1>1. thr \in [Lanes -> Thread] /\ thr[l] \in Thread
  BY DEF SafetyInv, TypeOK
<1>2. \/ thr' = [thr EXCEPT ![l] = [thr[l] EXCEPT !.pc = "recover"]]
      \/ thr' = [thr EXCEPT ![l] = Rest(Home(l))]
  BY <1>1 DEF Finish
<1>3. CASE thr' = [thr EXCEPT ![l] = [thr[l] EXCEPT !.pc = "recover"]]
  <2>1. [thr[l] EXCEPT !.pc = "recover"] \in Thread /\ [thr[l] EXCEPT !.pc = "recover"].pc = "recover"
    BY <1>1, ThreadMoves DEF PCs
  <2> QED BY <1>1, <1>3, <2>1
<1>4. CASE thr' = [thr EXCEPT ![l] = Rest(Home(l))]
  <2>1. Rest(Home(l)) \in Thread /\ Rest(Home(l)).pc \in {"drain", "top"}
    BY RestIsThread DEF PCs, Home
  <2> QED BY <1>1, <1>4, <2>1
<1> QED BY <1>2, <1>3, <1>4

\* Every step keeps every variable in its type.
LEMMA TypeStep == SafetyInv /\ [Next]_vars => TypeOK'
<1> SUFFICES ASSUME SafetyInv, [Next]_vars PROVE TypeOK'
  OBVIOUS
<1>a. TypeOK /\ QueueTypeOK /\ thr \in [Lanes -> Thread] /\ IdsInv /\ HeldInv /\ ResultInv
  BY DEF SafetyInv, TypeOK
<1>b. "control" \in Lanes /\ "work" \in Lanes
  BY DEF Lanes
<1>1. CASE UNCHANGED vars
  BY <1>1, <1>a DEF TypeOK, QueueTypeOK, vars, memory, disk, history
<1>2. ASSUME NEW p \in Posts, NEW field \in {"open", "label"}, HumanFlips(p, field) PROVE TypeOK'
  <2>1. \A r \in [open: BOOLEAN, label: BOOLEAN] :
          [r EXCEPT ![field] = ~r[field]] \in [open: BOOLEAN, label: BOOLEAN]
    OBVIOUS
  <2>2. remote' \in [Posts -> [open: BOOLEAN, label: BOOLEAN]]
    BY <1>a, <1>2, <2>1 DEF TypeOK, HumanFlips
  <2>3. budget' \in [human: Nat, stops: Nat, faults: Nat]
    BY <1>a, <1>2, SpendTyped DEF TypeOK, HumanFlips
  <2> QED BY <1>a, <1>2, <2>2, <2>3, SameTable
        DEF TypeOK, HumanFlips, memory, disk, history, queueVars
<1>3. ASSUME NEW t \in Ids, ClockPasses(t) PROVE TypeOK'
  BY <1>a, <1>3, DueTyped DEF TypeOK, ClockPasses, memory, disk, history
<1>4. CASE QuotaClears \/ Pause
  BY <1>a, <1>4, SameTable DEF TypeOK, QuotaClears, Pause, memory, disk, history, queueVars
<1>5. CASE RequestStop
  <2>1. budget' \in [human: Nat, stops: Nat, faults: Nat]
    BY <1>a, <1>5, SpendTyped DEF TypeOK, RequestStop
  <2> QED BY <1>a, <1>5, <2>1, SameTable DEF TypeOK, RequestStop, disk, history, queueVars
<1>6. CASE Resume \/ SkipPoll \/ ControlGoes \/ WorkGoes \/ EndSync
  <2>1. \E l \in Lanes, pc \in PCs : Goto(l, pc)
    BY <1>b, <1>6 DEF Resume, SkipPoll, ControlGoes, WorkGoes, EndSync, PCs
  <2>2. thr' \in [Lanes -> Thread]
    BY <1>a, <2>1, GotoEffect
  <2> QED BY <1>a, <1>6, <2>2, SameTable
        DEF TypeOK, Resume, SkipPoll, ControlGoes, WorkGoes, EndSync, disk, history, queueVars
<1>7. CASE Reloaded \/ PollRemote \/ AbortSync
  <2>1. \E pc \in PCs : Goto("control", pc)
    BY <1>7 DEF Reloaded, PollRemote, AbortSync, PCs
  <2>2. thr' \in [Lanes -> Thread]
    BY <1>a, <1>b, <2>1, GotoEffect
  <2>3. budget' \in [human: Nat, stops: Nat, faults: Nat]
    BY <1>a, <1>7, SpendTyped DEF TypeOK, Reloaded, PollRemote, AbortSync
  <2>4. Differences \subseteq [what: {"state", "label"}, post: Posts]
    BY DEF Differences
  <2>5. NoSweep \in [post: Posts \cup {NoPost}, kind: EventKinds \cup {"none"},
                     drop: SUBSET Ids, cut: SUBSET (Ids \X Nat)]
    BY DEF NoSweep
  <2> QED BY <1>a, <1>7, <2>2, <2>3, <2>4, <2>5, SameTable
        DEF TypeOK, Reloaded, PollRemote, AbortSync, disk, history, queueVars
<1>8. CASE \E c \in changes : TakeUp(c)
  <2> PICK c \in changes : TakeUp(c)
    BY <1>8
  <2>1. thr' \in [Lanes -> Thread]
    BY <1>a, <1>b, GotoEffect DEF TakeUp, PCs
  <2>2. c.post \in Posts
    BY <1>a DEF TypeOK
  <2>3. \A status, kinds : RowsOf(c.post, status, kinds) \subseteq Ids
    BY DEF RowsOf, TasksFor
  <2>4. {<<t, tasks[t].attempts>> : t \in RowsOf(c.post, "in_progress", Kinds)}
          \subseteq Ids \X Nat
    BY <1>a, <2>3 DEF QueueTypeOK, Row
  <2>5. sweep' \in [post: Posts \cup {NoPost}, kind: EventKinds \cup {"none"},
                    drop: SUBSET Ids, cut: SUBSET (Ids \X Nat)]
    <3>1. CASE c.what = "state" /\ ~mirror[c.post].open
      BY <2>2, <2>3, <2>4, <3>1 DEF TakeUp
    <3>2. CASE ~(c.what = "state" /\ ~mirror[c.post].open)
      BY <2>2, <2>3, <3>2 DEF TakeUp, EventKinds
    <3> QED BY <3>1, <3>2
  <2> QED BY <1>a, <2>1, <2>5, SameTable DEF TypeOK, TakeUp, disk, history, queueVars
<1>9. CASE DropRow
  <2> PICK t \in sweep.drop : Remove(t) /\ sweep' = [sweep EXCEPT !.drop = sweep.drop \ {t}]
    BY <1>9 DEF DropRow
  <2>1. t \in Ids
    BY <1>a DEF TypeOK
  <2>2. sweep' \in [post: Posts \cup {NoPost}, kind: EventKinds \cup {"none"},
                    drop: SUBSET Ids, cut: SUBSET (Ids \X Nat)]
    BY <1>a DEF TypeOK
  <2> QED BY <1>a, <1>9, <2>1, <2>2, RemoveTyped DEF TypeOK, DropRow, history
<1>10. CASE Interrupt
  <2>1. thr' \in [Lanes -> Thread]
    BY <1>a, <1>b, <1>10, GotoEffect DEF Interrupt, PCs
  <2> QED BY <1>a, <1>10, <2>1, SameTable DEF TypeOK, Interrupt, disk, queueVars
<1>11. CASE EnqueueCleanup
  <2>1. thr' \in [Lanes -> Thread]
    BY <1>a, <1>b, <1>11, GotoEffect DEF EnqueueCleanup, PCs
  <2> PICK r \in sweep.cut :
        Enqueue("cleanup", sweep.post, r[1]) /\ sweep' = [sweep EXCEPT !.cut = sweep.cut \ {r}]
    BY <1>11 DEF EnqueueCleanup
  <2>2. r[1] \in Ids /\ sweep.post \in Posts \cup {NoPost} /\ "cleanup" \in Kinds
    BY <1>a DEF TypeOK, Kinds
  <2>3. QueueTypeOK'
    BY <1>a, <2>2, EnqueueTyped
  <2>4. sweep' \in [post: Posts \cup {NoPost}, kind: EventKinds \cup {"none"},
                    drop: SUBSET Ids, cut: SUBSET (Ids \X Nat)]
    BY <1>a DEF TypeOK
  <2> QED BY <1>a, <1>11, <2>1, <2>3, <2>4 DEF TypeOK, EnqueueCleanup, history
<1>12. CASE EndSweep
  <2>1. thr' \in [Lanes -> Thread]
    BY <1>a, <1>b, <1>12, GotoEffect DEF EndSweep, PCs
  <2>2. sweep.post \in Posts \cup {NoPost} /\ sweep.kind \in EventKinds \cup {"none"}
    BY <1>a DEF TypeOK
  <2>3. QueueTypeOK'
    BY <1>a, <1>12, <2>2, EnqueueTyped, SameTable DEF EndSweep, Kinds, EventKinds
  <2>4. NoSweep \in [post: Posts \cup {NoPost}, kind: EventKinds \cup {"none"},
                     drop: SUBSET Ids, cut: SUBSET (Ids \X Nat)]
    BY DEF NoSweep
  <2> QED BY <1>a, <1>12, <2>1, <2>3, <2>4 DEF TypeOK, EndSweep, history
<1>13. ASSUME NEW l \in Lanes, Claim(l) PROVE TypeOK'
  <2> PICK t \in Ids : /\ ClaimNext(l, t)
                       /\ thr' = [thr EXCEPT ![l] =
                                    [Rest("claimed") EXCEPT !.task = t, !.row = tasks'[t]]]
    BY <1>13 DEF Claim
  <2>1. QueueTypeOK' /\ tasks'[t] \in Row
    BY <1>a, ClaimTyped
  <2>2. [Rest("claimed") EXCEPT !.task = t, !.row = tasks'[t]] \in Thread
    BY <2>1 DEF Rest, Thread, PCs, Outs
  <2>3. thr' \in [Lanes -> Thread]
    BY <1>a, <2>2
  <2> QED BY <1>a, <1>13, <2>1, <2>3 DEF TypeOK, Claim, history
<1>14. ASSUME NEW l \in Lanes, NothingToClaim(l) \/ LoopExits(l) PROVE TypeOK'
  <2>1. thr' \in [Lanes -> Thread]
    BY <1>a, <1>14, GotoEffect DEF NothingToClaim, LoopExits, PCs
  <2> QED BY <1>a, <1>14, <2>1, SameTable
        DEF TypeOK, NothingToClaim, LoopExits, disk, history, queueVars
<1>15. ASSUME NEW l \in Lanes, Register(l) \/ Clear(l) PROVE TypeOK'
  <2>1. thr' \in [Lanes -> Thread]
    BY <1>a, <1>15, GotoEffect DEF Register, Clear, PCs
  <2>2. cancelEv' \in [Ids -> {"none", "clear", "set"}]
    BY <1>a, <1>15 DEF TypeOK, Register, Clear
  <2> QED BY <1>a, <1>15, <2>1, <2>2, SameTable
        DEF TypeOK, Register, Clear, disk, history, queueVars
<1>16. CASE HandleEvent
  <2>1. QueueTypeOK'
    <3>1. CASE \E kind \in {"run", "gate"} : Schedule(thr["control"].row.post, kind)
      BY <1>a, <1>b, <3>1, ThreadRow, ScheduleTyped DEF Kinds, WorkKinds
    <3>2. CASE UNCHANGED queueVars
      BY <1>a, <3>2, SameTable
    <3>3. CASE Enqueue("spec", thr["control"].row.post, NoTask)
      BY <1>a, <1>b, <3>3, ThreadRow, EnqueueTyped DEF Kinds
    <3> QED BY <1>16, <3>1, <3>2, <3>3 DEF HandleEvent
  <2>2. \E out \in Outs : Ended("control", out)
    BY <1>16 DEF HandleEvent, Outs
  <2>3. thr' \in [Lanes -> Thread]
    BY <1>a, <1>b, <2>2, EndedEffect
  <2>4. budget' \in [human: Nat, stops: Nat, faults: Nat]
    BY <1>a, <1>16, SpendTyped DEF TypeOK, HandleEvent
  <2> QED BY <1>a, <1>16, <2>1, <2>3, <2>4 DEF TypeOK, HandleEvent, history
<1>17. CASE HandleCleanup \/ AgentKilled
  <2>1. \E l \in Lanes, out \in Outs : Ended(l, out)
    BY <1>b, <1>17 DEF HandleCleanup, AgentKilled, Outs
  <2>2. thr' \in [Lanes -> Thread]
    BY <1>a, <2>1, EndedEffect
  <2> QED BY <1>a, <1>17, <2>2, SameTable
        DEF TypeOK, HandleCleanup, AgentKilled, disk, history, queueVars
<1>18. CASE ConsumeResult
  <2> DEFINE work == thr["control"].row.ref
  <2>1. work \in Ids
    BY <1>b, <1>18, <1>a DEF ConsumeResult, HeldInv, Holding, Busy, At, Kind
  <2>2. outcome' \in [Ids -> Nat] /\ outcome[work] \in Nat
    BY <1>a, <1>18, <2>1 DEF TypeOK, ConsumeResult
  <2>3. thr' \in [Lanes -> Thread]
    <3>1. CASE Ended("control", "ok")
      BY <1>a, <1>b, <3>1, EndedEffect DEF Outs
    <3>2. CASE thr' = [thr EXCEPT !["control"].pc = "apply", !["control"].read = outcome[work]]
      <4>1. \A n \in Nat : [thr["control"] EXCEPT !.pc = "apply", !.read = n] \in Thread
        BY <1>a, <1>b DEF Thread, PCs
      <4>2. [thr["control"] EXCEPT !.pc = "apply", !.read = outcome[work]] \in Thread
        BY <4>1, <2>2
      <4> QED BY <1>a, <1>b, <3>2, <4>2
    <3> QED BY <1>18, <3>1, <3>2 DEF ConsumeResult
  <2> QED BY <1>a, <1>18, <2>2, <2>3, SameTable DEF TypeOK, ConsumeResult, history, queueVars
<1>19. CASE ApplyResult
  <2> DEFINE row == thr["control"].row
  <2>1. row.post \in Posts \cup {NoPost} /\ "gate" \in Kinds /\ "spec" \in Kinds
    BY <1>a, <1>b, ThreadRow DEF Kinds, WorkKinds
  <2>2. QueueTypeOK'
    BY <1>a, <1>19, <2>1, ScheduleTyped, EnqueueTyped, SameTable DEF ApplyResult
  <2>3. \E out \in Outs : Ended("control", out)
    BY <1>19 DEF ApplyResult, Outs
  <2>4. thr' \in [Lanes -> Thread]
    BY <1>a, <1>b, <2>3, EndedEffect
  <2>5. row.ref \in Ids /\ thr["control"].read \in Nat
    BY <1>a, <1>b, <1>19 DEF ResultInv, ApplyResult, At, Thread
  <2>6. applied' \subseteq Ids \X Nat
    BY <1>a, <1>19, <2>5 DEF TypeOK, ApplyResult
  <2>7. budget' \in [human: Nat, stops: Nat, faults: Nat]
    BY <1>a, <1>19, SpendTyped DEF TypeOK, ApplyResult
  <2> QED BY <1>a, <1>19, <2>2, <2>4, <2>6, <2>7 DEF TypeOK, ApplyResult
<1>20. CASE JobEnds \/ HandleSpec \/ \E l \in Lanes : RetryCancelled(l)
  <2>1. thr' \in [Lanes -> Thread]
    <3>1. CASE Goto("work", "write")
      BY <1>a, <1>b, <3>1, GotoEffect DEF PCs
    <3>2. CASE \E l \in Lanes, out \in Outs : Ended(l, out)
      BY <1>a, <3>2, EndedEffect
    <3> QED BY <1>20, <1>b, <3>1, <3>2
          DEF JobEnds, AgentEnds, ResolverEnds, GateEnds, HandleSpec, RetryCancelled, Outs
  <2>2. budget' \in [human: Nat, stops: Nat, faults: Nat]
    BY <1>a, <1>20, SpendTyped
       DEF TypeOK, JobEnds, AgentEnds, ResolverEnds, GateEnds, HandleSpec, RetryCancelled
  <2> QED BY <1>a, <1>20, <2>1, <2>2, SameTable
        DEF TypeOK, JobEnds, AgentEnds, ResolverEnds, GateEnds, HandleSpec, RetryCancelled,
            disk, history, queueVars
<1>21. CASE GovernWorker
  <2>1. cancelEv' \in [Ids -> {"none", "clear", "set"}]
    BY <1>a, <1>21 DEF TypeOK, GovernWorker
  <2> QED BY <1>a, <1>21, <2>1, SameTable DEF TypeOK, GovernWorker, disk, history, queueVars
<1>22. CASE WriteOutcome
  <2>1. thr' \in [Lanes -> Thread]
    BY <1>a, <1>b, <1>22, GotoEffect DEF WriteOutcome, PCs
  <2>2. outcome' \in [Ids -> Nat]
    BY <1>a, <1>b, <1>22, ThreadRow DEF TypeOK, WriteOutcome
  <2> QED BY <1>a, <1>22, <2>1, <2>2, SameTable DEF TypeOK, WriteOutcome, history, queueVars
<1>23. CASE HandOver
  <2>1. thr' \in [Lanes -> Thread]
    BY <1>a, <1>b, <1>23, EndedEffect DEF HandOver, Outs
  <2>2. thr["work"].row.post \in Posts \cup {NoPost} /\ thr["work"].task \in Ids \cup {NoTask}
        /\ "result" \in Kinds
    BY <1>a, <1>b, ThreadRow DEF Kinds
  <2>3. QueueTypeOK'
    BY <1>a, <1>23, <2>2, EnqueueTyped DEF HandOver
  <2> QED BY <1>a, <1>23, <2>1, <2>3 DEF TypeOK, HandOver, history
<1>24. ASSUME NEW l \in Lanes, Finish(l) PROVE TypeOK'
  <2>1. thr[l].task \in Ids
    BY <1>a, <1>24 DEF HeldInv, Holding, Busy, Finish, At, Held
  <2>2. tasks[thr[l].task].due \in BOOLEAN
    BY <1>a, <2>1 DEF QueueTypeOK, Row
  <2>3. QueueTypeOK'
    BY <1>a, <1>24, <2>1, <2>2, UpdateTyped DEF Finish, Requeue, Complete, Statuses
  <2>5. thr' \in [Lanes -> Thread]
    BY <1>24, FinishRests
  <2>6. parked' \in BOOLEAN
    BY <1>a, <1>24 DEF TypeOK, Finish
  <2> QED BY <1>a, <1>24, <2>3, <2>5, <2>6 DEF TypeOK, Finish, history
<1>25. ASSUME NEW l \in Lanes, Recover(l) PROVE TypeOK'
  <2>1. thr[l].task \in Ids
    BY <1>a, <1>25 DEF HeldInv, Holding, Recover, At, Held
  <2>2. QueueTypeOK'
    BY <1>a, <1>25, <2>1, UpdateTyped, SameTable DEF Recover, Requeue, Statuses
  <2>3. thr' \in [Lanes -> Thread]
    BY <1>25, RecoverRests
  <2> QED BY <1>a, <1>25, <2>2, <2>3 DEF TypeOK, Recover, history
<1>26. CASE Crash \/ ProcessExit
  <2>1. thr' \in [Lanes -> Thread]
    BY <1>26, RestIsThread DEF Crash, ProcessExit, Die, PCs
  <2>2. budget' \in [human: Nat, stops: Nat, faults: Nat]
    BY <1>a, <1>26, SpendTyped DEF TypeOK, Crash, ProcessExit
  <2>3. NoSweep \in [post: Posts \cup {NoPost}, kind: EventKinds \cup {"none"},
                     drop: SUBSET Ids, cut: SUBSET (Ids \X Nat)]
    BY DEF NoSweep
  <2> QED BY <1>a, <1>26, <2>1, <2>2, <2>3, SameTable
        DEF TypeOK, Crash, ProcessExit, Die, disk, history, queueVars
<1>27. CASE Restart
  <2>1. thr' \in [Lanes -> Thread]
    BY <1>27, RestIsThread DEF Restart, PCs
  <2>2. QueueTypeOK'
    BY <1>a, <1>27, ResetTyped DEF Restart
  <2> QED BY <1>a, <1>27, <2>1, <2>2 DEF TypeOK, Restart, history
<1>28. ASSUME NEW l \in Lanes, Escalate(l) PROVE TypeOK'
  <2>1. thr' \in [Lanes -> Thread]
    BY <1>a, <1>28, GotoEffect DEF Escalate, PCs, Home
  <2>2. QueueTypeOK'
    BY <1>a, <1>28, EnqueueTyped DEF Escalate, Kinds, WorkKinds
  <2> QED BY <1>a, <1>28, <2>1, <2>2 DEF TypeOK, Escalate, history
<1> QED
  BY <1>1, <1>2, <1>3, <1>4, <1>5, <1>6, <1>7, <1>8, <1>9, <1>10, <1>11, <1>12, <1>13, <1>14,
     <1>15, <1>16, <1>17, <1>18, <1>19, <1>20, <1>21, <1>22, <1>23, <1>24, <1>25, <1>26, <1>27,
     <1>28, <1>b
     DEF Next, ControlStep, WorkStep

----------------------------------------------------------------------------
(* Ownership: who holds which row *)

Ownership == IdsInv /\ HeldInv /\ InProgressOwned

\* The part of a hold during which the thread's cancel Event counts.
Live == Executing \cup {"claimed"}

\* A thread's move that neither takes a row up nor lets one go.
KeepsHold(l) ==
  /\ thr'[l].task = thr[l].task /\ thr'[l].row = thr[l].row
  /\ thr'[l].pc \in Busy <=> thr[l].pc \in Busy
  /\ thr'[l].pc = "recover" <=> thr[l].pc = "recover"
  /\ thr'[l].pc \in Live => thr[l].pc \in Live

\* A change of the table that claims, completes and requeues nothing.
TableOp ==
  \/ UNCHANGED queueVars
  \/ \E kind, post, ref : Enqueue(kind, post, ref) /\ (kind = "result" => ref \in Ids)
  \/ \E t \in Ids : Remove(t) \/ BecomeDue(t)

\* Steps of this sort disturb neither the table's ids nor anybody's hold.
LEMMA QuietKeepsOwnership ==
  ASSUME SafetyInv, alive' = alive, alive \/ thr' = thr,
         \A l \in Lanes : KeepsHold(l), TableOp
  PROVE  Ownership'
<1>a. QueueTypeOK /\ IdsInv /\ HeldInv /\ InProgressOwned /\ nextId \in Nat
  BY QueueAssumption DEF SafetyInv, TypeOK, QueueTypeOK
<1>b. \A l \in Lanes : (thr[l].pc \in Holding <=> thr'[l].pc \in Holding) /\ Held(l)' = Held(l)
  BY DEF KeepsHold, Holding, Held
<1>c. ~alive' => \A l \in Lanes : thr'[l].pc = "exit"
  BY <1>a DEF HeldInv
<1>1. CASE UNCHANGED queueVars
  <2>1. IdsInv'
    BY <1>1, <1>a DEF IdsInv, queueVars
  <2>2. HeldInv'
    BY <1>1, <1>a, <1>b, <1>c DEF HeldInv, queueVars, KeepsHold, Present
  <2>3. InProgressOwned'
    BY <1>1, <1>a DEF InProgressOwned, queueVars, KeepsHold, InStatus
  <2> QED BY <2>1, <2>2, <2>3 DEF Ownership
<1>2. ASSUME NEW kind, NEW post, NEW ref,
             Enqueue(kind, post, ref), kind = "result" => ref \in Ids
      PROVE  Ownership'
  <2>a. /\ nextId \in Ids /\ nextId' = nextId + 1
        /\ \A u \in Ids : u # nextId => tasks'[u] = tasks[u]
        /\ tasks'[nextId].status = "pending" /\ tasks'[nextId].attempts = 0
        /\ tasks'[nextId].kind = kind /\ tasks'[nextId].ref = ref
    BY <1>2, <1>a, EnqueueEffect
  <2>1. IdsInv'
    BY <2>a, <1>a, <1>2 DEF IdsInv, Ids
  <2>2. HeldInv'
    BY <2>a, <1>a, <1>b, <1>c DEF HeldInv, KeepsHold, Present, Ids
  <2>3. InProgressOwned'
    <3> SUFFICES ASSUME alive', NEW t \in Ids, tasks'[t].status = "in_progress"
                 PROVE  \E l \in Lanes : thr'[l].task = t /\ thr'[l].pc \in Busy
      BY DEF InProgressOwned, InStatus
    <3>1. tasks[t].status = "in_progress"
      BY <2>a
    <3> QED BY <3>1, <1>a DEF InProgressOwned, InStatus, KeepsHold
  <2> QED BY <2>1, <2>2, <2>3 DEF Ownership
<1>3. ASSUME NEW t \in Ids, Remove(t) PROVE Ownership'
  <2>a. /\ nextId' = nextId /\ tasks'[t] = Absent
        /\ \A u \in Ids : u # t => tasks'[u] = tasks[u]
    BY <1>3, <1>a, RemoveEffect
  <2>1. IdsInv'
    BY <2>a, <1>a, AbsentFields DEF IdsInv
  <2>2. HeldInv'
    BY <2>a, <1>a, <1>b, <1>c DEF HeldInv, KeepsHold, Present, Absent
  <2>3. InProgressOwned'
    BY <2>a, <1>a DEF InProgressOwned, KeepsHold, InStatus, Absent
  <2> QED BY <2>1, <2>2, <2>3 DEF Ownership
<1>4. ASSUME NEW t \in Ids, BecomeDue(t) PROVE Ownership'
  <2>a. /\ nextId' = nextId
        /\ \A u \in Ids : u # t => tasks'[u] = tasks[u]
        /\ tasks[t].status = "pending" /\ tasks'[t].status = "pending"
        /\ tasks'[t].attempts = tasks[t].attempts
        /\ tasks'[t].kind = tasks[t].kind /\ tasks'[t].ref = tasks[t].ref
    BY <1>4, <1>a, DueEffect
  <2>1. IdsInv'
    BY <2>a, <1>a, AbsentFields DEF IdsInv
  <2>2. HeldInv'
    BY <2>a, <1>a, <1>b, <1>c DEF HeldInv, KeepsHold, Present
  <2>3. InProgressOwned'
    BY <2>a, <1>a DEF InProgressOwned, KeepsHold, InStatus
  <2> QED BY <2>1, <2>2, <2>3 DEF Ownership
<1> QED BY <1>1, <1>2, <1>3, <1>4 DEF TableOp

\* A thread that moves within its task, or outside of any, keeps its hold.
LEMMA GotoKeepsHold ==
  ASSUME thr \in [Lanes -> Thread], NEW l \in Lanes, NEW pc \in PCs, Goto(l, pc),
         pc # "recover", thr[l].pc # "recover", pc \in Busy <=> thr[l].pc \in Busy,
         pc \in Live => thr[l].pc \in Live
  PROVE  \A k \in Lanes : KeepsHold(k)
BY GotoEffect DEF KeepsHold

\* A job that ends keeps its row until the loop finishes it.
LEMMA EndedKeepsHold ==
  ASSUME thr \in [Lanes -> Thread], NEW l \in Lanes, NEW out \in Outs, Ended(l, out),
         thr[l].pc \in {"running", "apply", "hand"}
  PROVE  \A k \in Lanes : KeepsHold(k)
BY EndedEffect DEF KeepsHold, Busy, Live, Executing

\* Scheduling work is an operation of the table.
LEMMA ScheduleIsTableOp ==
  ASSUME NEW p, NEW kind \in WorkKinds, Schedule(p, kind)
  PROVE  TableOp
BY DEF Schedule, TableOp, WorkKinds

\* The steps that are quiet in the sense of the lemma above.
QuietStep ==
  \/ UNCHANGED vars
  \/ \E p \in Posts, field \in {"open", "label"} : HumanFlips(p, field)
  \/ \E t \in Ids : ClockPasses(t)
  \/ QuotaClears \/ Pause \/ Resume \/ Reloaded \/ RequestStop
  \/ PollRemote \/ SkipPoll \/ (\E c \in changes : TakeUp(c))
  \/ DropRow \/ Interrupt \/ EnqueueCleanup \/ EndSweep \/ EndSync \/ AbortSync
  \/ ControlGoes \/ WorkGoes \/ (\E l \in Lanes : NothingToClaim(l) \/ LoopExits(l))
  \/ (\E l \in Lanes : Register(l) \/ Clear(l))
  \/ (\E l \in Lanes : RetryCancelled(l) \/ Escalate(l))
  \/ HandleEvent \/ HandleCleanup \/ HandleSpec \/ ConsumeResult \/ ApplyResult
  \/ JobEnds \/ AgentKilled \/ GovernWorker \/ WriteOutcome \/ HandOver

\* A quiet step takes no row from its thread, and writes by the table's operations.
LEMMA QuietStepKeepsHolds ==
  SafetyInv /\ QuietStep => /\ alive' = alive /\ (alive \/ thr' = thr)
                            /\ \A l \in Lanes : KeepsHold(l)
                            /\ TableOp
<1> SUFFICES ASSUME SafetyInv, QuietStep
             PROVE  /\ alive' = alive /\ (alive \/ thr' = thr)
                    /\ \A l \in Lanes : KeepsHold(l)
                    /\ TableOp
  OBVIOUS
<1>a. thr \in [Lanes -> Thread] /\ "control" \in Lanes /\ "work" \in Lanes /\ HeldInv
  BY DEF SafetyInv, TypeOK, Lanes
<1>b. sweep.drop \subseteq Ids /\ sweep.kind \in EventKinds \cup {"none"}
  BY DEF SafetyInv, TypeOK
<1>1. CASE \/ UNCHANGED vars
           \/ \E p \in Posts, field \in {"open", "label"} : HumanFlips(p, field)
           \/ QuotaClears \/ Pause \/ RequestStop \/ GovernWorker
  BY <1>1, <1>a DEF vars, HumanFlips, QuotaClears, Pause, RequestStop, GovernWorker,
       memory, disk, history, KeepsHold, TableOp, queueVars, At
<1>2. CASE \E t \in Ids : ClockPasses(t)
  BY <1>2 DEF ClockPasses, memory, KeepsHold, TableOp
<1>3. CASE DropRow
  BY <1>3, <1>b DEF DropRow, KeepsHold, TableOp, At
<1>4. CASE Resume \/ Reloaded \/ PollRemote \/ SkipPoll \/ (\E c \in changes : TakeUp(c))
  BY <1>4, <1>a, GotoKeepsHold
     DEF Resume, Reloaded, PollRemote, SkipPoll, TakeUp, At, PCs, Busy, Live, Executing, TableOp, disk, queueVars
<1>5. CASE Interrupt \/ EndSync \/ AbortSync \/ ControlGoes \/ WorkGoes
  BY <1>5, <1>a, GotoKeepsHold
     DEF Interrupt, EndSync, AbortSync, ControlGoes, WorkGoes, At, PCs, Busy, Live, Executing, TableOp, disk, queueVars
<1>6. CASE EnqueueCleanup \/ EndSweep
  BY <1>6, <1>a, <1>b, GotoKeepsHold
     DEF EnqueueCleanup, EndSweep, At, PCs, Busy, Live, Executing, TableOp, EventKinds
<1>7. CASE \E l \in Lanes : NothingToClaim(l) \/ LoopExits(l)
  BY <1>7, <1>a, GotoKeepsHold
     DEF NothingToClaim, LoopExits, At, PCs, Busy, Live, Executing, TableOp, disk, queueVars
<1>8. CASE \E l \in Lanes : Register(l) \/ Clear(l)
  BY <1>8, <1>a, GotoKeepsHold DEF Register, Clear, At, PCs, Busy, Live, Executing, TableOp, disk, queueVars
<1>9. CASE HandleEvent
  <2>1. TableOp
    <3>1. CASE \E kind \in {"run", "gate"} : Schedule(thr["control"].row.post, kind)
      BY <3>1, ScheduleIsTableOp DEF WorkKinds
    <3>2. CASE Enqueue("spec", thr["control"].row.post, NoTask) \/ UNCHANGED queueVars
      BY <3>2 DEF TableOp
    <3> QED BY <1>9, <3>1, <3>2 DEF HandleEvent
  <2>2. \E out \in Outs : Ended("control", out)
    BY <1>9 DEF HandleEvent, Outs
  <2> QED BY <1>9, <1>a, <2>1, <2>2, EndedKeepsHold DEF HandleEvent, At
<1>10. CASE HandleCleanup \/ HandleSpec \/ AgentKilled \/ \E l \in Lanes : RetryCancelled(l)
  BY <1>10, <1>a, EndedKeepsHold
     DEF HandleCleanup, HandleSpec, AgentKilled, RetryCancelled, At, Outs, TableOp, disk, queueVars
<1>11. CASE ConsumeResult
  <2>1. \A l \in Lanes : KeepsHold(l)
    <3>1. CASE Ended("control", "ok")
      BY <1>11, <3>1, <1>a, EndedKeepsHold DEF ConsumeResult, At, Outs
    <3>2. CASE thr' = [thr EXCEPT !["control"].pc = "apply",
                                  !["control"].read = outcome[thr["control"].row.ref]]
      <4>1. thr["control"] \in Thread /\ thr["control"].pc = "running"
        BY <1>11, <1>a DEF ConsumeResult, At
      <4>2. /\ thr'["control"].pc = "apply" /\ thr'["control"].task = thr["control"].task
            /\ thr'["control"].row = thr["control"].row /\ thr'["work"] = thr["work"]
        BY <4>1, <3>2, <1>a DEF Thread, Lanes
      <4> QED BY <4>1, <4>2 DEF KeepsHold, Busy, Live, Executing, Lanes
    <3> QED BY <1>11, <3>1, <3>2 DEF ConsumeResult
  <2> QED BY <1>11, <2>1 DEF ConsumeResult, TableOp, queueVars, At
<1>12. CASE ApplyResult
  <2>1. TableOp
    BY <1>12, ScheduleIsTableOp DEF ApplyResult, TableOp, WorkKinds
  <2>2. \E out \in Outs : Ended("control", out)
    BY <1>12 DEF ApplyResult, Outs
  <2> QED BY <1>12, <1>a, <2>1, <2>2, EndedKeepsHold DEF ApplyResult, At
<1>13. CASE JobEnds
  <2>1. Goto("work", "write") \/ \E out \in Outs : Ended("work", out)
    BY <1>13 DEF JobEnds, AgentEnds, ResolverEnds, GateEnds, Outs
  <2> QED BY <1>13, <1>a, <2>1, EndedKeepsHold, GotoKeepsHold
        DEF JobEnds, AgentEnds, ResolverEnds, GateEnds, At, PCs, Busy, Live, Executing, TableOp, disk, queueVars
<1>14. CASE WriteOutcome
  BY <1>14, <1>a, GotoKeepsHold DEF WriteOutcome, At, PCs, Busy, Live, Executing, TableOp, queueVars
<1>15. CASE HandOver
  <2>1. thr["work"].task \in Ids
    BY <1>15, <1>a DEF HandOver, At, HeldInv, Held, Holding, Busy, Live, Executing
  <2> QED BY <1>15, <1>a, <2>1, EndedKeepsHold DEF HandOver, At, Outs, TableOp
<1>16. CASE \E l \in Lanes : Escalate(l)
  BY <1>16, <1>a, GotoKeepsHold
     DEF Escalate, At, PCs, Busy, Live, Executing, Home, TableOp
<1> QED
  BY <1>1, <1>2, <1>3, <1>4, <1>5, <1>6, <1>7, <1>8, <1>9, <1>10, <1>11, <1>12, <1>13, <1>14, <1>15,
     <1>16 DEF QuietStep

\* What claiming does to a thread.
LEMMA ClaimTakesHold ==
  ASSUME SafetyInv, NEW l \in Lanes, NEW t \in Ids, ClaimNext(l, t),
         thr' = [thr EXCEPT ![l] = [Rest("claimed") EXCEPT !.task = t, !.row = tasks'[t]]]
  PROVE  /\ \A k \in Lanes : k # l => thr'[k] = thr[k]
         /\ thr'[l].pc = "claimed" /\ thr'[l].task = t /\ thr'[l].row = tasks'[t]
BY DEF SafetyInv, TypeOK, Rest

\* A claimed row has one owner.
LEMMA ClaimKeepsOwnership ==
  ASSUME SafetyInv, NEW l \in Lanes, Claim(l)
  PROVE  Ownership'
<1> PICK t \in Ids : /\ ClaimNext(l, t)
                     /\ thr' = [thr EXCEPT ![l] =
                                  [Rest("claimed") EXCEPT !.task = t, !.row = tasks'[t]]]
  BY DEF Claim
<1>a. QueueTypeOK /\ IdsInv /\ HeldInv /\ InProgressOwned /\ alive /\ alive' /\ thr[l].pc = "go"
  BY DEF SafetyInv, TypeOK, Claim, At
<1>b. /\ nextId' = nextId /\ nextId \in Nat
      /\ \A u \in Ids : u # t => tasks'[u] = tasks[u]
      /\ tasks[t].status = "pending" /\ tasks'[t].status = "in_progress"
      /\ tasks[t].attempts \in Nat /\ tasks'[t].attempts = tasks[t].attempts + 1
      /\ tasks'[t].kind = tasks[t].kind /\ tasks'[t].ref = tasks[t].ref
  BY <1>a, ClaimEffect, QueueAssumption DEF QueueTypeOK
<1>c. /\ \A k \in Lanes : k # l => thr'[k] = thr[k]
      /\ thr'[l].pc = "claimed" /\ thr'[l].task = t /\ thr'[l].row = tasks'[t]
  BY ClaimTakesHold
<1>d. t < nextId
  BY <1>a, <1>b, AbsentFields, QueueAssumption DEF IdsInv, QueueTypeOK, Ids
<1>e. \A k \in Lanes : k # l /\ thr[k].pc \in Holding => Held(k) # t
  BY <1>a, <1>b DEF HeldInv
<1>1. IdsInv'
  BY <1>a, <1>b, AbsentFields DEF IdsInv
<1>2. HeldInv'
  <2>1. ASSUME NEW k \in Lanes, thr'[k].pc \in Holding
        PROVE  /\ Held(k)' \in Ids /\ Held(k)' < nextId'
               /\ tasks'[Held(k)'].status \in
                    {"absent", IF thr'[k].pc = "recover" THEN "failed" ELSE "in_progress"}
               /\ Present(Held(k))' => tasks'[Held(k)'].attempts = thr'[k].row.attempts
               /\ thr'[k].row.attempts > 0
               /\ thr'[k].row.kind = "result" => thr'[k].row.ref \in Ids
    <3>1. CASE k = l
      BY <3>1, <1>a, <1>b, <1>c, <1>d DEF Held, IdsInv
    <3>2. CASE k # l
      BY <2>1, <3>2, <1>a, <1>b, <1>c, <1>e DEF Held, HeldInv, Present
    <3> QED BY <3>1, <3>2
  <2>2. ASSUME NEW k \in Lanes, NEW m \in Lanes, k # m,
               thr'[k].pc \in Holding, thr'[m].pc \in Holding
        PROVE  Held(k)' # Held(m)'
    BY <2>2, <1>a, <1>c, <1>e DEF Held, HeldInv
  <2> QED BY <1>a, <2>1, <2>2 DEF HeldInv
<1>3. InProgressOwned'
  <2> SUFFICES ASSUME NEW u \in Ids, tasks'[u].status = "in_progress"
               PROVE  \E k \in Lanes : thr'[k].task = u /\ thr'[k].pc \in Busy
    BY DEF InProgressOwned, InStatus
  <2>1. CASE u = t
    BY <2>1, <1>c DEF Busy
  <2>2. CASE u # t
    <3>1. PICK k \in Lanes : thr[k].task = u /\ thr[k].pc \in Busy
      BY <2>2, <1>a, <1>b DEF InProgressOwned, InStatus
    <3> QED BY <3>1, <1>a, <1>c DEF Busy
  <2> QED BY <2>1, <2>2
<1> QED BY <1>1, <1>2, <1>3 DEF Ownership

\* So have the others after one is finished or recovered.
LEMMA FinishKeepsOwnership ==
  ASSUME SafetyInv, NEW l \in Lanes, Finish(l) \/ Recover(l)
  PROVE  Ownership'
<1> DEFINE t == thr[l].task
<1>a. QueueTypeOK /\ IdsInv /\ HeldInv /\ InProgressOwned /\ thr \in [Lanes -> Thread] /\ nextId \in Nat
  BY QueueAssumption DEF SafetyInv, TypeOK, QueueTypeOK
<1>b. alive /\ alive' /\ thr[l].pc \in {"finish", "recover"}
  <2>1. CASE Finish(l)
    BY <2>1 DEF Finish, At
  <2>2. CASE Recover(l)
    BY <2>2 DEF Recover, At
  <2> QED BY <2>1, <2>2
<1>c. /\ t \in Ids /\ t < nextId
      /\ tasks[t].status \in
           {"absent", IF thr[l].pc = "recover" THEN "failed" ELSE "in_progress"}
  BY <1>a, <1>b DEF HeldInv, Held, Holding, Busy
<1>d. UNCHANGED queueVars \/ \E status \in {"pending", "success", "failed"} : \E due : Update(t, status, due)
  BY DEF Finish, Recover, Requeue, Complete
<1>e. /\ nextId' = nextId
      /\ \A u \in Ids : u # t => tasks'[u] = tasks[u]
      /\ ~Present(t) => tasks'[t] = tasks[t]
      /\ tasks'[t].kind = tasks[t].kind /\ tasks'[t].ref = tasks[t].ref
      /\ tasks'[t].attempts = tasks[t].attempts
  BY <1>a, <1>c, <1>d, UpdateEffect DEF queueVars
<1>f. tasks'[t].status # "in_progress"
  <2>1. CASE ~Present(t)
    BY <2>1, <1>e DEF Present
  <2>2. CASE Present(t) /\ \E status \in {"pending", "success", "failed"} : \E due : Update(t, status, due)
    BY <2>2, <1>a, <1>c, UpdateEffect
  <2>3. CASE Present(t) /\ UNCHANGED queueVars
    <3>1. Recover(l)
      <4>1. CASE Finish(l)
        <5>1. \E status \in {"pending", "success", "failed"} : \E due : Update(t, status, due)
          BY <4>1, <1>a DEF Finish, Requeue, Complete, Thread, Outs
        <5>2. tasks[t].status = "in_progress"
          BY <4>1, <2>3, <1>c DEF Finish, At, Present
        <5> QED BY <5>1, <5>2, <2>3, <1>a, <1>c, UpdateEffect DEF queueVars
      <4> QED BY <4>1
    <3> QED BY <3>1, <2>3, <1>c DEF Recover, At, Present, queueVars
  <2> QED BY <2>1, <2>2, <2>3, <1>d
<1>g. /\ \A k \in Lanes : k # l => thr'[k] = thr[k]
      /\ thr'[l].pc \notin Busy
  BY FinishRests, RecoverRests DEF Busy
<1>h. thr'[l].pc = "recover" =>
        /\ thr'[l].task = t /\ thr'[l].row = thr[l].row
        /\ tasks'[t].status \in {"absent", "failed"}
  <2>1. CASE Finish(l) /\ thr[l].out \notin {"retry", "fatal"}
    <3>1. thr'[l] = Rest(Home(l))
      BY <2>1, <1>a DEF Finish
    <3> QED BY <3>1, RestIsThread DEF Home, PCs
  <2>2. CASE Finish(l) /\ thr[l].out \in {"retry", "fatal"}
    <3>1. Update(t, "failed", tasks[t].due)
      BY <2>2 DEF Finish, Complete
    <3>2. tasks'[t].status \in {"absent", "failed"}
      BY <3>1, <1>a, <1>c, UpdateEffect DEF Present
    <3>3. thr'[l] = [thr[l] EXCEPT !.pc = "recover"]
      BY <2>2, <1>a DEF Finish
    <3> QED BY <3>2, <3>3, <1>a, ThreadMoves DEF PCs
  <2>3. CASE Recover(l)
    BY <2>3, RecoverRests
  <2> QED BY <2>1, <2>2, <2>3
<1> HIDE DEF t
<1>1. IdsInv'
  BY <1>a, <1>c, <1>e, QueueAssumption DEF IdsInv, Ids
<1>2. HeldInv'
  <2>1. ASSUME NEW k \in Lanes, thr'[k].pc \in Holding
        PROVE  /\ Held(k)' \in Ids /\ Held(k)' < nextId'
               /\ tasks'[Held(k)'].status \in
                    {"absent", IF thr'[k].pc = "recover" THEN "failed" ELSE "in_progress"}
               /\ Present(Held(k))' => tasks'[Held(k)'].attempts = thr'[k].row.attempts
               /\ thr'[k].row.attempts > 0
               /\ thr'[k].row.kind = "result" => thr'[k].row.ref \in Ids
    <3>1. CASE k = l
      BY <2>1, <3>1, <1>a, <1>b, <1>c, <1>e, <1>g, <1>h DEF Held, HeldInv, Holding, Busy, Present, t
    <3>2. CASE k # l
      <4>1. thr'[k] = thr[k] /\ Held(k) # t
        BY <2>1, <3>2, <1>a, <1>b, <1>g DEF HeldInv, Held, t, Holding, Busy
      <4> QED BY <2>1, <4>1, <1>a, <1>e DEF Held, HeldInv, Present
    <3> QED BY <3>1, <3>2
  <2>2. ASSUME NEW k \in Lanes, NEW m \in Lanes, k # m,
               thr'[k].pc \in Holding, thr'[m].pc \in Holding
        PROVE  Held(k)' # Held(m)'
    BY <2>2, <1>a, <1>b, <1>g, <1>h DEF Held, HeldInv, Holding, Busy, t
  <2> QED BY <1>b, <2>1, <2>2 DEF HeldInv
<1>3. InProgressOwned'
  <2> SUFFICES ASSUME NEW u \in Ids, tasks'[u].status = "in_progress"
               PROVE  \E k \in Lanes : thr'[k].task = u /\ thr'[k].pc \in Busy
    BY DEF InProgressOwned, InStatus
  <2>1. u # t /\ tasks[u].status = "in_progress"
    BY <1>e, <1>f
  <2>2. PICK k \in Lanes : thr[k].task = u /\ thr[k].pc \in Busy
    BY <2>1, <1>a, <1>b DEF InProgressOwned, InStatus
  <2> QED BY <2>1, <2>2, <1>g DEF t
<1> QED BY <1>1, <1>2, <1>3 DEF Ownership

\* The steps, sorted by what they do to the table.
LEMMA NextCases ==
  [Next]_vars => \/ QuietStep
                 \/ \E l \in Lanes : Claim(l) \/ Finish(l) \/ Recover(l)
                 \/ Crash \/ ProcessExit \/ Restart
BY DEF Next, ControlStep, WorkStep, QuietStep, Lanes

\* Every step keeps every row with its owner.
LEMMA OwnershipStep == SafetyInv /\ [Next]_vars => Ownership'
<1> SUFFICES ASSUME SafetyInv, [Next]_vars PROVE Ownership'
  OBVIOUS
<1>a. QueueTypeOK /\ IdsInv /\ thr \in [Lanes -> Thread]
  BY DEF SafetyInv, TypeOK
<1>1. CASE QuietStep
  BY <1>1, QuietStepKeepsHolds, QuietKeepsOwnership
<1>2. CASE \E l \in Lanes : Claim(l) \/ Finish(l) \/ Recover(l)
  BY <1>2, ClaimKeepsOwnership, FinishKeepsOwnership
<1>3. CASE Crash \/ ProcessExit
  <2>1. ~alive' /\ UNCHANGED queueVars /\ \A l \in Lanes : thr'[l].pc = "exit"
    BY <1>3, RestIsThread DEF Crash, ProcessExit, Die, disk, queueVars, PCs
  <2> QED BY <1>a, <2>1 DEF Ownership, IdsInv, HeldInv, InProgressOwned, queueVars, Holding, Busy
<1>4. CASE Restart
  <2>1. \A l \in Lanes : thr'[l].pc = "top"
    BY <1>4, RestIsThread DEF Restart, PCs
  <2>2. /\ nextId' = nextId
        /\ \A u \in Ids :
             /\ tasks[u].status # "in_progress" => tasks'[u] = tasks[u]
             /\ tasks'[u].status # "in_progress"
             /\ tasks'[u].kind = tasks[u].kind /\ tasks'[u].ref = tasks[u].ref
    BY <1>4, <1>a, ResetEffect DEF Restart
  <2>3. IdsInv'
    BY <1>a, <2>2, AbsentFields DEF IdsInv
  <2>4. HeldInv' /\ InProgressOwned'
    BY <1>4, <2>1, <2>2 DEF Restart, HeldInv, InProgressOwned, InStatus, Holding, Busy
  <2> QED BY <2>3, <2>4 DEF Ownership
<1> QED BY <1>1, <1>2, <1>3, <1>4, NextCases

----------------------------------------------------------------------------
(* Interrupts *)

\* Reached, of the state after a step; t and n are values, not expressions.
ReachedAfter(t, n) ==
  t < nextId' /\ (tasks'[t].status # "absent" => n <= tasks'[t].attempts)

\* A claim that has happened stays in the past: attempts never decrease, and a
\* deleted row never comes back under its id.
LEMMA ReachedStays ==
  ASSUME SafetyInv, [Next]_vars, NEW t \in Ids, NEW n \in Nat, Reached(t, n)
  PROVE  ReachedAfter(t, n)
<1>a. QueueTypeOK /\ IdsInv /\ HeldInv /\ nextId \in Nat /\ tasks[t].attempts \in Nat
  BY QueueAssumption DEF SafetyInv, TypeOK, QueueTypeOK, Row
<1>1. CASE UNCHANGED queueVars
  BY <1>1 DEF Reached, ReachedAfter, Present, queueVars
<1>2. ASSUME NEW kind, NEW post, NEW ref, Enqueue(kind, post, ref) PROVE ReachedAfter(t, n)
  <2>1. /\ nextId \in Ids /\ nextId' = nextId + 1
        /\ \A u \in Ids : u # nextId => tasks'[u] = tasks[u]
    BY <1>2, <1>a, EnqueueEffect
  <2>2. t < nextId /\ t \in Nat
    BY QueueAssumption DEF Reached, Ids
  <2> QED BY <1>a, <2>1, <2>2 DEF Reached, ReachedAfter, Present
<1>3. ASSUME NEW u \in Ids, Remove(u) PROVE ReachedAfter(t, n)
  BY <1>3, <1>a, RemoveEffect, AbsentFields DEF Reached, ReachedAfter, Present
<1>4. ASSUME NEW u \in Ids, BecomeDue(u) PROVE ReachedAfter(t, n)
  BY <1>4, <1>a, DueEffect DEF Reached, ReachedAfter, Present
<1>5. ASSUME NEW l \in Lanes, Claim(l) PROVE ReachedAfter(t, n)
  <2> PICK u \in Ids : ClaimNext(l, u)
    BY <1>5 DEF Claim
  <2> QED BY <1>a, ClaimEffect DEF Reached, ReachedAfter, Present
<1>6. ASSUME NEW u \in Ids, NEW status, NEW due, Update(u, status, due) PROVE ReachedAfter(t, n)
  BY <1>6, <1>a, UpdateEffect DEF Reached, ReachedAfter, Present
<1>7. ASSUME NEW l \in Lanes, Finish(l) \/ Recover(l) PROVE ReachedAfter(t, n)
  <2>1. thr[l].task \in Ids
    BY <1>7, <1>a DEF Finish, Recover, At, HeldInv, Held, Holding, Busy
  <2>2. UNCHANGED queueVars \/ \E status, due : Update(thr[l].task, status, due)
    BY <1>7 DEF Finish, Recover, Requeue, Complete
  <2> QED BY <1>1, <1>6, <2>1, <2>2
<1>8. CASE Restart
  BY <1>8, <1>a, ResetEffect DEF Restart, Reached, ReachedAfter, Present
<1>9. CASE Crash \/ ProcessExit
  BY <1>9, <1>1 DEF Crash, ProcessExit, Die, disk, queueVars
<1>10. CASE QuietStep
  <2>1. TableOp
    BY <1>10, QuietStepKeepsHolds
  <2> QED BY <2>1, <1>1, <1>2, <1>3, <1>4 DEF TableOp
<1> QED BY <1>5, <1>7, <1>8, <1>9, <1>10, NextCases

\* Every step keeps an interrupt with the run it is for.
LEMMA InterruptStep == SafetyInv /\ [Next]_vars => InterruptInv' /\ InterruptReaches'
<1> SUFFICES ASSUME SafetyInv, [Next]_vars PROVE InterruptInv' /\ InterruptReaches'
  OBVIOUS
<1>a. /\ QueueTypeOK /\ IdsInv /\ HeldInv /\ InterruptInv /\ InterruptReaches
      /\ thr \in [Lanes -> Thread] /\ cancelEv \in [Ids -> {"none", "clear", "set"}]
      /\ sweep.cut \subseteq Ids \X Nat /\ interrupted \subseteq Ids \X Nat
  BY DEF SafetyInv, TypeOK
<1>1. InterruptInv'
  <2>1. \A r \in interrupted' \cup sweep'.cut :
          r \in interrupted \cup sweep.cut \/ (r \in Ids \X Nat /\ Reached(r[1], r[2]))
    <3>1. CASE UNCHANGED <<sweep, interrupted>>
      BY <3>1
    <3>2. CASE sweep' = NoSweep /\ UNCHANGED interrupted
      BY <3>2 DEF NoSweep
    <3>3. CASE DropRow \/ EnqueueCleanup
      <4>1. "cut" \in DOMAIN sweep
        BY DEF SafetyInv, TypeOK
      <4>2. sweep'.cut \subseteq sweep.cut
        BY <3>3, <4>1 DEF DropRow, EnqueueCleanup
      <4> QED BY <3>3, <4>2 DEF DropRow, EnqueueCleanup, history
    <3>4. CASE Interrupt
      BY <3>4 DEF Interrupt
    <3>5. ASSUME NEW c \in changes, TakeUp(c)
          PROVE  \A r \in interrupted' \cup sweep'.cut :
                   r \in interrupted \cup sweep.cut \/ (r \in Ids \X Nat /\ Reached(r[1], r[2]))
      <4>1. UNCHANGED interrupted
        BY <3>5 DEF TakeUp, history
      <4>2. sweep'.cut = {} \/ sweep'.cut =
              {<<t, tasks[t].attempts>> : t \in RowsOf(c.post, "in_progress", Kinds)}
        BY <3>5 DEF TakeUp
      <4>3. \A t \in RowsOf(c.post, "in_progress", Kinds) :
              t \in Ids /\ tasks[t].attempts \in Nat /\ Reached(t, tasks[t].attempts)
        BY <1>a, AbsentFields, QueueAssumption
           DEF RowsOf, TasksFor, InStatus, Reached, IdsInv, QueueTypeOK, Row, Ids
      <4> QED BY <4>1, <4>2, <4>3
    <3>6. \/ UNCHANGED <<sweep, interrupted>>
          \/ sweep' = NoSweep /\ UNCHANGED interrupted
          \/ DropRow \/ EnqueueCleanup \/ Interrupt
          \/ \E c \in changes : TakeUp(c)
      <4>1. CASE QuietStep
        BY <4>1 DEF QuietStep, vars, memory, disk, history, HumanFlips, ClockPasses, QuotaClears,
             Pause, Resume, Reloaded, RequestStop, PollRemote, SkipPoll, EndSweep, EndSync,
             AbortSync, ControlGoes, WorkGoes, NothingToClaim, LoopExits, Register, Clear,
             RetryCancelled, Escalate, HandleEvent, HandleCleanup, HandleSpec, ConsumeResult,
             ApplyResult, JobEnds, AgentEnds, ResolverEnds, GateEnds, AgentKilled,
             GovernWorker, WriteOutcome, HandOver
      <4>2. CASE \E l \in Lanes : Claim(l) \/ Finish(l) \/ Recover(l)
        BY <4>2 DEF Claim, Finish, Recover, history
      <4>3. CASE Crash \/ ProcessExit \/ Restart
        BY <4>3 DEF Crash, ProcessExit, Die, Restart, history
      <4> QED BY <4>1, <4>2, <4>3, NextCases
    <3> QED BY <3>1, <3>2, <3>3, <3>4, <3>5, <3>6
  <2>2. \A r \in interrupted' \cup sweep'.cut :
          r \in Ids \X Nat /\ Reached(r[1], r[2])
    BY <1>a, <2>1 DEF InterruptInv
  <2> QED BY <2>2, ReachedStays DEF InterruptInv, Reached, ReachedAfter, Present
<1>2. InterruptReaches'
  <2> SUFFICES ASSUME NEW l \in Lanes, thr'[l].pc \in Live,
                      <<thr'[l].task, thr'[l].row.attempts>> \in interrupted'
               PROVE  cancelEv'[thr'[l].task] = "set"
    BY DEF InterruptReaches, Live
  <2>1. CASE QuietStep
    <3>1. KeepsHold(l) /\ alive' = alive
      BY <2>1, QuietStepKeepsHolds
    <3>2. /\ thr[l].pc \in Live /\ thr[l].pc \in Holding
          /\ thr'[l].task = thr[l].task /\ thr'[l].row = thr[l].row
      BY <3>1 DEF KeepsHold, Live, Holding, Busy, Executing
    <3>3. thr[l].task \in Ids
      BY <3>2, <1>a DEF HeldInv, Held
    <3>4. <<thr[l].task, thr[l].row.attempts>> \in interrupted => cancelEv[thr[l].task] = "set"
      BY <3>2, <1>a DEF InterruptReaches, Live
    <3>5. CASE Interrupt
      BY <3>2, <3>3, <3>4, <3>5, <1>a DEF Interrupt
    <3>6. CASE \E k \in Lanes : Clear(k)
      <4> PICK k \in Lanes : Clear(k)
        BY <3>6
      <4>1. thr'[k].pc = "finish" /\ thr[k].pc = "ended"
        BY <1>a, GotoEffect DEF Clear, At, PCs
      <4>2. k # l /\ thr[k].task # thr[l].task
        BY <4>1, <3>2, <1>a DEF HeldInv, Held, Holding, Busy, Live, Executing
      <4> QED BY <4>2, <3>2, <3>3, <3>4, <1>a DEF Clear, history
    <3>7. CASE (\E k \in Lanes : Register(k)) \/ GovernWorker \/ RequestStop
      BY <3>7, <3>2, <3>3, <3>4, <1>a DEF Register, GovernWorker, RequestStop, history
    <3>8. CASE UNCHANGED <<cancelEv, interrupted>>
      BY <3>8, <3>2, <3>4
    <3>9. \/ Interrupt \/ GovernWorker \/ RequestStop \/ UNCHANGED <<cancelEv, interrupted>>
          \/ \E k \in Lanes : Clear(k) \/ Register(k)
      BY <2>1 DEF QuietStep, vars, memory, disk, history, HumanFlips, ClockPasses, QuotaClears,
           Pause, Resume, Reloaded, PollRemote, SkipPoll, TakeUp, DropRow, EnqueueCleanup,
           EndSweep, EndSync, AbortSync, ControlGoes, WorkGoes, NothingToClaim, LoopExits,
           RetryCancelled, Escalate, HandleEvent, HandleCleanup, HandleSpec, ConsumeResult,
           ApplyResult, JobEnds, AgentEnds, ResolverEnds, GateEnds, AgentKilled,
           WriteOutcome, HandOver
    <3> QED BY <3>5, <3>6, <3>7, <3>8, <3>9
  <2>2. ASSUME NEW k \in Lanes, Claim(k) PROVE cancelEv'[thr'[l].task] = "set"
    <3> PICK t \in Ids : /\ ClaimNext(k, t)
                         /\ thr' = [thr EXCEPT ![k] =
                                      [Rest("claimed") EXCEPT !.task = t, !.row = tasks'[t]]]
      BY <2>2 DEF Claim
    <3>1. /\ \A m \in Lanes : m # k => thr'[m] = thr[m]
          /\ thr'[k].pc = "claimed" /\ thr'[k].task = t /\ thr'[k].row = tasks'[t]
      BY ClaimTakesHold
    <3>2. UNCHANGED <<cancelEv, interrupted>>
      BY <2>2 DEF Claim, history
    <3>3. CASE l = k
      <4>1. /\ tasks[t].status = "pending" /\ tasks[t].attempts \in Nat
            /\ tasks'[t].attempts = tasks[t].attempts + 1
        BY <1>a, ClaimEffect
      <4>2. Reached(t, tasks[t].attempts + 1)
        BY <3>1, <3>2, <3>3, <4>1, <1>a DEF InterruptInv
      <4> QED BY <4>1, <4>2 DEF Reached, Present
    <3>4. CASE l # k
      BY <3>1, <3>2, <3>4, <1>a DEF InterruptReaches, Live
    <3> QED BY <3>3, <3>4
  <2>3. ASSUME NEW k \in Lanes, Finish(k) \/ Recover(k) PROVE cancelEv'[thr'[l].task] = "set"
    <3>1. (\A m \in Lanes : m # k => thr'[m] = thr[m])
          /\ thr'[k].pc \in {"recover", "drain", "top", "escalate"}
      BY <2>3, FinishRests, RecoverRests
    <3>3. k # l => thr'[l] = thr[l]
      BY <3>1
    <3>4. k = l => thr'[l].pc \notin Live
      BY <3>1 DEF Live, Executing
    <3>5. UNCHANGED <<cancelEv, interrupted>>
      BY <2>3 DEF Finish, Recover, history
    <3> QED BY <3>3, <3>4, <3>5, <1>a DEF InterruptReaches, Live
  <2>4. CASE Crash \/ ProcessExit \/ Restart
    <3>1. thr'[l].pc \in {"exit", "top"}
      BY <2>4, RestIsThread DEF Crash, ProcessExit, Die, Restart, PCs
    <3> QED BY <3>1 DEF Live, Executing
  <2> QED BY <2>1, <2>2, <2>3, <2>4, NextCases
<1> QED BY <1>1, <1>2

----------------------------------------------------------------------------
(* Results *)

\* The work thread has claimed a run whose outcome is not written yet.
Early == {"claimed", "running", "write"}

\* A step that neither writes, takes nor applies an outcome, and after which no
\* thread does so that did not before.
KeepsResults ==
  /\ UNCHANGED <<outcome, applied>>
  /\ thr'["control"].pc = "apply" =>
       /\ thr["control"].pc = "apply" /\ thr'["control"].row = thr["control"].row
       /\ thr'["control"].read = thr["control"].read
  /\ thr'["work"].pc \in Early =>
       /\ thr["work"].pc \in Early /\ thr'["work"].task = thr["work"].task
       /\ thr'["work"].row = thr["work"].row

ResultStepCases ==
  Claim("work") \/ WriteOutcome \/ ConsumeResult \/ ApplyResult

\* A step that is no result's keeps the results.
LEMMA OtherStepsKeepResults ==
  SafetyInv /\ [Next]_vars => KeepsResults \/ ResultStepCases
<1> SUFFICES ASSUME SafetyInv, [Next]_vars, ~ResultStepCases PROVE KeepsResults
  OBVIOUS
<1>a. thr \in [Lanes -> Thread] /\ "control" \in Lanes /\ "work" \in Lanes
  BY DEF SafetyInv, TypeOK, Lanes
<1>g. ASSUME NEW l \in Lanes, NEW pc \in PCs, Goto(l, pc), UNCHANGED <<outcome, applied>>,
             pc # "apply", pc \in Early => l = "control" \/ thr[l].pc \in Early
      PROVE  KeepsResults
  BY <1>a, <1>g, GotoEffect DEF KeepsResults
<1>e. ASSUME NEW l \in Lanes, NEW out \in Outs, Ended(l, out), UNCHANGED <<outcome, applied>>
      PROVE  KeepsResults
  BY <1>a, <1>e, EndedEffect DEF KeepsResults, Early
<1>1. CASE UNCHANGED <<thr, outcome, applied>>
  BY <1>1 DEF KeepsResults
<1>2. CASE Resume \/ Reloaded \/ PollRemote \/ SkipPoll \/ (\E c \in changes : TakeUp(c))
           \/ Interrupt \/ EnqueueCleanup \/ EndSweep \/ EndSync \/ AbortSync
           \/ ControlGoes \/ WorkGoes
  BY <1>2, <1>a, <1>g
     DEF Resume, Reloaded, PollRemote, SkipPoll, TakeUp, Interrupt, EnqueueCleanup, EndSweep,
         EndSync, AbortSync, ControlGoes, WorkGoes, PCs, Early, history, disk
<1>3. CASE \E l \in Lanes : NothingToClaim(l) \/ LoopExits(l) \/ Register(l) \/ Clear(l)
  BY <1>3, <1>a, <1>g
     DEF NothingToClaim, LoopExits, Register, Clear, PCs, Early, At, history, disk
<1>4. CASE \/ HandleEvent \/ HandleCleanup \/ HandleSpec \/ AgentKilled \/ HandOver
           \/ ResolverEnds \/ GateEnds \/ \E l \in Lanes : RetryCancelled(l)
  BY <1>4, <1>a, <1>e
     DEF HandleEvent, HandleCleanup, HandleSpec, AgentKilled, HandOver, ResolverEnds, GateEnds,
         RetryCancelled, Outs, history, disk
<1>5. CASE AgentEnds
  <2>1. (Goto("work", "write") \/ \E out \in Outs : Ended("work", out)) /\ thr["work"].pc = "running"
        /\ UNCHANGED <<outcome, applied>>
    BY <1>5 DEF AgentEnds, Outs, history, disk, At
  <2> QED BY <2>1, <1>a, <1>g, <1>e DEF PCs, Early
<1>6. ASSUME NEW l \in Lanes, Finish(l) \/ Recover(l) PROVE KeepsResults
  <2>1. (\A k \in Lanes : k # l => thr'[k] = thr[k])
        /\ thr'[l].pc \in {"recover", "drain", "top", "escalate"}
    BY <1>6, FinishRests, RecoverRests
  <2>2. UNCHANGED <<outcome, applied>>
    BY <1>6 DEF Finish, Recover, history
  <2> QED BY <1>a, <2>1, <2>2 DEF KeepsResults, Early
<1>10. CASE \E l \in Lanes : Escalate(l)
  BY <1>10, <1>a, <1>g DEF Escalate, Home, PCs, Early, history
<1>7. CASE Claim("control")
  <2>1. thr'["work"] = thr["work"] /\ thr'["control"].pc = "claimed"
    BY <1>7, <1>a, ClaimTakesHold DEF Claim, Lanes
  <2> QED BY <1>7, <2>1 DEF KeepsResults, Claim, history
<1>8. CASE Crash \/ ProcessExit \/ Restart
  <2>1. \A l \in Lanes : thr'[l].pc \in {"exit", "top"}
    BY <1>8, RestIsThread DEF Crash, ProcessExit, Die, Restart, PCs
  <2> QED BY <1>8, <1>a, <2>1
        DEF KeepsResults, Early, Crash, ProcessExit, Die, Restart, history, disk
<1>9. CASE QuietStep
  <2>1. \/ UNCHANGED <<thr, outcome, applied>>
        \/ Resume \/ Reloaded \/ PollRemote \/ SkipPoll \/ (\E c \in changes : TakeUp(c))
        \/ Interrupt \/ EnqueueCleanup \/ EndSweep \/ EndSync \/ AbortSync
        \/ ControlGoes \/ WorkGoes
        \/ (\E l \in Lanes : NothingToClaim(l) \/ LoopExits(l) \/ Register(l) \/ Clear(l))
        \/ HandleEvent \/ HandleCleanup \/ HandleSpec \/ AgentKilled \/ HandOver
        \/ ResolverEnds \/ GateEnds \/ (\E l \in Lanes : RetryCancelled(l)) \/ AgentEnds
        \/ \E l \in Lanes : Escalate(l)
    BY <1>9 DEF QuietStep, JobEnds, ResultStepCases, vars, memory, disk, history, HumanFlips, ClockPasses,
         QuotaClears, Pause, RequestStop, DropRow, GovernWorker
  <2> QED BY <2>1, <1>1, <1>2, <1>3, <1>4, <1>5, <1>10
<1> QED
  BY <1>6, <1>7, <1>8, <1>9, NextCases DEF ResultStepCases, Lanes

\* Every step keeps results applied once.
LEMMA ResultStep == SafetyInv /\ [Next]_vars => ResultInv' /\ AppliedOnce'
<1> SUFFICES ASSUME SafetyInv, [Next]_vars PROVE ResultInv' /\ AppliedOnce'
  OBVIOUS
<1>a. /\ QueueTypeOK /\ IdsInv /\ HeldInv /\ ResultInv /\ AppliedOnce
      /\ thr \in [Lanes -> Thread] /\ outcome \in [Ids -> Nat] /\ applied \subseteq Ids \X Nat
      /\ "control" \in Lanes /\ "work" \in Lanes
  BY DEF SafetyInv, TypeOK, Lanes
<1>b. /\ thr["control"].read \in Nat
      /\ \A l \in Lanes : thr[l].row.attempts \in Nat
  BY <1>a, ThreadRow DEF Thread
<1>1. CASE KeepsResults
  <2>1. \A t \in Ids : outcome'[t] # 0 => ReachedAfter(t, outcome'[t])
    BY <1>1, <1>a, ReachedStays DEF KeepsResults, ResultInv
  <2>2. \A r \in applied' : r[2] # 0 /\ ReachedAfter(r[1], r[2]) /\ outcome'[r[1]] # r[2]
    BY <1>1, <1>a, ReachedStays DEF KeepsResults, ResultInv
  <2>3. thr'["control"].pc = "apply" =>
          LET t == thr'["control"].row.ref  n == thr'["control"].read IN
          t \in Ids /\ n # 0 /\ ReachedAfter(t, n) /\ outcome'[t] # n
    BY <1>1, <1>a, <1>b, ReachedStays DEF KeepsResults, ResultInv
  <2>4. thr'["work"].pc \in {"claimed", "running", "write"} =>
          LET t == thr'["work"].task  n == thr'["work"].row.attempts IN
          /\ <<t, n>> \notin applied'
          /\ outcome'[t] # n
          /\ thr'["control"].pc = "apply" =>
               <<t, n>> # <<thr'["control"].row.ref, thr'["control"].read>>
    BY <1>1, <1>a DEF KeepsResults, ResultInv, Early, Held
  <2>5. AppliedOnce'
    BY <1>1, <1>a DEF KeepsResults, AppliedOnce
  <2> QED BY <2>1, <2>2, <2>3, <2>4, <2>5 DEF ResultInv, Held, Reached, ReachedAfter, Present
<1>2. CASE Claim("work")
  <2> PICK t \in Ids : /\ ClaimNext("work", t)
                       /\ thr' = [thr EXCEPT !["work"] =
                                    [Rest("claimed") EXCEPT !.task = t, !.row = tasks'[t]]]
    BY <1>2 DEF Claim
  <2>1. /\ thr'["control"] = thr["control"] /\ UNCHANGED <<outcome, applied>>
        /\ thr'["work"].task = t /\ thr'["work"].row = tasks'[t]
    BY <1>2, <1>a, ClaimTakesHold DEF Claim, history, Lanes
  <2>2. /\ tasks[t].status = "pending" /\ tasks[t].attempts \in Nat
        /\ tasks'[t].attempts = tasks[t].attempts + 1
    BY <1>a, ClaimEffect
  <2>3. \A n \in Nat : Reached(t, n) => n # tasks'[t].attempts
    BY <2>2 DEF Reached, Present
  <2>4. tasks'[t].attempts # 0 /\ tasks'[t].attempts \in Nat
    BY <2>2
  <2>5. /\ <<t, tasks'[t].attempts>> \notin applied'
        /\ outcome'[t] # tasks'[t].attempts
        /\ thr'["control"].pc = "apply" =>
             <<t, tasks'[t].attempts>> # <<thr'["control"].row.ref, thr'["control"].read>>
    BY <2>1, <2>3, <2>4, <1>a, <1>b DEF ResultInv
  <2>6. ResultInv'
    <3>1. \A u \in Ids : outcome'[u] # 0 => ReachedAfter(u, outcome'[u])
      BY <2>1, <1>a, ReachedStays DEF ResultInv
    <3>2. \A r \in applied' : r[2] # 0 /\ ReachedAfter(r[1], r[2]) /\ outcome'[r[1]] # r[2]
      BY <2>1, <1>a, ReachedStays DEF ResultInv
    <3>3. thr'["control"].pc = "apply" =>
            LET u == thr'["control"].row.ref  n == thr'["control"].read IN
            u \in Ids /\ n # 0 /\ ReachedAfter(u, n) /\ outcome'[u] # n
      BY <2>1, <1>a, <1>b, ReachedStays DEF ResultInv
    <3> QED BY <2>1, <2>5, <3>1, <3>2, <3>3 DEF ResultInv, Held, Reached, ReachedAfter, Present
  <2>7. AppliedOnce'
    BY <2>1, <1>a DEF AppliedOnce
  <2> QED BY <2>6, <2>7
<1>3. CASE WriteOutcome
  <2> DEFINE t == thr["work"].task
             a == thr["work"].row.attempts
  <2>1. /\ thr'["work"].pc = "hand" /\ thr'["control"] = thr["control"] /\ thr["work"].pc = "write"
        /\ outcome' = [outcome EXCEPT ![t] = a] /\ UNCHANGED <<applied, tasks, nextId>>
    BY <1>3, <1>a, GotoEffect DEF WriteOutcome, PCs, history, At, Lanes
  <2>2. /\ t \in Ids /\ t < nextId /\ (Present(t) => tasks[t].attempts = a) /\ a # 0 /\ a \in Nat
    BY <2>1, <1>a, <1>b DEF HeldInv, Held, Holding, Busy
  <2>3. Reached(t, a)
    BY <2>2 DEF Reached
  <2>4. /\ <<t, a>> \notin applied
        /\ thr["control"].pc = "apply" =>
             <<t, a>> # <<thr["control"].row.ref, thr["control"].read>>
    BY <2>1, <1>a DEF ResultInv, Held
  <2>5. outcome'[t] = a /\ \A u \in Ids : u # t => outcome'[u] = outcome[u]
    BY <2>1, <2>2, <1>a
  <2> HIDE DEF t, a
  <2>6. \A u \in Ids : outcome'[u] # 0 => Reached(u, outcome'[u])
    BY <2>3, <2>5, <1>a DEF ResultInv
  <2>7. \A r \in applied' : r[2] # 0 /\ Reached(r[1], r[2]) /\ outcome'[r[1]] # r[2]
    <3> SUFFICES ASSUME NEW r \in applied
                 PROVE  r[2] # 0 /\ Reached(r[1], r[2]) /\ outcome'[r[1]] # r[2]
      BY <2>1
    <3>1. r = <<r[1], r[2]>> /\ r[1] \in Ids
      BY <1>a
    <3> QED BY <3>1, <2>4, <2>5, <1>a DEF ResultInv
  <2>8. thr'["control"].pc = "apply" =>
          LET u == thr'["control"].row.ref  n == thr'["control"].read IN
          u \in Ids /\ n # 0 /\ Reached(u, n) /\ outcome'[u] # n
    BY <2>1, <2>4, <2>5, <1>a DEF ResultInv
  <2>9. ResultInv'
    BY <2>1, <2>6, <2>7, <2>8 DEF ResultInv, Reached, Present
  <2>10. AppliedOnce'
    BY <2>1, <1>a DEF AppliedOnce
  <2> QED BY <2>9, <2>10
<1>4. CASE ConsumeResult
  <2> DEFINE t == thr["control"].row.ref
  <2>1. /\ thr["control"].pc = "running" /\ thr["control"].row.kind = "result"
        /\ outcome' = [outcome EXCEPT ![t] = 0] /\ UNCHANGED <<applied, tasks, nextId>>
    BY <1>4 DEF ConsumeResult, history, At, Kind
  <2>2. t \in Ids
    BY <2>1, <1>a DEF HeldInv, Holding, Busy
  <2>3. /\ thr'["work"] = thr["work"]
        /\ thr'["control"].pc = "apply" => /\ outcome[t] # 0 /\ thr'["control"].read = outcome[t]
                                           /\ thr'["control"].row = thr["control"].row
    <3>1. CASE outcome[t] = 0
      <4>1. Ended("control", "ok") /\ "ok" \in Outs
        BY <1>4, <3>1 DEF ConsumeResult, Outs
      <4> QED BY <4>1, <1>a, EndedEffect DEF Lanes
    <3>2. CASE outcome[t] # 0
      <4>1. thr' = [thr EXCEPT !["control"].pc = "apply", !["control"].read = outcome[t]]
        BY <1>4, <3>2 DEF ConsumeResult
      <4> QED BY <4>1, <3>2, <1>a DEF Thread, Lanes
    <3> QED BY <3>1, <3>2
  <2>4. outcome'[t] = 0 /\ \A u \in Ids : u # t => outcome'[u] = outcome[u]
    BY <2>1, <2>2, <1>a
  <2>5. outcome[t] # 0 => Reached(t, outcome[t]) /\ <<t, outcome[t]>> \notin applied
    <3>1. \A r \in applied : outcome[r[1]] # r[2]
      BY <1>a DEF ResultInv
    <3> QED BY <3>1, <2>2, <1>a DEF ResultInv
  <2> HIDE DEF t
  <2>6. \A u \in Ids : outcome'[u] # 0 => Reached(u, outcome'[u])
    BY <2>4, <1>a DEF ResultInv
  <2>7. \A r \in applied' : r[2] # 0 /\ Reached(r[1], r[2]) /\ outcome'[r[1]] # r[2]
    BY <2>1, <2>4, <1>a DEF ResultInv
  <2>8. thr'["control"].pc = "apply" =>
          LET u == thr'["control"].row.ref  n == thr'["control"].read IN
          u \in Ids /\ n # 0 /\ Reached(u, n) /\ outcome'[u] # n
    BY <2>2, <2>3, <2>4, <2>5 DEF t
  <2>9. thr'["work"].pc \in {"claimed", "running", "write"} =>
          LET u == thr'["work"].task  n == thr'["work"].row.attempts IN
          /\ <<u, n>> \notin applied'
          /\ outcome'[u] # n
          /\ thr'["control"].pc = "apply" =>
               <<u, n>> # <<thr'["control"].row.ref, thr'["control"].read>>
    <3> SUFFICES ASSUME thr["work"].pc \in {"claimed", "running", "write"}
                 PROVE  LET u == thr["work"].task  n == thr["work"].row.attempts IN
                        /\ <<u, n>> \notin applied
                        /\ outcome'[u] # n
                        /\ thr'["control"].pc = "apply" => <<u, n>> # <<t, outcome[t]>>
      BY <2>1, <2>3 DEF t
    <3>1. LET u == thr["work"].task  n == thr["work"].row.attempts IN
          u \in Ids /\ n > 0 /\ <<u, n>> \notin applied /\ outcome[u] # n
      BY <1>a DEF ResultInv, HeldInv, Held, Holding, Busy
    <3> QED BY <3>1, <2>4, <1>b
  <2>10. ResultInv'
    BY <2>1, <2>6, <2>7, <2>8, <2>9 DEF ResultInv, Held, Reached, Present
  <2>11. AppliedOnce'
    BY <2>1, <2>3, <2>5 DEF AppliedOnce, t
  <2> QED BY <2>10, <2>11
<1>5. CASE ApplyResult
  <2> DEFINE t == thr["control"].row.ref
             n == thr["control"].read
  <2>1. /\ thr["control"].pc = "apply" /\ UNCHANGED outcome
        /\ applied' = applied \/ applied' = applied \cup {<<t, n>>}
        /\ \E out \in Outs : Ended("control", out)
    BY <1>5 DEF ApplyResult, At, Outs
  <2>2. thr'["work"] = thr["work"] /\ thr'["control"].pc = "ended"
    BY <2>1, <1>a, EndedEffect DEF Lanes
  <2>3. t \in Ids /\ n # 0 /\ n \in Nat /\ Reached(t, n) /\ outcome[t] # n
    BY <2>1, <1>a, <1>b DEF ResultInv
  <2>4. thr["work"].pc \in {"claimed", "running", "write"} =>
          LET u == thr["work"].task  m == thr["work"].row.attempts IN
          <<u, m>> \notin applied' /\ outcome[u] # m
    BY <2>1, <1>a DEF ResultInv, Held
  <2> HIDE DEF t, n
  <2>5. \A u \in Ids : outcome'[u] # 0 => ReachedAfter(u, outcome'[u])
    BY <2>1, <1>a, ReachedStays DEF ResultInv
  <2>6. ASSUME NEW r \in applied'
        PROVE  r[2] # 0 /\ ReachedAfter(r[1], r[2]) /\ outcome'[r[1]] # r[2]
    <3>1. CASE r \in applied
      BY <3>1, <2>1, <1>a, ReachedStays DEF ResultInv
    <3>2. CASE r = <<t, n>>
      BY <3>2, <2>1, <2>3, ReachedStays
    <3> QED BY <3>1, <3>2, <2>1
  <2>7. ResultInv' /\ AppliedOnce'
    BY <2>1, <2>2, <2>4, <2>5, <2>6
       DEF ResultInv, AppliedOnce, Held, Reached, ReachedAfter, Present
  <2> QED BY <2>7
<1> QED BY <1>1, <1>2, <1>3, <1>4, <1>5, OtherStepsKeepResults DEF ResultStepCases

----------------------------------------------------------------------------
(* The quota circuit *)

\* The claim sees the circuit as the work loop saw it: between the check and the
\* claim nobody opens it, as no control task ever ends for quota.
QuotaInv ==
  /\ thr["work"].pc = "go" => ~parked
  /\ thr["control"].out # "quota"

\* A step between two states of the circuit that is no claim of the work lane.
Calm ==
  /\ parked' => parked
  /\ thr'["work"].pc = "go" => thr["work"].pc = "go" \/ ~parked'
  /\ thr'["work"].pc = "claimed" => thr["work"].pc = "claimed"
  /\ thr'["control"].out # "quota"

\* Only the work thread's own steps move it; an outcome other than quota, or a
\* move that does not make the work thread go or claim, is calm.
LEMMA GotoIsCalm ==
  ASSUME thr \in [Lanes -> Thread], QuotaInv, parked' = parked,
         NEW l \in Lanes, NEW pc \in PCs, Goto(l, pc), l = "control" \/ pc \notin {"go", "claimed"}
  PROVE  Calm
BY GotoEffect DEF Calm, QuotaInv, Lanes

\* Ending is calm unless a control task ends for quota.
LEMMA EndedIsCalm ==
  ASSUME thr \in [Lanes -> Thread], QuotaInv, parked' = parked,
         NEW l \in Lanes, NEW out \in Outs, Ended(l, out), l = "work" \/ out # "quota"
  PROVE  Calm
BY EndedEffect DEF Calm, QuotaInv, Lanes

\* No quiet step opens the circuit or claims for the work lane.
LEMMA QuietIsCalm == SafetyInv /\ QuotaInv /\ QuietStep => Calm
<1> SUFFICES ASSUME SafetyInv, QuotaInv, QuietStep PROVE Calm
  OBVIOUS
<1>a. thr \in [Lanes -> Thread] /\ "control" \in Lanes /\ "work" \in Lanes
  BY DEF SafetyInv, TypeOK, Lanes
<1>1. CASE \/ UNCHANGED vars
           \/ \E p \in Posts, field \in {"open", "label"} : HumanFlips(p, field)
           \/ QuotaClears \/ Pause \/ RequestStop \/ GovernWorker
           \/ (\E t \in Ids : ClockPasses(t)) \/ DropRow
  BY <1>1 DEF vars, HumanFlips, QuotaClears, Pause, RequestStop, GovernWorker, ClockPasses,
       DropRow, memory, Calm, QuotaInv
<1>2. CASE Resume \/ Reloaded \/ PollRemote \/ SkipPoll \/ (\E c \in changes : TakeUp(c))
  BY <1>2, <1>a, GotoIsCalm DEF Resume, Reloaded, PollRemote, SkipPoll, TakeUp, PCs
<1>3. CASE Interrupt \/ EndSync \/ AbortSync \/ EnqueueCleanup \/ EndSweep
  BY <1>3, <1>a, GotoIsCalm DEF Interrupt, EndSync, AbortSync, EnqueueCleanup, EndSweep, PCs
<1>4. CASE ControlGoes
  BY <1>4, <1>a, GotoIsCalm DEF ControlGoes, PCs
<1>5. CASE WorkGoes
  BY <1>5, <1>a, GotoEffect DEF WorkGoes, PCs, Calm, QuotaInv, Lanes
<1>6. CASE \E l \in Lanes : NothingToClaim(l) \/ LoopExits(l) \/ Register(l) \/ Clear(l)
  BY <1>6, <1>a, GotoIsCalm DEF NothingToClaim, LoopExits, Register, Clear, PCs
<1>7. CASE \E l \in Lanes : RetryCancelled(l)
  BY <1>7, <1>a, EndedIsCalm DEF RetryCancelled, Outs
<1>8. CASE \E l \in Lanes : Escalate(l)
  BY <1>8, <1>a, GotoIsCalm DEF Escalate, PCs, Home
<1>9. CASE HandleEvent \/ HandleCleanup \/ HandleSpec \/ ApplyResult
  <2>1. /\ parked' = parked
        /\ \E out \in {"ok", "hold", "requeue", "retry", "fatal"} : Ended("control", out)
    BY <1>9 DEF HandleEvent, HandleCleanup, HandleSpec, ApplyResult
  <2> QED BY <1>a, <2>1, EndedIsCalm DEF Outs
<1>10. CASE ConsumeResult
  <2>1. CASE Ended("control", "ok")
    BY <1>10, <2>1, <1>a, EndedIsCalm DEF ConsumeResult, Outs
  <2>2. CASE thr' = [thr EXCEPT !["control"].pc = "apply",
                                !["control"].read = outcome[thr["control"].row.ref]]
    <3>1. thr'["control"].out = thr["control"].out /\ thr'["work"] = thr["work"]
      BY <2>2, <1>a DEF Thread, Lanes
    <3> QED BY <1>10, <3>1 DEF ConsumeResult, Calm, QuotaInv
  <2> QED BY <1>10, <2>1, <2>2 DEF ConsumeResult
<1>11. CASE JobEnds \/ AgentKilled \/ WriteOutcome \/ HandOver
  <2>1. /\ parked' = parked
        /\ (\E pc \in {"write", "hand"} : Goto("work", pc)) \/ (\E out \in Outs : Ended("work", out))
    BY <1>11 DEF JobEnds, AgentEnds, ResolverEnds, GateEnds, AgentKilled, WriteOutcome, HandOver, Outs
  <2> QED BY <1>a, <2>1, EndedIsCalm, GotoIsCalm DEF PCs
<1> QED
  BY <1>1, <1>2, <1>3, <1>4, <1>5, <1>6, <1>7, <1>8, <1>9, <1>10, <1>11 DEF QuietStep

\* QuotaInv is inductive relative to SafetyInv, and a claim of the work lane finds
\* the circuit closed.
LEMMA QuotaStep ==
  SafetyInv /\ QuotaInv /\ [Next]_vars =>
    /\ QuotaInv'
    /\ thr["work"].pc # "claimed" /\ thr'["work"].pc = "claimed" => ~parked
<1> SUFFICES ASSUME SafetyInv, QuotaInv, [Next]_vars
             PROVE  /\ QuotaInv'
                    /\ thr["work"].pc # "claimed" /\ thr'["work"].pc = "claimed" => ~parked
  OBVIOUS
<1>a. thr \in [Lanes -> Thread] /\ "control" \in Lanes /\ "work" \in Lanes
  BY DEF SafetyInv, TypeOK, Lanes
<1>1. CASE QuietStep
  BY <1>1, QuietIsCalm DEF Calm, QuotaInv
<1>2. CASE \E l \in Lanes : Claim(l)
  <2> PICK l \in Lanes : Claim(l)
    BY <1>2
  <2> PICK t \in Ids : thr' = [thr EXCEPT ![l] = [Rest("claimed") EXCEPT !.task = t, !.row = tasks'[t]]]
    BY DEF Claim
  <2>1. thr[l].pc = "go" /\ parked' = parked
    BY DEF Claim, At
  <2>2. /\ \A k \in Lanes : k # l => thr'[k] = thr[k]
        /\ thr'[l].pc = "claimed" /\ thr'[l].out = "none"
    BY <1>a DEF Rest
  <2> QED BY <1>a, <2>1, <2>2 DEF QuotaInv, Lanes
<1>3. CASE \E l \in Lanes : Finish(l)
  <2> PICK l \in Lanes : Finish(l)
    BY <1>3
  <2>1. /\ \A k \in Lanes : k # l => thr'[k] = thr[k]
        /\ thr'[l].pc \in {"recover", "drain", "top"}
    BY FinishRests
  <2>2. thr'[l].out # "quota"
    <3>1. CASE thr[l].out \in {"retry", "fatal"}
      <4>1. [thr[l] EXCEPT !.pc = "recover"].out = thr[l].out
        BY <1>a, ThreadMoves DEF PCs
      <4>2. thr'[l] = [thr[l] EXCEPT !.pc = "recover"]
        BY <1>a, <3>1 DEF Finish
      <4> QED BY <3>1, <4>1, <4>2
    <3>2. CASE thr[l].out \notin {"retry", "fatal"}
      <4>1. thr'[l] = Rest(Home(l))
        BY <1>a, <3>2 DEF Finish
      <4> QED BY <4>1 DEF Rest
    <3> QED BY <3>1, <3>2
  <2>3. parked' => parked \/ thr[l].out = "quota"
    BY DEF Finish
  <2>4. CASE l = "control"
    BY <1>a, <2>1, <2>2, <2>3, <2>4 DEF QuotaInv, Lanes
  <2>5. CASE l = "work"
    BY <1>a, <2>1, <2>5 DEF QuotaInv, Lanes
  <2> QED BY <2>4, <2>5 DEF Lanes
<1>4. CASE \E l \in Lanes : Recover(l)
  <2> PICK l \in Lanes : Recover(l)
    BY <1>4
  <2>1. /\ \A k \in Lanes : k # l => thr'[k] = thr[k]
        /\ thr'[l].pc \in {"drain", "top", "escalate"}
    BY RecoverRests
  <2>2. PICK pc \in PCs : thr' = [thr EXCEPT ![l] = Rest(pc)]
    BY DEF Recover, Home, PCs
  <2>3. thr'[l].out = "none" /\ parked' = parked
    BY <1>a, <2>2 DEF Recover, Rest
  <2> QED BY <1>a, <2>1, <2>3 DEF QuotaInv, Lanes
<1>5. CASE Crash \/ ProcessExit \/ Restart
  <2>1. \E pc \in {"exit", "top"} : thr' = [l \in Lanes |-> Rest(pc)]
    BY <1>5 DEF Crash, ProcessExit, Die, Restart
  <2> QED BY <1>a, <2>1 DEF QuotaInv, Rest
<1> QED BY <1>1, <1>2, <1>3, <1>4, <1>5, NextCases

----------------------------------------------------------------------------
(* The theorems *)

\* SafetyInv is inductive, so it holds in every reachable state: every variable
\* has its type, no row is orphaned, no interrupt is lost, no result applied twice.
THEOREM Safety == Spec => []SafetyInv
<1>1. SafetyInv /\ [Next]_vars => SafetyInv'
  BY TypeStep, OwnershipStep, InterruptStep, ResultStep DEF SafetyInv, Ownership
<1> QED BY InitSafe, <1>1, PTL DEF Spec

\* A row marked in_progress always has a thread, whatever crashed before.
THEOREM NoTaskLost == Spec => []InProgressOwned
<1>1. SafetyInv => InProgressOwned
  BY DEF SafetyInv
<1> QED BY Safety, <1>1, PTL

\* A run that was asked to stop sees its Event set.
THEOREM NoInterruptLost == Spec => []InterruptReaches
<1>1. SafetyInv => InterruptReaches
  BY DEF SafetyInv
<1> QED BY Safety, <1>1, PTL

\* No agent run's result is applied twice.
THEOREM NoDoubleApply == Spec => []AppliedOnce
<1>1. SafetyInv => AppliedOnce
  BY DEF SafetyInv
<1> QED BY Safety, <1>1, PTL

\* Every variable keeps its type.
THEOREM TypeCorrect == Spec => []TypeOK
<1>1. SafetyInv => TypeOK
  BY DEF SafetyInv
<1> QED BY Safety, <1>1, PTL

\* A process that was told to stop is never running or paused again.
THEOREM StopFinal == Spec => StopIsFinal
<1>1. [Next]_vars => [alive /\ state = "stopped" /\ alive' => state' = "stopped"]_vars
  <2> SUFFICES ASSUME [Next]_vars, alive, state = "stopped", alive' PROVE state' = "stopped"
    OBVIOUS
  <2>1. CASE QuietStep
    BY <2>1 DEF QuietStep, vars, memory, HumanFlips, ClockPasses, QuotaClears, Pause, Resume,
         Reloaded, RequestStop, PollRemote, SkipPoll, TakeUp, DropRow, Interrupt, EnqueueCleanup,
         EndSweep, EndSync, AbortSync, ControlGoes, WorkGoes, NothingToClaim, LoopExits, Register,
         Clear, RetryCancelled, Escalate, HandleEvent, HandleCleanup, HandleSpec, ConsumeResult,
         ApplyResult, JobEnds, AgentEnds, ResolverEnds, GateEnds, AgentKilled,
         GovernWorker, WriteOutcome, HandOver
  <2>2. CASE \E l \in Lanes : Claim(l) \/ Finish(l) \/ Recover(l)
    BY <2>2 DEF Claim, Finish, Recover
  <2>3. CASE Crash \/ ProcessExit \/ Restart
    BY <2>3 DEF Crash, ProcessExit, Die, Restart
  <2> QED BY <2>1, <2>2, <2>3, NextCases
<1> QED BY <1>1, PTL DEF Spec, StopIsFinal
\* No agent or git job is claimed while the quota circuit is open: what the work
\* loop tested before the claim still holds when it claims.
THEOREM QuotaHolds == Spec => QuotaParksWork
<1>1. Init => QuotaInv
  BY DEF Init, QuotaInv, Rest, Lanes
<1>2. SafetyInv /\ QuotaInv /\ [Next]_vars => QuotaInv'
  BY QuotaStep
<1>3. SafetyInv /\ QuotaInv /\ [Next]_vars
        => [thr["work"].pc # "claimed" /\ thr'["work"].pc = "claimed" => ~parked]_vars
  BY QuotaStep
<1> QED BY Safety, <1>1, <1>2, <1>3, PTL DEF Spec, QuotaParksWork
=============================================================================
