----------------------------- MODULE TaskQueue -----------------------------
(***************************************************************************)
(* The task table of db/database.py: one row per task, two lanes, and the  *)
(* operations of class Database.  Every operation is one transaction: the  *)
(* process lock and BEGIN IMMEDIATE make it a single step of the callers.  *)
(* Row ids come from AUTOINCREMENT, so an id is never given out twice; an  *)
(* UPDATE of a row that was deleted meanwhile silently changes nothing.    *)
(***************************************************************************)
EXTENDS Naturals

CONSTANTS
  Posts,      \* remote entries the platform works on
  NoPost,     \* post_id None
  MaxTasks    \* bound on the ids AUTOINCREMENT hands out

ASSUME QueueAssumption == MaxTasks \in Nat /\ NoPost \notin Posts

VARIABLES
  tasks,      \* the rows by id; an id that holds no row maps to Absent
  nextId      \* the next id AUTOINCREMENT hands out

queueVars == <<tasks, nextId>>

Ids    == 1..MaxTasks
NoTask == 0
Lanes  == {"control", "work"}

\* The actions the queue carries, by the lane that drains them.  "entry" and
\* "label" stand for the handle_* tasks that synced remote changes become, "spec"
\* for a spec change's proposal or apply script, "resolve" for recovery's agent.
EventKinds   == {"entry", "label"}
WorkKinds    == {"run", "gate", "resolve"}
Kinds        == EventKinds \cup WorkKinds \cup {"cleanup", "result", "spec"}
LaneOf(kind) == IF kind \in WorkKinds THEN "work" ELSE "control"

Priority(kind) ==
  CASE kind = "result"  -> 100
    [] kind = "cleanup" -> 85
    [] kind = "gate"    -> 60
    [] OTHER            -> 50

Statuses == {"absent", "pending", "in_progress", "success", "failed"}

\* "due" abstracts not_before: it is FALSE while not_before lies in the future.
\* "ref" is the task id a payload names (cleanup, result), NoTask otherwise.
Row == [kind: Kinds, post: Posts \cup {NoPost}, status: Statuses,
        attempts: Nat, due: BOOLEAN, ref: Ids \cup {NoTask}]

Absent == [kind |-> "entry", post |-> NoPost, status |-> "absent",
           attempts |-> 0, due |-> TRUE, ref |-> NoTask]

QueueTypeOK == tasks \in [Ids -> Row] /\ nextId \in 1..(MaxTasks + 1)

QueueInit == tasks = [t \in Ids |-> Absent] /\ nextId = 1

----------------------------------------------------------------------------
(* Reads *)

Present(t)    == tasks[t].status # "absent"
InStatus(s)   == {t \in Ids : tasks[t].status = s}
TasksFor(p)   == {t \in Ids : Present(t) /\ tasks[t].post = p}
Claimable(l)  == {t \in InStatus("pending") : tasks[t].due /\ LaneOf(tasks[t].kind) = l}

\* claim order: priority descending, then oldest first
Precedes(t, u) ==
  \/ Priority(tasks[t].kind) > Priority(tasks[u].kind)
  \/ Priority(tasks[t].kind) = Priority(tasks[u].kind) /\ t <= u

----------------------------------------------------------------------------
(* Writes *)

Enqueue(kind, post, ref) ==
  /\ nextId <= MaxTasks
  /\ tasks' = [tasks EXCEPT ![nextId] =
                 [kind |-> kind, post |-> post, status |-> "pending",
                  attempts |-> 0, due |-> TRUE, ref |-> ref]]
  /\ nextId' = nextId + 1

ClaimNext(l, t) ==
  /\ t \in Claimable(l)
  /\ \A u \in Claimable(l) : Precedes(t, u)
  /\ tasks' = [tasks EXCEPT ![t].status = "in_progress",
                            ![t].attempts = tasks[t].attempts + 1]
  /\ UNCHANGED nextId

\* Faulty variant: an upsert, which brings a deleted row back.
BugUpdate(t, status, due) ==
  /\ tasks' = [tasks EXCEPT ![t].status = status, ![t].due = due]
  /\ UNCHANGED nextId

\* UPDATE tasks SET ... WHERE task_id = t: whatever the row's status is now
Update(t, status, due) ==
  /\ tasks' = IF Present(t)
              THEN [tasks EXCEPT ![t].status = status, ![t].due = due]
              ELSE tasks
  /\ UNCHANGED nextId

\* A requeue that takes failed rows only.
BugRequeue(t, due) == IF tasks[t].status = "failed" THEN Update(t, "pending", due)
                      ELSE UNCHANGED queueVars

Complete(t, ok)  == Update(t, IF ok THEN "success" ELSE "failed", tasks[t].due)
Requeue(t, due)  == Update(t, "pending", due)
Remove(t)        == tasks' = [tasks EXCEPT ![t] = Absent] /\ UNCHANGED nextId

ResetInProgress ==
  /\ tasks' = [t \in Ids |-> IF tasks[t].status = "in_progress"
                             THEN [tasks[t] EXCEPT !.status = "pending"]
                             ELSE tasks[t]]
  /\ UNCHANGED nextId

\* the clock reaches a row's not_before
BecomeDue(t) ==
  /\ tasks[t].status = "pending" /\ ~tasks[t].due
  /\ tasks' = [tasks EXCEPT ![t].due = TRUE]
  /\ UNCHANGED nextId
=============================================================================
