---------------------------- MODULE TaskLifecycle ----------------------------
(***************************************************************************)
(* Tasks and their notifications: tasks.service.ts and                     *)
(* task-notifications.service.ts.                                          *)
(*                                                                         *)
(* A request reads the task and checks it before its transaction ("asked") *)
(* and the transaction updates the row by its id alone.  Every user can    *)
(* sign in and be assigned tasks; managers have tasks:manage.              *)
(***************************************************************************)
EXTENDS Naturals, FiniteSets

CONSTANTS
  Users, Managers, Tasks,
  Keep,        \* the input does not mention the field
  Nobody,      \* the assignee and delegator of a task not created yet
  Overlap,     \* whether requests are made while another one is under way
  MaxNotes     \* bound on the notifications written

ASSUME UsersAssumption == Managers \subseteq Users /\ Keep \notin Users /\ Nobody \notin Users
ASSUME FlagAssumption == Overlap \in BOOLEAN
ASSUME BoundAssumption == MaxNotes \in Nat

VARIABLES
  tasks,    \* task -> its row, and whether it is "new", "live" or "gone"
  notes,    \* the TaskNotification rows
  sent,     \* how many were ever written
  asked     \* user -> the request it has under way

vars == <<tasks, notes, sent, asked>>

NoRequest == [kind |-> "none"]
Statuses == {"TO_DO", "COMPLETED", "CANCELLED"}

\* requireTaskAccess.
MayAccess(u, task) == u \in Managers \/ task.to = u

Live(t) == tasks[t].row = "live"

\* createTaskNotification, in the transaction of a change.
Notify(u, t, type) ==
  /\ sent < MaxNotes
  /\ notes' = notes \cup {[n |-> sent, user |-> u, task |-> t, type |-> type, read |-> FALSE]}
  /\ sent' = sent + 1

NotifyNobody == UNCHANGED <<notes, sent>>

\* The updateMany of both ways to mark notifications read.
MarkedRead(mine) == (notes \ mine) \cup {[note EXCEPT !.read = TRUE] : note \in mine}

-----------------------------------------------------------------------------
Init ==
  /\ tasks = [t \in Tasks |-> [row |-> "new", status |-> "TO_DO", completed |-> FALSE, to |-> Nobody, by |-> Nobody]]
  /\ notes = {} /\ sent = 0
  /\ asked = [u \in Users |-> NoRequest]

\* (A first form, for comparison: the manager is told.)
CreateTaskTellsManager(u, t, to) ==
  /\ u \in Managers /\ asked[u] = NoRequest
  /\ tasks[t].row = "new"
  /\ tasks' = [tasks EXCEPT ![t] = [row |-> "live", status |-> "TO_DO", completed |-> FALSE, to |-> to, by |-> u]]
  /\ Notify(u, t, "ASSIGNED")
  /\ UNCHANGED asked

\* createTask.
CreateTask(u, t, to) ==
  /\ u \in Managers /\ asked[u] = NoRequest
  /\ tasks[t].row = "new"
  /\ tasks' = [tasks EXCEPT ![t] = [row |-> "live", status |-> "TO_DO", completed |-> FALSE, to |-> to, by |-> u]]
  /\ Notify(to, t, "ASSIGNED")
  /\ UNCHANGED asked

\* getTask: opening a task marks its notifications read for who opens it.
GetTask(u, t) ==
  /\ Live(t) /\ MayAccess(u, tasks[t])
  /\ notes' = MarkedRead({note \in notes : note.task = t /\ note.user = u})
  /\ UNCHANGED <<tasks, sent, asked>>

\* markAllNotificationsRead.
ReadAll(u) ==
  /\ notes' = MarkedRead({note \in notes : note.user = u})
  /\ UNCHANGED <<tasks, sent, asked>>

-----------------------------------------------------------------------------
\* A request has read the task and passed its checks.
Asks(u, request) ==
  /\ Live(request.task)
  /\ asked[u] = NoRequest
  /\ Overlap \/ \A v \in Users : asked[v] = NoRequest
  /\ asked' = [asked EXCEPT ![u] = request]
  /\ UNCHANGED <<tasks, notes, sent>>

\* (A first form, for comparison: an edit hides a reassignment.)
UpdateTaskEdited(u, t, to, edits) ==
  LET reassigns == to # Keep /\ to # tasks[t].to /\ ~edits
  IN  /\ u \in Managers
      /\ edits \/ reassigns
      /\ Asks(u, [kind |-> "update", task |-> t, to |-> to, reassigns |-> reassigns])

\* updateTask: the assignee that is submitted is written, whether it differs or not; it is a
\* reassignment when it differs from the one read. A request that changes nothing ends here.
UpdateTask(u, t, to, edits) ==
  LET reassigns == to # Keep /\ to # tasks[t].to
  IN  /\ u \in Managers
      /\ edits \/ reassigns
      /\ Asks(u, [kind |-> "update", task |-> t, to |-> to, reassigns |-> reassigns])

\* completeTask, cancelTask, reopenTask, deleteTask: their checks.
CompleteTask(u, t) ==
  /\ MayAccess(u, tasks[t]) /\ tasks[t].status = "TO_DO"
  /\ Asks(u, [kind |-> "complete", task |-> t, by |-> tasks[t].by])

CancelTask(u, t) ==
  /\ u \in Managers /\ tasks[t].status = "TO_DO"
  /\ Asks(u, [kind |-> "cancel", task |-> t])

ReopenTask(u, t) ==
  /\ u \in Managers /\ tasks[t].status # "TO_DO"
  /\ Asks(u, [kind |-> "reopen", task |-> t])

DeleteTask(u, t) ==
  /\ u \in Managers
  /\ Asks(u, [kind |-> "delete", task |-> t])

-----------------------------------------------------------------------------
\* The transaction of the request of u finds the row and ends the request.
Commits(u, kind) ==
  /\ asked[u].kind = kind
  /\ Live(asked[u].task)
  /\ asked' = [asked EXCEPT ![u] = NoRequest]

\* A task with another assignee and delegator, and with another status.
Assigned(task, to, by) == [task EXCEPT !.to = to, !.by = by]
WithStatus(task, status, completed) == [task EXCEPT !.status = status, !.completed = completed]

CommitUpdate(u) ==
  LET q == asked[u]
  IN  /\ Commits(u, "update")
      /\ tasks' = [tasks EXCEPT ![q.task] = Assigned(@, IF q.to = Keep THEN @.to ELSE q.to,
                                                     IF q.reassigns THEN u ELSE @.by)]
      /\ IF q.reassigns THEN Notify(q.to, q.task, "REASSIGNED") ELSE NotifyNobody

\* (A first form, for comparison: the date is not set.)
CommitCompleteUndated(u) ==
  LET q == asked[u]
  IN  /\ Commits(u, "complete")
      /\ tasks' = [tasks EXCEPT ![q.task].status = "COMPLETED"]
      /\ Notify(q.by, q.task, "COMPLETED")

CommitComplete(u) ==
  LET q == asked[u]
  IN  /\ Commits(u, "complete")
      /\ tasks' = [tasks EXCEPT ![q.task] = WithStatus(@, "COMPLETED", TRUE)]
      /\ Notify(q.by, q.task, "COMPLETED")

CommitCancel(u) ==
  /\ Commits(u, "cancel")
  /\ tasks' = [tasks EXCEPT ![asked[u].task] = WithStatus(@, "CANCELLED", @.completed)]
  /\ NotifyNobody

\* (A first form, for comparison: the date is kept.)
CommitReopenDated(u) ==
  /\ Commits(u, "reopen")
  /\ tasks' = [tasks EXCEPT ![asked[u].task].status = "TO_DO"]
  /\ NotifyNobody

CommitReopen(u) ==
  /\ Commits(u, "reopen")
  /\ tasks' = [tasks EXCEPT ![asked[u].task] = WithStatus(@, "TO_DO", FALSE)]
  /\ NotifyNobody

\* deleteTask; the notifications are deleted by the database.
CommitDelete(u) ==
  /\ Commits(u, "delete")
  /\ tasks' = [tasks EXCEPT ![asked[u].task].row = "gone"]
  /\ notes' = {note \in notes : note.task # asked[u].task}
  /\ UNCHANGED sent

\* A request fails, for one whose task is gone by now, and nothing of it is kept.
Fail(u) ==
  /\ asked[u] # NoRequest
  /\ asked' = [asked EXCEPT ![u] = NoRequest]
  /\ UNCHANGED <<tasks, notes, sent>>

Next ==
  \E u \in Users :
    \/ \E t \in Tasks :
         \/ \E to \in Users : CreateTask(u, t, to)
         \/ GetTask(u, t)
         \/ \E to \in Users \cup {Keep}, edits \in BOOLEAN : UpdateTask(u, t, to, edits)
         \/ CompleteTask(u, t) \/ CancelTask(u, t) \/ ReopenTask(u, t) \/ DeleteTask(u, t)
    \/ ReadAll(u)
    \/ CommitUpdate(u) \/ CommitComplete(u) \/ CommitCancel(u) \/ CommitReopen(u) \/ CommitDelete(u)
    \/ Fail(u)

Spec == Init /\ [][Next]_vars

-----------------------------------------------------------------------------
\* The types of the variables; a notification is about a task that exists.
TypeOK ==
  /\ tasks \in [Tasks -> [row : {"new", "live", "gone"}, status : Statuses, completed : BOOLEAN,
                          to : Users \cup {Nobody}, by : Managers \cup {Nobody}]]
  /\ notes \subseteq [n : 0..MaxNotes, user : Users, task : {t \in Tasks : Live(t)},
                      type : {"ASSIGNED", "REASSIGNED", "COMPLETED"}, read : BOOLEAN]
  /\ sent \in 0..MaxNotes

\* Whoever a task is assigned to has been told so: whichever of several updates commits last.
AssigneeWasTold ==
  \A t \in Tasks : Live(t) =>
    \E note \in notes : note.task = t /\ note.user = tasks[t].to /\ note.type # "COMPLETED"

\* In whatever order completions, cancellations and reopenings that overlap commit: a completed
\* task has its date of completion and a task to do has none.
DatesKept ==
  \A t \in Tasks :
    /\ tasks[t].status = "COMPLETED" => tasks[t].completed
    /\ tasks[t].status = "TO_DO" => ~tasks[t].completed

\* So it is, and no other task has a date, unless a cancellation that overlapped a completion has
\* overwritten its status and left its date (tasks.service.ts:354).
DatedIsCompleted ==
  DatesKept /\ \A t \in Tasks : tasks[t].completed => tasks[t].status = "COMPLETED" \/ Overlap

\* A task changes hands together with a notification to the new assignee.
HandOver ==
  \A t \in Tasks :
    Live(t) /\ Live(t)' /\ tasks'[t].to # tasks[t].to =>
      \E note \in notes' \ notes : note.task = t /\ note.user = tasks'[t].to

\* The completion of a task is told to the one who delegated it.
CompletionStep ==
  \A note \in notes' :
    note.n >= sent /\ note.type = "COMPLETED" => note.user = tasks[note.task].by

\* Every step that hands a task over or completes it tells whom it concerns.
EveryoneTold == [][HandOver /\ CompletionStep]_vars

=============================================================================
