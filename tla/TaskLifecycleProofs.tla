------------------------- MODULE TaskLifecycleProofs -------------------------
(***************************************************************************)
(* Tasks, for any users and number of notifications.  However requests     *)
(* overlap, a completed task has its date and a task to do has none, and   *)
(* the assignee has been told of the assignment.  While they do not        *)
(* overlap, a cancelled task has no date either, and every step that hands *)
(* a task over or completes it tells whom it concerns.                     *)
(***************************************************************************)
EXTENDS TaskLifecycle, TLAPS

Row == [row : {"new", "live", "gone"}, status : Statuses, completed : BOOLEAN,
        to : Users \cup {Nobody}, by : Users \cup {Nobody}]
Note == [n : Nat, user : Users, task : Tasks, type : {"ASSIGNED", "REASSIGNED", "COMPLETED"}, read : BOOLEAN]

\* What a request under way carries.
Request ==
  {NoRequest}
    \cup {q \in [kind : {"update"}, task : Tasks, to : Users \cup {Keep}, reassigns : BOOLEAN] :
            q.reassigns => q.to # Keep}
    \cup [kind : {"complete"}, task : Tasks, by : Users]
    \cup [kind : {"cancel", "reopen", "delete"}, task : Tasks]

Typed ==
  /\ tasks \in [Tasks -> Row]
  /\ notes \subseteq Note
  /\ sent \in Nat
  /\ asked \in [Users -> Request]
  /\ \A t \in Tasks : Live(t) => tasks[t].to \in Users /\ tasks[t].by \in Users

\* The user u has been told that t is assigned to it.
Told(t, u) == \E note \in notes : note.task = t /\ note.user = u /\ note.type # "COMPLETED"

\* An update that is not a reassignment writes an assignee that was read, and had been told.
UpdatesTold ==
  \A u \in Users :
    asked[u].kind = "update" /\ ~asked[u].reassigns /\ asked[u].to # Keep =>
      tasks[asked[u].task].row = "gone" \/ Told(asked[u].task, asked[u].to)

AssigneesTold == \A t \in Tasks : Live(t) => Told(t, tasks[t].to)

TaskInv == Typed /\ DatesKept /\ AssigneesTold /\ UpdatesTold

-----------------------------------------------------------------------------
LEMMA InitTask == Init => TaskInv
  BY UsersAssumption DEF Init, TaskInv, Typed, DatesKept, AssigneesTold, UpdatesTold, Told, Live, Row, Note,
                         Request, NoRequest, Statuses

\* A row with another status, or another assignee and delegator, is a row.
LEMMA StatusRow ==
  ASSUME NEW s \in Row, NEW status \in Statuses, NEW completed \in BOOLEAN,
         NEW t, t = WithStatus(s, status, completed)
  PROVE  /\ t \in Row /\ t.status = status /\ t.completed = completed
         /\ t.row = s.row /\ t.to = s.to /\ t.by = s.by
  BY DEF Row, WithStatus

LEMMA AssignedRow ==
  ASSUME NEW s \in Row, NEW to \in Users, NEW by \in Users, NEW t, t = Assigned(s, to, by)
  PROVE  /\ t \in Row /\ t.status = s.status /\ t.completed = s.completed
         /\ t.row = s.row /\ t.to = to /\ t.by = by
  BY DEF Row, Assigned

\* One row is written, and the others stay.
LEMMA Written ==
  ASSUME Typed, NEW t \in Tasks, NEW s \in Row, tasks' = [tasks EXCEPT ![t] = s]
  PROVE  tasks' \in [Tasks -> Row] /\ tasks'[t] = s /\ \A x \in Tasks \ {t} : tasks'[x] = tasks[x]
  BY DEF Typed

\* Whoever has been told stays told as long as the notifications of the task stay.
LEMMA ToldKept ==
  ASSUME NEW t, NEW u, Told(t, u),
         \A note \in notes : note.task = t =>
           \E copy \in notes' : copy.task = t /\ copy.user = note.user /\ copy.type = note.type
  PROVE  Told(t, u)'
  BY DEF Told

\* A notification makes its reader told, and takes nothing away.
LEMMA NotifyTells ==
  ASSUME Typed, NEW to \in Users, NEW t \in Tasks, NEW type \in {"ASSIGNED", "REASSIGNED", "COMPLETED"},
         Notify(to, t, type)
  PROVE  /\ notes' \subseteq Note /\ sent' \in Nat /\ notes \subseteq notes'
         /\ type # "COMPLETED" => Told(t, to)'
<1> DEFINE new == [n |-> sent, user |-> to, task |-> t, type |-> type, read |-> FALSE]
<1>1. new \in Note
  BY DEF Typed, Note
<1>2. notes' = notes \cup {new} /\ sent' = sent + 1
  BY DEF Notify
<1>3. new \in notes' /\ new.task = t /\ new.user = to /\ new.type = type
  BY <1>2
<1>4. type # "COMPLETED" => Told(t, to)'
  BY <1>3 DEF Told
<1>5. sent' \in Nat
  BY <1>2 DEF Typed
<1>6. notes \subseteq Note
  BY DEF Typed
<1> HIDE DEF new
<1>7. notes' \subseteq Note /\ notes \subseteq notes'
  BY <1>1, <1>2, <1>6
<1> QED
  BY <1>4, <1>5, <1>7

\* Marking notifications read changes nothing else of them.
LEMMA ReadKeeps ==
  ASSUME Typed, NEW mine \in SUBSET notes, notes' = MarkedRead(mine)
  PROVE  /\ notes' \subseteq Note
         /\ \A note \in notes :
              \E copy \in notes' : copy.task = note.task /\ copy.user = note.user /\ copy.type = note.type
<1>1. \A note \in notes : LET copy == [note EXCEPT !.read = TRUE]
                          IN  copy \in Note /\ copy.task = note.task /\ copy.user = note.user /\ copy.type = note.type
  BY DEF Typed, Note
<1>2. \A note \in mine : [note EXCEPT !.read = TRUE] \in notes'
  BY DEF MarkedRead
<1>3. \A note \in notes \ mine : note \in notes'
  BY DEF MarkedRead
<1>4. notes' \subseteq Note
  BY <1>1 DEF MarkedRead, Typed
<1>5. ASSUME NEW note \in notes
      PROVE  \E copy \in notes' : copy.task = note.task /\ copy.user = note.user /\ copy.type = note.type
  BY <1>1, <1>2, <1>3
<1> QED
  BY <1>4, <1>5

-----------------------------------------------------------------------------
\* What leaves the tasks and the requests alone and keeps the notifications.
LEMMA NotesStep ==
  ASSUME TaskInv, UNCHANGED <<tasks, sent, asked>>, notes' \subseteq Note,
         \A note \in notes :
           \E copy \in notes' : copy.task = note.task /\ copy.user = note.user /\ copy.type = note.type
  PROVE  TaskInv'
<1>1. Typed' /\ DatesKept'
  BY DEF TaskInv, Typed, DatesKept, Live
<1>2. ASSUME NEW t, NEW u, Told(t, u) PROVE Told(t, u)'
  BY <1>2 DEF Told
<1>3. AssigneesTold'
  BY <1>2 DEF TaskInv, AssigneesTold, Live
<1>4. UpdatesTold'
  BY <1>2 DEF TaskInv, UpdatesTold
<1> QED
  BY <1>1, <1>3, <1>4 DEF TaskInv

\* A request that is written down, if it is one that was checked.
LEMMA AskStep ==
  ASSUME TaskInv, NEW u \in Users, NEW q \in Request, asked' = [asked EXCEPT ![u] = q],
         UNCHANGED <<tasks, notes, sent>>,
         q.kind = "update" /\ ~q.reassigns /\ q.to # Keep =>
           tasks[q.task].row = "gone" \/ Told(q.task, q.to)
  PROVE  TaskInv'
<1>1. asked' \in [Users -> Request] /\ asked'[u] = q /\ \A v \in Users \ {u} : asked'[v] = asked[v]
  BY DEF TaskInv, Typed
<1>2. Typed' /\ DatesKept' /\ AssigneesTold'
  BY <1>1 DEF TaskInv, Typed, DatesKept, AssigneesTold, Told, Live
<1>3. UpdatesTold'
  BY <1>1 DEF TaskInv, UpdatesTold, Told
<1> QED
  BY <1>2, <1>3 DEF TaskInv

\* A request that ends with one row written.
LEMMA CommitStep ==
  ASSUME TaskInv, NEW u \in Users, NEW t \in Tasks, NEW s \in Row,
         tasks' = [tasks EXCEPT ![t] = s],
         asked' = [asked EXCEPT ![u] = NoRequest],
         notes' \subseteq Note, sent' \in Nat, notes \subseteq notes',
         s.row = "live" => s.to \in Users /\ s.by \in Users /\ Told(t, s.to)',
         (s.status = "TO_DO" => ~s.completed) /\ (s.status = "COMPLETED" => s.completed),
         tasks[t].row = "gone" => s.row = "gone"
  PROVE  TaskInv'
<1>1. tasks' \in [Tasks -> Row] /\ tasks'[t] = s /\ \A x \in Tasks \ {t} : tasks'[x] = tasks[x]
  BY Written DEF TaskInv
<1>2. asked' \in [Users -> Request] /\ asked'[u] = NoRequest /\ \A v \in Users \ {u} : asked'[v] = asked[v]
  BY DEF TaskInv, Typed, Request
<1>3. Typed'
  BY <1>1, <1>2 DEF TaskInv, Typed, Live
<1>4. DatesKept'
  BY <1>1 DEF TaskInv, DatesKept
<1>5. ASSUME NEW x, NEW v, Told(x, v) PROVE Told(x, v)'
  BY <1>5 DEF Told
<1>6. AssigneesTold'
  <2> SUFFICES ASSUME NEW x \in Tasks, Live(x)' PROVE Told(x, tasks[x].to)'
    BY DEF AssigneesTold
  <2>1. CASE x = t
    BY <1>1, <2>1 DEF Live, Told
  <2>2. CASE x # t
    <3>1. tasks'[x] = tasks[x] /\ Told(x, tasks[x].to)
      BY <1>1, <2>2 DEF TaskInv, AssigneesTold, Live
    <3> QED
      BY <3>1 DEF Told
  <2> QED
    BY <2>1, <2>2
<1>7. UpdatesTold'
  <2> SUFFICES ASSUME NEW v \in Users, asked'[v].kind = "update", ~asked'[v].reassigns, asked'[v].to # Keep
               PROVE  tasks'[asked'[v].task].row = "gone" \/ Told(asked[v].task, asked[v].to)'
    BY DEF UpdatesTold
  <2>1. v # u
    BY <1>2 DEF NoRequest
  <2>2. asked'[v] = asked[v] /\ asked[v].task \in Tasks
    BY <1>2, <2>1 DEF TaskInv, Typed, Request, NoRequest
  <2>3. tasks[asked[v].task].row = "gone" \/ Told(asked[v].task, asked[v].to)
    BY <2>2 DEF TaskInv, UpdatesTold
  <2>4. tasks[asked[v].task].row = "gone" => tasks'[asked[v].task].row = "gone"
    BY <1>1, <2>2
  <2>5. Told(asked[v].task, asked[v].to) => Told(asked[v].task, asked[v].to)'
    BY <2>2 DEF Told
  <2> QED
    BY <2>2, <2>3, <2>4, <2>5
<1> QED
  BY <1>3, <1>4, <1>6, <1>7 DEF TaskInv

-----------------------------------------------------------------------------
LEMMA CreateKeeps ==
  ASSUME TaskInv, NEW u \in Users, NEW t \in Tasks, NEW to \in Users, CreateTask(u, t, to)
  PROVE  TaskInv'
<1> DEFINE s == [row |-> "live", status |-> "TO_DO", completed |-> FALSE, to |-> to, by |-> u]
<1>1. s \in Row
  BY DEF Row, Statuses
<1>2. asked' = [asked EXCEPT ![u] = NoRequest]
  BY DEF CreateTask, TaskInv, Typed
<1>3. tasks' = [tasks EXCEPT ![t] = s] /\ Notify(to, t, "ASSIGNED") /\ tasks[t].row = "new"
  BY DEF CreateTask
<1>4. notes' \subseteq Note /\ sent' \in Nat /\ notes \subseteq notes' /\ Told(t, to)'
  BY <1>3, NotifyTells DEF TaskInv
<1> QED
  BY <1>1, <1>2, <1>3, <1>4, CommitStep

LEMMA ReadingKeeps ==
  ASSUME TaskInv, NEW u \in Users, (\E t \in Tasks : GetTask(u, t)) \/ ReadAll(u)
  PROVE  TaskInv'
<1>1. PICK mine \in SUBSET notes : notes' = MarkedRead(mine) /\ UNCHANGED <<tasks, sent, asked>>
  BY DEF GetTask, ReadAll
<1> QED
  BY <1>1, ReadKeeps, NotesStep DEF TaskInv

LEMMA AskKeeps ==
  ASSUME TaskInv, NEW u \in Users, NEW t \in Tasks,
         \/ \E to \in Users \cup {Keep}, edits \in BOOLEAN : UpdateTask(u, t, to, edits)
         \/ CompleteTask(u, t) \/ CancelTask(u, t) \/ ReopenTask(u, t) \/ DeleteTask(u, t)
  PROVE  TaskInv'
<1>1. CASE \E to \in Users \cup {Keep}, edits \in BOOLEAN : UpdateTask(u, t, to, edits)
  <2>1. PICK to \in Users \cup {Keep}, edits \in BOOLEAN : UpdateTask(u, t, to, edits)
    BY <1>1
  <2>2. PICK q : q = [kind |-> "update", task |-> t, to |-> to, reassigns |-> to # Keep /\ to # tasks[t].to]
    OBVIOUS
  <2>3. Asks(u, q)
    BY <2>1, <2>2 DEF UpdateTask
  <2>4. q \in Request
    BY <2>2 DEF Request
  <2>5. Live(t)
    BY <2>2, <2>3 DEF Asks
  <2>6. ~q.reassigns /\ q.to # Keep => Told(q.task, q.to)
    BY <2>2, <2>5 DEF TaskInv, AssigneesTold
  <2> QED
    BY <2>3, <2>4, <2>6, AskStep DEF Asks
<1>2. CASE CompleteTask(u, t)
  <2>1. PICK q : q = [kind |-> "complete", task |-> t, by |-> tasks[t].by]
    OBVIOUS
  <2>2. Asks(u, q)
    BY <1>2, <2>1 DEF CompleteTask
  <2>3. tasks[t].by \in Users
    BY <2>1, <2>2 DEF Asks, TaskInv, Typed
  <2>4. q \in Request /\ q.kind # "update"
    BY <2>1, <2>3 DEF Request
  <2> QED
    BY <2>2, <2>4, AskStep DEF Asks
<1>3. CASE CancelTask(u, t) \/ ReopenTask(u, t) \/ DeleteTask(u, t)
  <2>1. PICK q \in [kind : {"cancel", "reopen", "delete"}, task : {t}] : Asks(u, q)
    BY <1>3 DEF CancelTask, ReopenTask, DeleteTask
  <2>2. q \in Request /\ q.kind # "update"
    BY <2>1 DEF Request
  <2> QED
    BY <2>1, <2>2, AskStep DEF Asks
<1> QED
  BY <1>1, <1>2, <1>3

LEMMA RequestFields ==
  ASSUME TaskInv, NEW u \in Users, NEW q, q = asked[u]
  PROVE  /\ q.kind = "update" => q.task \in Tasks /\ q.to \in Users \cup {Keep}
                                  /\ q.reassigns \in BOOLEAN /\ (q.reassigns => q.to # Keep)
         /\ q.kind = "complete" => q.task \in Tasks /\ q.by \in Users
         /\ q.kind \in {"cancel", "reopen", "delete"} => q.task \in Tasks
  BY DEF TaskInv, Typed, Request, NoRequest

LEMMA UpdateKeeps ==
  ASSUME TaskInv, NEW u \in Users, CommitUpdate(u)
  PROVE  TaskInv'
<1>1. PICK q : q = asked[u]
  OBVIOUS
<1>2. PICK t : t = q.task
  OBVIOUS
<1>3. q.kind = "update" /\ Live(t) /\ asked' = [asked EXCEPT ![u] = NoRequest]
  BY <1>1, <1>2 DEF CommitUpdate, Commits
<1>4. t \in Tasks /\ q.to \in Users \cup {Keep} /\ q.reassigns \in BOOLEAN /\ (q.reassigns => q.to # Keep)
  BY <1>1, <1>2, <1>3, RequestFields
<1>5. tasks[t] \in Row /\ tasks[t].to \in Users /\ tasks[t].by \in Users /\ tasks[t].row = "live"
  BY <1>3, <1>4 DEF TaskInv, Typed, Live
<1>6. PICK to \in Users : to = IF q.to = Keep THEN tasks[t].to ELSE q.to
  BY <1>4, <1>5
<1>7. PICK by \in Users : by = IF q.reassigns THEN u ELSE tasks[t].by
  BY <1>5
<1>8. PICK s : s = Assigned(tasks[t], to, by)
  OBVIOUS
<1>9. tasks' = [tasks EXCEPT ![t] = s]
  BY <1>1, <1>2, <1>6, <1>7, <1>8 DEF CommitUpdate
<1>10. /\ s \in Row /\ s.status = tasks[t].status /\ s.completed = tasks[t].completed
       /\ s.row = "live" /\ s.to = to /\ s.by = by
  <2>1. PICK old \in Row : old = tasks[t]
    BY <1>5
  <2>2. s = Assigned(old, to, by) /\ old.row = "live"
    BY <1>5, <1>8, <2>1
  <2>3. to \in Users /\ by \in Users
    OBVIOUS
  <2>4. /\ Assigned(old, to, by) \in Row /\ Assigned(old, to, by).status = old.status
        /\ Assigned(old, to, by).completed = old.completed /\ Assigned(old, to, by).row = old.row
        /\ Assigned(old, to, by).to = to /\ Assigned(old, to, by).by = by
    BY <2>3, AssignedRow
  <2> QED
    BY <2>1, <2>2, <2>4
<1>11. (s.status = "TO_DO" => ~s.completed) /\ (s.status = "COMPLETED" => s.completed)
  BY <1>4, <1>10 DEF TaskInv, DatesKept
<1>12. notes' \subseteq Note /\ sent' \in Nat /\ notes \subseteq notes' /\ Told(t, to)'
  <2>1. CASE q.reassigns
    <3>1. Notify(q.to, t, "REASSIGNED") /\ q.to # Keep
      BY <1>1, <1>2, <1>4, <2>1 DEF CommitUpdate
    <3>2. Notify(to, t, "REASSIGNED")
      BY <1>6, <3>1
    <3> QED
      BY <1>4, <3>2, NotifyTells DEF TaskInv
  <2>2. CASE ~q.reassigns
    <3>1. notes' = notes /\ sent' = sent
      BY <1>1, <2>2 DEF CommitUpdate, NotifyNobody
    <3>2. Told(t, to)
      BY <1>1, <1>2, <1>3, <1>4, <1>5, <1>6, <2>2 DEF TaskInv, UpdatesTold, AssigneesTold
    <3> QED
      BY <3>1, <3>2 DEF TaskInv, Typed, Told
  <2> QED
    BY <1>4, <2>1, <2>2
<1> QED
  BY <1>3, <1>4, <1>5, <1>9, <1>10, <1>11, <1>12, CommitStep

\* The other requests that write one row: its status, or that it is gone.
LEMMA StatusKeeps ==
  ASSUME TaskInv, NEW u \in Users, CommitComplete(u) \/ CommitCancel(u) \/ CommitReopen(u)
  PROVE  TaskInv'
<1>1. PICK q : q = asked[u]
  OBVIOUS
<1>2. PICK t : t = q.task
  OBVIOUS
<1>3. q.kind \in {"complete", "cancel", "reopen"} /\ Live(t) /\ asked' = [asked EXCEPT ![u] = NoRequest]
  BY <1>1, <1>2 DEF CommitComplete, CommitCancel, CommitReopen, Commits
<1>4. t \in Tasks
  BY <1>1, <1>2, <1>3, RequestFields
<1>5. tasks[t] \in Row /\ tasks[t].to \in Users /\ tasks[t].by \in Users /\ tasks[t].row = "live"
      /\ tasks[t].completed \in BOOLEAN
  BY <1>3, <1>4 DEF TaskInv, Typed, Live, Row
<1>6. PICK status \in Statuses, completed \in BOOLEAN :
        /\ tasks' = [tasks EXCEPT ![t] = WithStatus(tasks[t], status, completed)]
        /\ status = "TO_DO" => ~completed
        /\ status = "COMPLETED" => completed
  BY <1>1, <1>2, <1>5 DEF CommitComplete, CommitCancel, CommitReopen, Statuses
<1>7. PICK s : s = WithStatus(tasks[t], status, completed)
  OBVIOUS
<1>8. /\ s \in Row /\ s.status = status /\ s.completed = completed
      /\ s.row = "live" /\ s.to = tasks[t].to /\ s.by = tasks[t].by
  BY <1>5, <1>7, StatusRow
<1>9. tasks' = [tasks EXCEPT ![t] = s]
  BY <1>6, <1>7
<1>10. PICK to \in Users : to = tasks[t].to
  BY <1>5
<1>11. Told(t, to)
  BY <1>3, <1>4, <1>10 DEF TaskInv, AssigneesTold
<1>12. notes' \subseteq Note /\ sent' \in Nat /\ notes \subseteq notes'
  <2>1. CASE CommitComplete(u)
    <3>1. Notify(q.by, t, "COMPLETED") /\ q.by \in Users
      BY <1>1, <1>2, <2>1, RequestFields DEF CommitComplete, Commits
    <3> QED
      BY <1>4, <3>1, NotifyTells DEF TaskInv
  <2>2. CASE CommitCancel(u) \/ CommitReopen(u)
    BY <2>2 DEF CommitCancel, CommitReopen, NotifyNobody, TaskInv, Typed
  <2> QED
    BY <2>1, <2>2
<1>13. Told(t, to)'
  BY <1>11, <1>12 DEF Told
<1>14. s.to = to /\ s.by \in Users
  BY <1>5, <1>8, <1>10
<1> QED
  BY <1>3, <1>4, <1>5, <1>6, <1>8, <1>9, <1>12, <1>13, <1>14, CommitStep

\* A task that is deleted takes its notifications with it, and only those.
LEMMA DeleteKeeps ==
  ASSUME TaskInv, NEW u \in Users, CommitDelete(u)
  PROVE  TaskInv'
<1>1. PICK q : q = asked[u]
  OBVIOUS
<1>2. PICK t : t = q.task
  OBVIOUS
<1>3. q.kind = "delete" /\ Live(t) /\ asked' = [asked EXCEPT ![u] = NoRequest]
  BY <1>1, <1>2 DEF CommitDelete, Commits
<1>4. t \in Tasks
  BY <1>1, <1>2, <1>3, RequestFields
<1>5. PICK s : s = [tasks[t] EXCEPT !.row = "gone"]
  OBVIOUS
<1>6. tasks[t] \in Row
  BY <1>4 DEF TaskInv, Typed
<1>7. s \in Row /\ s.row = "gone" /\ s.status = tasks[t].status /\ s.completed = tasks[t].completed
  BY <1>5, <1>6 DEF Row
<1>8. /\ tasks' = [tasks EXCEPT ![t] = s] /\ sent' = sent
      /\ notes' = {note \in notes : note.task # t}
  BY <1>1, <1>2, <1>5 DEF CommitDelete
<1>9. tasks' \in [Tasks -> Row] /\ tasks'[t] = s /\ \A x \in Tasks \ {t} : tasks'[x] = tasks[x]
  BY <1>4, <1>7, <1>8, Written DEF TaskInv
<1>10. asked' \in [Users -> Request] /\ asked'[u] = NoRequest /\ \A v \in Users \ {u} : asked'[v] = asked[v]
  BY <1>3 DEF TaskInv, Typed, Request
<1>11. Typed'
  BY <1>7, <1>8, <1>9, <1>10 DEF TaskInv, Typed, Live
<1>12. DatesKept'
  BY <1>4, <1>7, <1>9 DEF TaskInv, DatesKept
<1>13. ASSUME NEW x, x # t, NEW v, Told(x, v) PROVE Told(x, v)'
  BY <1>8, <1>13 DEF Told
<1>14. AssigneesTold'
  <2> SUFFICES ASSUME NEW x \in Tasks, Live(x)' PROVE Told(x, tasks[x].to)'
    BY DEF AssigneesTold
  <2>1. x # t
    BY <1>7, <1>9 DEF Live
  <2>2. tasks'[x] = tasks[x] /\ Told(x, tasks[x].to)
    BY <1>9, <2>1 DEF TaskInv, AssigneesTold, Live
  <2> QED
    BY <1>8, <2>1, <2>2 DEF Told
<1>15. UpdatesTold'
  <2> SUFFICES ASSUME NEW v \in Users, asked'[v].kind = "update", ~asked'[v].reassigns, asked'[v].to # Keep,
                      asked'[v].task # t
               PROVE  tasks'[asked'[v].task].row = "gone" \/ Told(asked[v].task, asked[v].to)'
    BY <1>7, <1>9 DEF UpdatesTold
  <2>1. v # u
    BY <1>10 DEF NoRequest
  <2>2. asked'[v] = asked[v] /\ asked[v].task \in Tasks
    BY <1>10, <2>1 DEF TaskInv, Typed, Request, NoRequest
  <2>3. tasks[asked[v].task].row = "gone" \/ Told(asked[v].task, asked[v].to)
    BY <2>2 DEF TaskInv, UpdatesTold
  <2>4. tasks'[asked[v].task] = tasks[asked[v].task]
    BY <1>9, <2>2
  <2>5. Told(asked[v].task, asked[v].to) => Told(asked[v].task, asked[v].to)'
    BY <1>8, <2>2 DEF Told
  <2> QED
    BY <2>2, <2>3, <2>4, <2>5
<1> QED
  BY <1>11, <1>12, <1>14, <1>15 DEF TaskInv

LEMMA NextTask == ASSUME TaskInv, [Next]_vars PROVE TaskInv'
<1>1. ASSUME NEW u \in Users, Fail(u) PROVE TaskInv'
  <2>1. NoRequest \in Request /\ NoRequest.kind # "update"
    BY DEF Request, NoRequest
  <2> QED
    BY <1>1, <2>1, AskStep DEF Fail
<1>2. CASE UNCHANGED vars
  <2>1. Typed' /\ DatesKept' /\ AssigneesTold'
    BY <1>2 DEF vars, TaskInv, Typed, DatesKept, AssigneesTold, Told, Live
  <2>2. UpdatesTold'
    BY <1>2 DEF vars, TaskInv, UpdatesTold, Told
  <2> QED
    BY <2>1, <2>2 DEF TaskInv
<1>3. ASSUME NEW u \in Users, NEW t \in Tasks,
             \/ \E to \in Users \cup {Keep}, edits \in BOOLEAN : UpdateTask(u, t, to, edits)
             \/ CompleteTask(u, t) \/ CancelTask(u, t) \/ ReopenTask(u, t) \/ DeleteTask(u, t)
      PROVE  TaskInv'
  BY <1>3, AskKeeps
<1> QED
  BY <1>1, <1>2, <1>3, CreateKeeps, ReadingKeeps, UpdateKeeps, StatusKeeps, DeleteKeeps DEF Next

-----------------------------------------------------------------------------
\* The assignee of every task has been told, however updates overlap.
THEOREM AssigneeAlwaysTold == Spec => []AssigneeWasTold
<1>1. TaskInv => AssigneeWasTold
  BY DEF TaskInv, AssigneesTold, Told, AssigneeWasTold
<1> QED
  BY <1>1, InitTask, NextTask, PTL DEF Spec

-----------------------------------------------------------------------------
(* Requests one at a time. *)

\* No two requests are under way.
OneAsked == \A u, v \in Users : asked[u] # NoRequest /\ asked[v] # NoRequest => u = v

\* What a request has read of its task is still so.
Fits(q) ==
  /\ Live(q.task)
  /\ q.kind = "update" => (q.reassigns <=> q.to # Keep /\ q.to # tasks[q.task].to)
  /\ q.kind = "complete" => tasks[q.task].status = "TO_DO" /\ q.by = tasks[q.task].by
  /\ q.kind = "cancel" => tasks[q.task].status = "TO_DO"
AskedFits == \A u \in Users : asked[u] # NoRequest => Fits(asked[u])

\* The next notification has a number of its own.
Numbered == \A note \in notes : note.n < sent

\* The date is there exactly when the task is completed.
Exactly == \A t \in Tasks : tasks[t].completed <=> tasks[t].status = "COMPLETED"

AloneInv == TaskInv /\ Numbered /\ OneAsked /\ AskedFits /\ Exactly

\* Nobody has asked for anything at first.
LEMMA InitAlone == Init => AloneInv
<1>1. Init => TaskInv
  BY InitTask
<1>2. Init => Numbered /\ OneAsked /\ AskedFits /\ Exactly
  BY DEF Init, Numbered, OneAsked, AskedFits, Exactly
<1> QED
  BY <1>1, <1>2 DEF AloneInv

\* A notification is new by its number, and it is the only new one.
LEMMA Notified ==
  ASSUME AloneInv, NEW to \in Users, NEW t \in Tasks, NEW type \in {"ASSIGNED", "REASSIGNED", "COMPLETED"},
         Notify(to, t, type)
  PROVE  /\ Numbered'
         /\ \E note \in notes' \ notes : note.task = t /\ note.user = to
         /\ \A note \in notes' : note.n >= sent => note.task = t /\ note.user = to /\ note.type = type
<1>1. PICK m : m = [n |-> sent, user |-> to, task |-> t, type |-> type, read |-> FALSE]
  OBVIOUS
<1>2. sent \in Nat /\ notes \subseteq Note /\ \A note \in notes : note.n < sent
  BY DEF AloneInv, TaskInv, Typed, Numbered
<1>3. notes' = notes \cup {m} /\ sent' = sent + 1
  BY <1>1 DEF Notify
<1>4. m.n = sent /\ m.user = to /\ m.task = t /\ m.type = type
  BY <1>1
<1>5. \A note \in notes : note.n \in Nat
  BY <1>2 DEF Note
<1>6. m \notin notes
  BY <1>2, <1>4
<1>7. Numbered'
  BY <1>2, <1>3, <1>4, <1>5 DEF Numbered
<1>8. \A note \in notes' : note.n >= sent => note = m
  BY <1>2, <1>3, <1>5
<1> QED
  BY <1>3, <1>4, <1>6, <1>7, <1>8

\* Without a new notification there is nothing to tell.
LEMMA NobodyNotified ==
  ASSUME AloneInv, notes' \subseteq notes, sent' = sent
  PROVE  Numbered' /\ CompletionStep
<1>1. sent \in Nat /\ notes \subseteq Note /\ \A note \in notes : note.n < sent
  BY DEF AloneInv, TaskInv, Typed, Numbered
<1>2. \A note \in notes : note.n \in Nat
  BY <1>1 DEF Note
<1> QED
  BY <1>1, <1>2 DEF Numbered, CompletionStep

\* A step that writes no task and asks for nothing.
LEMMA TasksRest ==
  ASSUME AloneInv, UNCHANGED tasks
  PROVE  Exactly' /\ HandOver
  BY DEF AloneInv, Exactly, HandOver

\* When the request under way has ended, there is none.
LEMMA RequestEnds ==
  ASSUME AloneInv, NEW u \in Users, asked[u] # NoRequest, asked' = [asked EXCEPT ![u] = NoRequest]
  PROVE  OneAsked' /\ AskedFits'
<1>1. asked \in [Users -> Request]
  BY DEF AloneInv, TaskInv, Typed
<1>2. \A v \in Users : asked'[v] = NoRequest
  BY <1>1 DEF AloneInv, OneAsked
<1> QED
  BY <1>2 DEF OneAsked, AskedFits

\* A request that has a kind is one.
LEMMA SomeKind == ASSUME NEW q, q.kind # "none" PROVE q # NoRequest
  BY DEF NoRequest

\* One row is written, with the date that its status asks for.
LEMMA DatedRow ==
  ASSUME AloneInv, NEW t \in Tasks, NEW s \in Row, tasks' = [tasks EXCEPT ![t] = s],
         s.completed <=> s.status = "COMPLETED"
  PROVE  Exactly'
<1>1. tasks'[t] = s /\ \A x \in Tasks \ {t} : tasks'[x] = tasks[x]
  BY Written DEF AloneInv, TaskInv
<1> QED
  BY <1>1 DEF AloneInv, Exactly

\* Only who the row was given to has to be told.
LEMMA GivenTo ==
  ASSUME AloneInv, NEW t \in Tasks, NEW s \in Row, tasks' = [tasks EXCEPT ![t] = s],
         \/ s.to = tasks[t].to \/ ~Live(t)
         \/ \E note \in notes' \ notes : note.task = t /\ note.user = s.to
  PROVE  HandOver
<1>1. tasks'[t] = s /\ \A x \in Tasks \ {t} : tasks'[x] = tasks[x]
  BY Written DEF AloneInv, TaskInv
<1> QED
  BY <1>1 DEF HandOver

-----------------------------------------------------------------------------
\* What every step keeps, and does.
Kept == Numbered' /\ OneAsked' /\ AskedFits' /\ Exactly' /\ HandOver /\ CompletionStep

\* A new task is told to whom it is assigned, and is nobody's request yet.
LEMMA AloneCreate ==
  ASSUME AloneInv, NEW u \in Users, NEW t \in Tasks, NEW to \in Users, CreateTask(u, t, to)
  PROVE  Kept
<1>1. PICK s : s = [row |-> "live", status |-> "TO_DO", completed |-> FALSE, to |-> to, by |-> u]
  OBVIOUS
<1>2. s \in Row /\ s.status = "TO_DO" /\ s.completed = FALSE /\ s.to = to
  BY <1>1 DEF Row, Statuses
<1>3. tasks' = [tasks EXCEPT ![t] = s] /\ Notify(to, t, "ASSIGNED") /\ tasks[t].row = "new" /\ asked' = asked
  BY <1>1 DEF CreateTask
<1>4. ~Live(t)
  BY <1>3 DEF Live
<1>5. tasks'[t] = s /\ \A x \in Tasks \ {t} : tasks'[x] = tasks[x]
  BY <1>2, <1>3, Written DEF AloneInv, TaskInv
<1>6. OneAsked'
  BY <1>3 DEF AloneInv, OneAsked
<1>7. AskedFits'
  <2> SUFFICES ASSUME NEW v \in Users, asked[v] # NoRequest
               PROVE  Fits(asked[v])'
    BY <1>3 DEF AskedFits
  <2>1. Fits(asked[v])
    BY DEF AloneInv, AskedFits
  <2>2. asked[v].task \in Tasks \ {t}
    <3>1. asked[v] \in Request
      BY DEF AloneInv, TaskInv, Typed
    <3>2. asked[v].task \in Tasks
      BY <3>1 DEF Request
    <3>3. asked[v].task # t
      BY <1>4, <2>1 DEF Fits
    <3> QED
      BY <3>2, <3>3
  <2>3. tasks'[asked[v].task] = tasks[asked[v].task]
    BY <1>5, <2>2
  <2> QED
    BY <1>3, <2>1, <2>3 DEF Fits, Live
<1>8. Numbered' /\ \A note \in notes' : note.n >= sent => note.type = "ASSIGNED"
  BY <1>3, Notified
<1>9. CompletionStep
  BY <1>8 DEF CompletionStep
<1>10. Exactly' /\ HandOver
  BY <1>2, <1>3, <1>4, DatedRow, GivenTo
<1> QED
  BY <1>6, <1>7, <1>8, <1>9, <1>10 DEF Kept

\* Reading renumbers nothing.
LEMMA AloneRead ==
  ASSUME AloneInv, NEW u \in Users, (\E t \in Tasks : GetTask(u, t)) \/ ReadAll(u)
  PROVE  Kept
<1>1. PICK mine \in SUBSET notes : notes' = MarkedRead(mine) /\ UNCHANGED <<tasks, sent, asked>>
  BY DEF GetTask, ReadAll
<1>2. sent \in Nat /\ notes \subseteq Note /\ \A note \in notes : note.n < sent
  BY DEF AloneInv, TaskInv, Typed, Numbered
<1>3. \A note \in notes' : note.n \in Nat /\ note.n < sent
  BY <1>1, <1>2 DEF MarkedRead, Note
<1>4. Numbered' /\ CompletionStep
  BY <1>1, <1>2, <1>3 DEF Numbered, CompletionStep
<1>5. Exactly' /\ HandOver
  BY <1>1, TasksRest
<1>6. OneAsked' /\ AskedFits'
  BY <1>1 DEF AloneInv, OneAsked, AskedFits, Fits, Live
<1> QED
  BY <1>4, <1>5, <1>6 DEF Kept

\* What a request carries is what it has just read.
LEMMA AloneAsk ==
  ASSUME Overlap = FALSE, AloneInv, NEW u \in Users, NEW t \in Tasks,
         \/ \E to \in Users \cup {Keep}, edits \in BOOLEAN : UpdateTask(u, t, to, edits)
         \/ CompleteTask(u, t) \/ CancelTask(u, t) \/ ReopenTask(u, t) \/ DeleteTask(u, t)
  PROVE  Kept
<1>1. PICK q : Asks(u, q) /\ Fits(q)
  <2>1. CASE \E to \in Users \cup {Keep}, edits \in BOOLEAN : UpdateTask(u, t, to, edits)
    <3>1. PICK to \in Users \cup {Keep}, edits \in BOOLEAN : UpdateTask(u, t, to, edits)
      BY <2>1
    <3>2. PICK q : q = [kind |-> "update", task |-> t, to |-> to, reassigns |-> to # Keep /\ to # tasks[t].to]
      OBVIOUS
    <3>3. Asks(u, q)
      BY <3>1, <3>2 DEF UpdateTask
    <3>4. q.kind = "update" /\ q.task = t /\ q.to = to /\ (q.reassigns <=> to # Keep /\ to # tasks[t].to)
      BY <3>2
    <3>5. Fits(q)
      BY <3>3, <3>4 DEF Asks, Fits
    <3> QED
      BY <3>3, <3>5
  <2>2. CASE CompleteTask(u, t)
    <3>1. PICK q : q = [kind |-> "complete", task |-> t, by |-> tasks[t].by]
      OBVIOUS
    <3>2. Asks(u, q) /\ tasks[t].status = "TO_DO"
      BY <2>2, <3>1 DEF CompleteTask
    <3>3. Fits(q)
      BY <3>1, <3>2 DEF Asks, Fits
    <3> QED
      BY <3>2, <3>3
  <2>3. CASE CancelTask(u, t) \/ ReopenTask(u, t) \/ DeleteTask(u, t)
    <3>1. PICK q \in [kind : {"cancel", "reopen", "delete"}, task : {t}] :
                 Asks(u, q) /\ (q.kind = "cancel" => tasks[t].status = "TO_DO")
      BY <2>3 DEF CancelTask, ReopenTask, DeleteTask
    <3>2. q.task = t /\ q.kind \notin {"update", "complete"}
      BY <3>1
    <3>3. Fits(q)
      BY <3>1, <3>2 DEF Asks, Fits
    <3> QED
      BY <3>1, <3>3
  <2> QED
    BY <2>1, <2>2, <2>3
<1>2. (\A v \in Users : asked[v] = NoRequest) /\ asked' = [asked EXCEPT ![u] = q] /\ UNCHANGED <<tasks, notes, sent>>
  BY <1>1 DEF Asks
<1>3. asked \in [Users -> Request]
  BY DEF AloneInv, TaskInv, Typed
<1>4. asked'[u] = q /\ \A v \in Users \ {u} : asked'[v] = NoRequest
  BY <1>2, <1>3
<1>5. OneAsked'
  BY <1>4 DEF OneAsked
<1>6. Fits(q)'
  BY <1>1, <1>2 DEF Fits, Live
<1>7. AskedFits'
  <2> SUFFICES ASSUME NEW v \in Users, asked'[v] # NoRequest
               PROVE  Fits(asked[v])'
    BY DEF AskedFits
  <2>1. asked'[v] = q
    BY <1>4
  <2> QED
    BY <1>6, <2>1 DEF Fits, Live
<1> QED
  BY <1>2, <1>5, <1>7, NobodyNotified, TasksRest DEF Kept

-----------------------------------------------------------------------------
\* An update reassigns exactly when it gives the task to somebody else.
LEMMA AloneUpdate ==
  ASSUME AloneInv, NEW u \in Users, CommitUpdate(u)
  PROVE  Kept
<1>1. PICK q : q = asked[u]
  OBVIOUS
<1>2. PICK t : t = q.task
  OBVIOUS
<1>3. q.kind = "update" /\ q # NoRequest /\ Live(t) /\ asked' = [asked EXCEPT ![u] = NoRequest]
  BY <1>1, <1>2, SomeKind DEF CommitUpdate, Commits
<1>4. t \in Tasks /\ q.to \in Users \cup {Keep} /\ q.reassigns \in BOOLEAN /\ (q.reassigns => q.to # Keep)
  BY <1>1, <1>2, <1>3, RequestFields DEF AloneInv
<1>5. tasks[t] \in Row /\ tasks[t].to \in Users /\ tasks[t].by \in Users
  BY <1>3, <1>4 DEF AloneInv, TaskInv, Typed
<1>6. PICK to \in Users : to = IF q.to = Keep THEN tasks[t].to ELSE q.to
  BY <1>4, <1>5
<1>7. PICK by \in Users : by = IF q.reassigns THEN u ELSE tasks[t].by
  BY <1>5
<1>8. PICK s : s = Assigned(tasks[t], to, by)
  OBVIOUS
<1>9. tasks' = [tasks EXCEPT ![t] = s]
  BY <1>1, <1>2, <1>6, <1>7, <1>8 DEF CommitUpdate
<1>10. s \in Row /\ s.status = tasks[t].status /\ s.completed = tasks[t].completed /\ s.to = to
  <2>1. PICK old \in Row : old = tasks[t]
    BY <1>5
  <2>2. s = Assigned(old, to, by)
    BY <1>8, <2>1
  <2>3. /\ Assigned(old, to, by) \in Row /\ Assigned(old, to, by).status = old.status
        /\ Assigned(old, to, by).completed = old.completed /\ Assigned(old, to, by).row = old.row
        /\ Assigned(old, to, by).to = to /\ Assigned(old, to, by).by = by
    <3>1. to \in Users /\ by \in Users
      OBVIOUS
    <3> QED
      BY <3>1, AssignedRow
  <2> QED
    BY <2>1, <2>2, <2>3
<1>11. Exactly'
  BY <1>4, <1>9, <1>10, DatedRow DEF AloneInv, Exactly
<1>12. q.reassigns <=> q.to # Keep /\ q.to # tasks[t].to
  BY <1>1, <1>2, <1>3 DEF AloneInv, AskedFits, Fits
<1>13. Numbered' /\ CompletionStep /\ HandOver
  <2>1. CASE q.reassigns
    <3>1. Notify(to, t, "REASSIGNED")
      BY <1>1, <1>2, <1>4, <1>6, <2>1 DEF CommitUpdate
    <3>2. /\ Numbered'
          /\ \E note \in notes' \ notes : note.task = t /\ note.user = to
          /\ \A note \in notes' : note.n >= sent => note.type = "REASSIGNED"
      BY <1>4, <3>1, Notified
    <3> QED
      BY <1>4, <1>9, <1>10, <3>2, GivenTo DEF CompletionStep
  <2>2. CASE ~q.reassigns
    <3>1. notes' = notes /\ sent' = sent
      BY <1>1, <2>2 DEF CommitUpdate, NotifyNobody
    <3>2. s.to = tasks[t].to
      BY <1>6, <1>10, <1>12, <2>2
    <3> QED
      BY <1>4, <1>9, <1>10, <3>1, <3>2, GivenTo, NobodyNotified
  <2> QED
    BY <1>4, <2>1, <2>2
<1> QED
  BY <1>1, <1>3, <1>11, <1>13, RequestEnds DEF Kept

\* The delegator that is told is the one of the row.
LEMMA AloneComplete ==
  ASSUME AloneInv, NEW u \in Users, CommitComplete(u)
  PROVE  Kept
<1>1. PICK q : q = asked[u]
  OBVIOUS
<1>2. PICK t : t = q.task
  OBVIOUS
<1>3. q.kind = "complete" /\ q # NoRequest /\ asked' = [asked EXCEPT ![u] = NoRequest] /\ Notify(q.by, t, "COMPLETED")
  BY <1>1, <1>2, SomeKind DEF CommitComplete, Commits
<1>4. t \in Tasks /\ q.by \in Users
  BY <1>1, <1>2, <1>3, RequestFields DEF AloneInv
<1>5. tasks[t] \in Row
  BY <1>4 DEF AloneInv, TaskInv, Typed
<1>6. PICK s : s = WithStatus(tasks[t], "COMPLETED", TRUE)
  OBVIOUS
<1>7. s \in Row /\ s.status = "COMPLETED" /\ s.completed = TRUE /\ s.to = tasks[t].to
  <2>1. PICK old \in Row : old = tasks[t]
    BY <1>5
  <2>2. s = WithStatus(old, "COMPLETED", TRUE)
    BY <1>6, <2>1
  <2>3. LET w == WithStatus(old, "COMPLETED", TRUE)
        IN  /\ w \in Row /\ w.status = "COMPLETED" /\ w.completed = TRUE
            /\ w.row = old.row /\ w.to = old.to /\ w.by = old.by
    BY DEF WithStatus, Row, Statuses
  <2> QED
    BY <2>1, <2>2, <2>3
<1>8. tasks' = [tasks EXCEPT ![t] = s]
  BY <1>1, <1>2, <1>6 DEF CommitComplete
<1>9. Exactly' /\ HandOver
  BY <1>4, <1>7, <1>8, DatedRow, GivenTo
<1>10. /\ Numbered'
       /\ \A note \in notes' : note.n >= sent => note.task = t /\ note.user = q.by
  BY <1>3, <1>4, Notified
<1>11. q.by = tasks[t].by
  BY <1>1, <1>2, <1>3 DEF AloneInv, AskedFits, Fits
<1> QED
  BY <1>1, <1>3, <1>9, <1>10, <1>11, RequestEnds DEF Kept, CompletionStep

\* Cancelling is of a task to do, which has no date; reopening takes the date away.
LEMMA AloneStatus ==
  ASSUME AloneInv, NEW u \in Users, CommitCancel(u) \/ CommitReopen(u)
  PROVE  Kept
<1>1. PICK q : q = asked[u]
  OBVIOUS
<1>2. PICK t : t = q.task
  OBVIOUS
<1>3. q.kind \in {"cancel", "reopen"} /\ q # NoRequest /\ asked' = [asked EXCEPT ![u] = NoRequest]
      /\ notes' = notes /\ sent' = sent
  BY <1>1, SomeKind DEF CommitCancel, CommitReopen, Commits, NotifyNobody
<1>4. t \in Tasks
  BY <1>1, <1>2, <1>3, RequestFields DEF AloneInv
<1>5. tasks[t] \in Row /\ tasks[t].completed \in BOOLEAN /\ (tasks[t].completed <=> tasks[t].status = "COMPLETED")
  BY <1>4 DEF AloneInv, TaskInv, Typed, Exactly, Row
<1>6. PICK s \in Row : /\ tasks' = [tasks EXCEPT ![t] = s] /\ s.to = tasks[t].to
                       /\ s.completed <=> s.status = "COMPLETED"
  <2>1. CASE CommitCancel(u)
    <3>1. q.kind = "cancel"
      BY <1>1, <2>1 DEF CommitCancel, Commits
    <3>2. tasks[t].status = "TO_DO"
      BY <1>1, <1>2, <1>3, <3>1 DEF AloneInv, AskedFits, Fits
    <3>3. tasks[t].completed = FALSE
      BY <1>5, <3>2
    <3>4. PICK s : s = WithStatus(tasks[t], "CANCELLED", tasks[t].completed)
      OBVIOUS
    <3>5. s \in Row /\ s.status = "CANCELLED" /\ s.completed = FALSE /\ s.to = tasks[t].to
      BY <1>5, <3>3, <3>4, StatusRow DEF Statuses
    <3>6. tasks' = [tasks EXCEPT ![t] = s]
      BY <1>1, <1>2, <2>1, <3>4 DEF CommitCancel
    <3> QED
      BY <3>5, <3>6
  <2>2. CASE CommitReopen(u)
    <3>1. PICK s : s = WithStatus(tasks[t], "TO_DO", FALSE)
      OBVIOUS
    <3>2. s \in Row /\ s.status = "TO_DO" /\ s.completed = FALSE /\ s.to = tasks[t].to
      <4>1. PICK old \in Row : old = tasks[t]
        BY <1>5
      <4>2. s = WithStatus(old, "TO_DO", FALSE) /\ "TO_DO" \in Statuses /\ FALSE \in BOOLEAN
        BY <3>1, <4>1 DEF Statuses
      <4>3. LET w == WithStatus(old, "TO_DO", FALSE)
            IN  /\ w \in Row /\ w.status = "TO_DO" /\ w.completed = FALSE
                /\ w.row = old.row /\ w.to = old.to /\ w.by = old.by
        BY <4>2, StatusRow
      <4> QED
        BY <4>1, <4>2, <4>3
    <3>3. tasks' = [tasks EXCEPT ![t] = s]
      BY <1>1, <1>2, <2>2, <3>1 DEF CommitReopen
    <3> QED
      BY <3>2, <3>3
  <2> QED
    BY <2>1, <2>2
<1>7. Exactly' /\ HandOver
  BY <1>4, <1>6, DatedRow, GivenTo
<1> QED
  BY <1>1, <1>3, <1>7, NobodyNotified, RequestEnds DEF Kept

\* A deletion leaves the status and the assignee of the row.
LEMMA AloneDelete ==
  ASSUME AloneInv, NEW u \in Users, CommitDelete(u)
  PROVE  Kept
<1>1. PICK q : q = asked[u]
  OBVIOUS
<1>2. PICK t : t = q.task
  OBVIOUS
<1>3. /\ q.kind = "delete" /\ q # NoRequest /\ asked' = [asked EXCEPT ![u] = NoRequest]
      /\ notes' \subseteq notes /\ sent' = sent /\ tasks' = [tasks EXCEPT ![t].row = "gone"]
  BY <1>1, <1>2, SomeKind DEF CommitDelete, Commits
<1>4. t \in Tasks
  BY <1>1, <1>2, <1>3, RequestFields DEF AloneInv
<1>5. tasks[t] \in Row /\ (tasks[t].completed <=> tasks[t].status = "COMPLETED")
  BY <1>4 DEF AloneInv, TaskInv, Typed, Exactly
<1>6. PICK s : s = [tasks[t] EXCEPT !.row = "gone"]
  OBVIOUS
<1>7. s \in Row /\ s.status = tasks[t].status /\ s.completed = tasks[t].completed /\ s.to = tasks[t].to
  BY <1>5, <1>6 DEF Row
<1>8. tasks' = [tasks EXCEPT ![t] = s]
  BY <1>3, <1>6
<1>9. Exactly' /\ HandOver
  BY <1>4, <1>5, <1>7, <1>8, DatedRow, GivenTo
<1> QED
  BY <1>1, <1>3, <1>9, NobodyNotified, RequestEnds DEF Kept

\* A request that fails has written nothing.
LEMMA AloneFail ==
  ASSUME AloneInv, NEW u \in Users, Fail(u)
  PROVE  Kept
<1>1. asked[u] # NoRequest /\ asked' = [asked EXCEPT ![u] = NoRequest] /\ UNCHANGED <<tasks, notes, sent>>
  BY DEF Fail
<1> QED
  BY <1>1, NobodyNotified, TasksRest, RequestEnds DEF Kept

\* Nothing happens.
LEMMA AloneStutter == ASSUME AloneInv, UNCHANGED vars PROVE Kept
<1>1. OneAsked' /\ AskedFits'
  BY DEF vars, AloneInv, OneAsked, AskedFits, Fits, Live
<1> QED
  BY <1>1, NobodyNotified, TasksRest DEF Kept, vars

\* Every step keeps the invariant and tells whom it should.
LEMMA NextAlone ==
  ASSUME Overlap = FALSE, AloneInv, [Next]_vars
  PROVE  AloneInv' /\ HandOver /\ CompletionStep
<1>1. TaskInv'
  BY NextTask DEF AloneInv
<1>2. ASSUME NEW u \in Users, NEW t \in Tasks,
             \/ \E to \in Users \cup {Keep}, edits \in BOOLEAN : UpdateTask(u, t, to, edits)
             \/ CompleteTask(u, t) \/ CancelTask(u, t) \/ ReopenTask(u, t) \/ DeleteTask(u, t)
      PROVE  Kept
  BY <1>2, AloneAsk
<1>3. Kept
  BY <1>2, AloneStutter, AloneCreate, AloneRead, AloneUpdate, AloneComplete, AloneStatus, AloneDelete, AloneFail DEF Next
<1> QED
  BY <1>1, <1>3 DEF Kept, AloneInv

\* However its requests overlap, a task that is completed has its date of completion and one that
\* is to do has none; and no other has one either, unless requests overlap.
THEOREM DatesAlwaysKept == Spec => []DatedIsCompleted
<1> DEFINE Inv == TaskInv /\ (Overlap = FALSE => AloneInv)
<1>1. Init => Inv
  BY InitTask, InitAlone
<1>2. Inv /\ [Next]_vars => Inv'
  BY NextTask, NextAlone
<1>3. Inv => DatedIsCompleted
  BY FlagAssumption DEF TaskInv, AloneInv, Exactly, DatedIsCompleted
<1> QED
  BY <1>1, <1>2, <1>3, PTL DEF Spec

\* While requests do not overlap, nobody is left out: every new assignee, and the delegator of
\* every task that is completed, is told in the same transaction.
THEOREM EveryoneAlwaysTold ==
  ASSUME Overlap = FALSE
  PROVE  Spec => EveryoneTold
<1>1. AloneInv /\ [Next]_vars => AloneInv' /\ HandOver /\ CompletionStep
  BY NextAlone
<1> QED
  BY <1>1, InitAlone, PTL DEF Spec, EveryoneTold

==============================================================================
