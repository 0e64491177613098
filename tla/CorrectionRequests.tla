--------------------------- MODULE CorrectionRequests ---------------------------
(***************************************************************************)
(* Correction requests on released entries: corrections.service.ts, the    *)
(* replay of corrections.calculation.ts and the rows of                    *)
(* corrections.repository.ts. What becomes of a balance afterwards is      *)
(* CorrectionLedger.                                                       *)
(*                                                                         *)
(* A review is one transaction: it begins, waits for the advisory lock of  *)
(* the entry, reads everything again, and commits. The approval time of a  *)
(* correction is the default of its column, the time the transaction began.*)
(***************************************************************************)
EXTENDS Integers, FiniteSets

CONSTANTS
  Users, Requests, Entries,
  Fields,      \* the correctable fields ...
  LineFields,  \* ... and the ones of a work line
  Split,       \* the entries with several work lines
  Figures,     \* bound: the values of a field
  Original,    \* entry -> the fields as they were released
  Net,         \* calcNet: the fields of an entry -> its net salary
  Answers,     \* bound: what a reviewer may answer
  Overlap,     \* whether a review begins while another one is under way
  MaxClock,    \* bound on the transactions
  None

States == [Fields -> Figures]

\* A reviewer may change the field and the value; "timing" says that a payable balance has one,
\* "installment" that a recovery is to be spread.
Answer ==
  [decision : {"approve"}, field : Fields, value : Figures, timing : BOOLEAN, installment : BOOLEAN]
    \cup [decision : {"reject"}]

ASSUME EntryAssumption == Original \in [Entries -> States] /\ Net \in [States -> Int]
ASSUME FieldAssumption == LineFields \subseteq Fields /\ Split \subseteq Entries
ASSUME AnswerAssumption == Answers \subseteq Answer
ASSUME NoneAssumption == None \notin Users
ASSUME FlagAssumption == Overlap \in BOOLEAN
ASSUME BoundAssumption == MaxClock \in Nat

VARIABLES
  released,     \* the entries that are released
  requests,     \* request -> its row
  corrections,  \* the Correction rows with their BalanceAdjustment, numbered as they commit
  owed,         \* entry -> the sum of its balances, a recovery negative (a query)
  review,       \* user -> the review it has under way
  lock,         \* entry -> the user whose transaction holds its advisory lock
  clock         \* the database's clock

rows == <<released, requests, corrections, owed>>
vars == <<rows, review, lock, clock>>

NoReview == [phase |-> "none"]
NoRequest == [status |-> "NONE"]

-----------------------------------------------------------------------------
\* buildEffectiveFieldMap and storedFieldValue over orderCorrectionsMostRecentFirst: a field has
\* the value of its correction approved last by the clock, or the one it was released with.
Of(e, f) == {c \in corrections : c.entry = e /\ c.field = f}
Latest(set) == CHOOSE c \in set : \A d \in set : d.at <= c.at
Effective(e) ==
  [f \in Fields |-> IF Of(e, f) = {} THEN Original[e][f] ELSE Latest(Of(e, f)).value]

\* assertEntryIsReleased and assertSingleWorkLineForField.
Correctable(e, f) == e \in released /\ ~(f \in LineFields /\ e \in Split)

\* (A first form, for comparison: a rejected request is decided again.)
PendingOrRejected(r) == requests[r].status # "APPROVED"
\* The status under which a request is decided, read again under the lock and with the update.
Pending(r) == requests[r].status = "PENDING"

-----------------------------------------------------------------------------
Init ==
  /\ released = {} /\ corrections = {} /\ clock = 0
  /\ requests = [r \in Requests |-> NoRequest]
  /\ owed = [e \in Entries |-> 0]
  /\ review = [u \in Users |-> NoReview]
  /\ lock = [e \in Entries |-> None]

\* A release, which the rest of the system never takes back.
Release(e) ==
  /\ e \notin released
  /\ released' = released \cup {e}
  /\ UNCHANGED <<requests, corrections, owed, review, lock, clock>>

\* createCorrectionRequest.
CreateRequest(u, r, e, f, value) ==
  /\ requests[r] = NoRequest /\ Correctable(e, f)
  /\ requests' = [requests EXCEPT ![r] =
                    [status |-> "PENDING", entry |-> e, field |-> f, value |-> value, by |-> u]]
  /\ UNCHANGED <<released, corrections, owed, review, lock, clock>>

\* Both reviews up to the lock, of a request of somebody else, whatever its status.
Begin(u, r, answer) ==
  /\ review[u] = NoReview /\ (Overlap \/ \A v \in Users : review[v] = NoReview)
  /\ requests[r] # NoRequest /\ requests[r].by # u
  /\ clock < MaxClock
  /\ clock' = clock + 1
  /\ review' = [review EXCEPT ![u] =
                  [phase |-> "waiting", request |-> r, entry |-> requests[r].entry, answer |-> answer, at |-> clock + 1]]
  /\ UNCHANGED <<rows, lock>>

Locked(q) ==
  [phase |-> "locked", request |-> q.request, entry |-> q.entry, answer |-> q.answer, at |-> q.at,
   base |-> Effective(q.entry)]

\* (A first form, for comparison: nobody waits.)
LockShared(u) ==
  LET q == review[u]
  IN  /\ q.phase = "waiting"
      /\ lock' = [lock EXCEPT ![q.entry] = u]
      /\ review' = [review EXCEPT ![u] = Locked(q)]
      /\ UNCHANGED <<rows, clock>>

\* acquirePayrollEntryLock; the corrections are read under it, and the request is read again.
Lock(u) ==
  LET q == review[u]
  IN  /\ q.phase = "waiting" /\ lock[q.entry] = None
      /\ lock' = [lock EXCEPT ![q.entry] = u]
      /\ review' = [review EXCEPT ![u] = Locked(q)]
      /\ UNCHANGED <<rows, clock>>

\* The transaction of u is over, and its lock is free.
Ends(u) ==
  /\ review' = [review EXCEPT ![u] = NoReview]
  /\ lock' = [e \in Entries |-> IF lock[e] = u THEN None ELSE lock[e]]
  /\ UNCHANGED clock

\* calculateCorrection, and the checks of the answer against the balance it gives.
Change(base, answer) == Net[[base EXCEPT ![answer.field] = answer.value]] - Net[base]
Accepted(e, answer, delta) ==
  /\ Correctable(e, answer.field)
  /\ delta # 0
  /\ delta > 0 => answer.timing
  /\ answer.installment => delta < 0

Decided(r, status) == [requests EXCEPT ![r] = [@ EXCEPT !.status = status]]

\* approveCorrectionRequest commits.
Approve(u) ==
  LET q == review[u]
      delta == Change(q.base, q.answer)
  IN  /\ q.phase = "locked" /\ q.answer.decision = "approve"
      /\ Accepted(q.entry, q.answer, delta) /\ Pending(q.request)
      /\ corrections' = corrections \cup
           {[no |-> Cardinality(corrections), request |-> q.request, entry |-> q.entry, field |-> q.answer.field,
             old |-> q.base[q.answer.field], value |-> q.answer.value, at |-> q.at, delta |-> delta]}
      /\ owed' = [owed EXCEPT ![q.entry] = @ + delta]
      /\ requests' = Decided(q.request, "APPROVED")
      /\ Ends(u)
      /\ UNCHANGED released

\* rejectCorrectionRequest commits.
Reject(u) ==
  LET q == review[u]
  IN  /\ q.phase = "locked" /\ q.answer.decision = "reject" /\ Pending(q.request)
      /\ requests' = Decided(q.request, "REJECTED")
      /\ Ends(u)
      /\ UNCHANGED <<released, corrections, owed>>

\* The checks under the lock fail.
Refuse(u) ==
  LET q == review[u]
  IN  /\ q.phase = "locked"
      /\ \/ ~Pending(q.request)
         \/ q.answer.decision = "approve" /\ ~Accepted(q.entry, q.answer, Change(q.base, q.answer))
      /\ Ends(u)
      /\ UNCHANGED rows

\* A review times out, or its connection is lost: the transaction is rolled back.
Fail(u) ==
  /\ review[u] # NoReview
  /\ Ends(u)
  /\ UNCHANGED rows

Next ==
  \/ \E e \in Entries : Release(e)
  \/ \E u \in Users, r \in Requests :
       \/ \E e \in Entries, f \in Fields, value \in Figures : CreateRequest(u, r, e, f, value)
       \/ \E answer \in Answers : Begin(u, r, answer)
  \/ \E u \in Users : Lock(u) \/ Approve(u) \/ Reject(u) \/ Refuse(u) \/ Fail(u)

Spec == Init /\ [][Next]_vars

\* A transaction that runs goes on, and the waiters of a lock are served in order.
FairSpec ==
  Spec /\ \A u \in Users : SF_vars(Lock(u)) /\ WF_vars(Approve(u) \/ Reject(u) \/ Refuse(u))

-----------------------------------------------------------------------------
\* The types of the variables.
TypeOK ==
  /\ released \subseteq Entries /\ clock \in 0..MaxClock
  /\ requests \in [Requests -> {NoRequest} \cup
       [status : {"PENDING", "APPROVED", "REJECTED"}, entry : released, field : Fields, value : Figures, by : Users]]
  /\ corrections \subseteq [no : Nat, request : Requests, entry : released, field : Fields, old : Figures,
                            value : Figures, at : 1..clock, delta : Int]
  /\ owed \in [Entries -> Int]
  /\ lock \in [Entries -> Users \cup {None}]

\* A request is approved with exactly one correction and balance, and otherwise has none, however
\* many reviews of it are under way (markCorrectionRequestApproved and the lock).
EachOnce ==
  \A r \in Requests :
    Cardinality({c \in corrections : c.request = r}) = IF requests[r].status = "APPROVED" THEN 1 ELSE 0

\* A decision is final, and so is a correction.
DecidedStep ==
  /\ corrections \subseteq corrections'
  /\ \A r \in Requests : requests[r].status \in {"APPROVED", "REJECTED"} => requests'[r] = requests[r]

\* Two corrections of one field committed in another order than their transactions began in.
Inverted(e) ==
  \E c, d \in corrections : c.entry = e /\ d.entry = e /\ c.field = d.field /\ c.no < d.no /\ d.at < c.at

\* The balances of an entry sum up to what its corrections together change, unless reviews overlap
\* and two corrections of one field are inverted.
BalancesAddUp ==
  \A e \in Entries : IF Inverted(e) THEN Overlap ELSE owed[e] = Net[Effective(e)] - Net[Original[e]]

\* However many reviews are under way, a decided request has its one correction or none, and the
\* balances of an entry add up to its corrections.
RequestsSettle == TypeOK /\ EachOnce /\ BalancesAddUp

\* Whatever reviews overlap, a decision is final, and so is a correction.
DecisionsAreFinal == [][DecidedStep]_vars

=============================================================================
