------------------------ MODULE CorrectionRequestsProofs ------------------------
(***************************************************************************)
(* However reviews of correction requests overlap, a request is decided    *)
(* once and for good, and the balances of an entry sum up to what its      *)
(* corrections together change unless two of one field are inverted. What  *)
(* a review read under the lock of its entry stays true while it holds the *)
(* lock, and the status is read again: that is all the argument needs. If  *)
(* reviews do not overlap, the one under way has the latest time there is, *)
(* and no two corrections are inverted.                                    *)
(***************************************************************************)
EXTENDS CorrectionRequests, FiniteSetTheorems, TLAPS

Row == [status : {"PENDING", "APPROVED", "REJECTED"}, entry : released, field : Fields, value : Figures, by : Users]
Waiting == [phase : {"waiting"}, request : Requests, entry : Entries, answer : Answers, at : Nat]
Holding == [phase : {"locked"}, request : Requests, entry : Entries, answer : Answers, at : Nat, base : States]

Typed ==
  /\ TypeOK
  /\ review \in [Users -> {NoReview} \cup Waiting \cup Holding]

\* A review is of the entry of a request that is there.
ReviewOfRequest ==
  \A u \in Users : review[u] # NoReview =>
    requests[review[u].request] # NoRequest /\ review[u].entry = requests[review[u].request].entry

\* Transactions have different times, which the clock has reached.
TimesDiffer ==
  /\ \A c, d \in corrections : c.at = d.at => c = d
  /\ \A u \in Users : review[u] # NoReview => review[u].at \in 1..clock
  /\ \A u \in Users : review[u] # NoReview => \A c \in corrections : c.at # review[u].at
  /\ \A u, v \in Users : review[u] # NoReview /\ review[v] # NoReview /\ review[u].at = review[v].at => u = v

\* Corrections are numbered as they commit.
Numbered ==
  /\ IsFiniteSet(corrections)
  /\ \A c \in corrections : c.no < Cardinality(corrections)

\* Every corrected field has a correction approved last.
LatestExists ==
  \A e \in Entries, f \in Fields : Of(e, f) # {} => \E c \in Of(e, f) : \A d \in Of(e, f) : d.at <= c.at

\* A review that has read the corrections of its entry holds its lock, and they are as it read them.
LockHeld == \A u \in Users : review[u].phase = "locked" => lock[review[u].entry] = u
BaseIsCurrent == \A u \in Users : review[u].phase = "locked" => review[u].base = Effective(review[u].entry)

\* A request is approved exactly if there is a correction of it, and there are no two.
OneForEach ==
  /\ \A c \in corrections : requests[c.request].status = "APPROVED"
  /\ \A c, d \in corrections : c.request = d.request => c = d
  /\ \A r \in Requests : requests[r].status = "APPROVED" => \E c \in corrections : c.request = r

\* If reviews do not overlap, one is under way, it began after every approval, and corrections
\* are approved in the order in which they commit.
InOrder ==
  Overlap = FALSE =>
    /\ \A u, v \in Users : review[u] # NoReview /\ review[v] # NoReview => u = v
    /\ \A u \in Users : review[u] # NoReview => \A c \in corrections : c.at < review[u].at
    /\ \A c, d \in corrections : c.no < d.no => c.at < d.at

RequestsInv ==
  /\ Typed /\ ReviewOfRequest /\ TimesDiffer /\ Numbered /\ LatestExists /\ LockHeld /\ BaseIsCurrent
  /\ OneForEach /\ InOrder /\ BalancesAddUp

-----------------------------------------------------------------------------
\* What a review can be.
LEMMA Phases ==
  /\ NoReview.phase = "none"
  /\ \A q \in Waiting : q.phase = "waiting" /\ q # NoReview
  /\ \A q \in Holding : q.phase = "locked" /\ q # NoReview
  BY DEF NoReview, Waiting, Holding

\* What a request can be.
LEMMA Rows ==
  /\ NoRequest.status = "NONE"
  /\ \A q \in Row : q.status \in {"PENDING", "APPROVED", "REJECTED"} /\ q # NoRequest /\ q.entry \in released
  BY DEF NoRequest, Row

\* What the invariant says of the variables.
LEMMA TypedFacts ==
  ASSUME Typed
  PROVE  /\ released \subseteq Entries /\ clock \in 0..MaxClock /\ clock \in Nat
         /\ requests \in [Requests -> {NoRequest} \cup Row]
         /\ owed \in [Entries -> Int]
         /\ lock \in [Entries -> Users \cup {None}]
         /\ review \in [Users -> {NoReview} \cup Waiting \cup Holding]
         /\ \A c \in corrections : /\ c.no \in Nat /\ c.at \in Nat /\ c.at \in 1..clock /\ c.value \in Figures
                                   /\ c.entry \in released /\ c.request \in Requests /\ c.field \in Fields
  BY BoundAssumption DEF Typed, TypeOK, Row

\* The fields of an entry always have figures.
LEMMA EffectiveType ==
  ASSUME Typed, LatestExists, NEW e \in Entries
  PROVE  Effective(e) \in States
<1>1. SUFFICES ASSUME NEW f \in Fields
               PROVE  (IF Of(e, f) = {} THEN Original[e][f] ELSE Latest(Of(e, f)).value) \in Figures
  BY DEF Effective, States
<1>2. Original[e][f] \in Figures
  BY EntryAssumption DEF States
<1>3. CASE Of(e, f) # {}
  <2>1. \E c \in Of(e, f) : \A d \in Of(e, f) : d.at <= c.at
    BY <1>3 DEF LatestExists
  <2>2. Latest(Of(e, f)) \in Of(e, f)
    BY <2>1 DEF Latest
  <2> QED
    BY <1>3, <2>2, TypedFacts DEF Of
<1> QED
  BY <1>2, <1>3

\* A request that is decided stays a request, of the same entry, and the others stay as they are.
LEMMA DecidedRows ==
  ASSUME Typed, NEW r \in Requests, requests[r].status = "PENDING", NEW status \in {"APPROVED", "REJECTED"},
         requests' = Decided(r, status), released' = released
  PROVE  /\ requests' \in [Requests -> {NoRequest} \cup Row']
         /\ \A s \in Requests : s # r => requests'[s] = requests[s]
         /\ requests'[r].status = status /\ requests'[r].entry = requests[r].entry /\ requests'[r] # NoRequest
<1>1. PICK q : q = requests[r]
  OBVIOUS
<1>2. q \in Row
  BY <1>1, TypedFacts, Rows
<1>3. PICK p : p = [q EXCEPT !.status = status]
  OBVIOUS
<1>4. p \in Row /\ p.status = status /\ p.entry = q.entry
  BY <1>2, <1>3 DEF Row
<1>5. requests' = [requests EXCEPT ![r] = p]
  BY <1>1, <1>3 DEF Decided, Typed
<1>6. Row' = Row
  BY DEF Row
<1> QED
  BY <1>1, <1>4, <1>5, <1>6, TypedFacts, Rows

\* A step after which every request is a request, of the entry it was of.
SameEntries ==
  \A r \in Requests : requests[r] # NoRequest => requests'[r] # NoRequest /\ requests'[r].entry = requests[r].entry

\* A step that adds no correction and approves nothing, takes no lock from a review that goes on,
\* and leaves the reviews of others alone.
LEMMA QuietStep ==
  ASSUME RequestsInv, UNCHANGED <<corrections, owed, clock>>, released \subseteq released', released' \subseteq Entries,
         requests' \in [Requests -> {NoRequest} \cup Row'], SameEntries,
         \A r \in Requests : requests'[r].status = "APPROVED" <=> requests[r].status = "APPROVED",
         lock' \in [Entries -> Users \cup {None}],
         \A u \in Users : \/ review'[u] = NoReview
                          \/ review'[u] = review[u] /\ \A e \in Entries : lock[e] = u => lock'[e] = u
  PROVE  review' \in [Users -> {NoReview} \cup Waiting \cup Holding] => RequestsInv'
<1> SUFFICES ASSUME review' \in [Users -> {NoReview} \cup Waiting \cup Holding]
             PROVE  RequestsInv'
  OBVIOUS
<1> USE DEF RequestsInv
<1>1. Typed'
  <2>1. corrections' \subseteq [no : Nat, request : Requests, entry : released', field : Fields, old : Figures,
                                value : Figures, at : 1..clock', delta : Int]
    BY DEF Typed, TypeOK
  <2> QED
    BY <2>1 DEF Typed, TypeOK, Row
<1>2. ReviewOfRequest'
  <2> SUFFICES ASSUME NEW u \in Users, review'[u] # NoReview
               PROVE  requests'[review'[u].request] # NoRequest
                      /\ review'[u].entry = requests'[review'[u].request].entry
    BY DEF ReviewOfRequest
  <2>1. review'[u] = review[u] /\ review[u].request \in Requests
    BY TypedFacts DEF Waiting, Holding
  <2> QED
    BY <2>1 DEF ReviewOfRequest, SameEntries
<1>3. TimesDiffer' /\ Numbered' /\ LatestExists'
  BY DEF TimesDiffer, Numbered, LatestExists, Of
<1>4. LockHeld'
  <2> SUFFICES ASSUME NEW u \in Users, review'[u].phase = "locked"
               PROVE  lock'[review'[u].entry] = u
    BY DEF LockHeld
  <2>1. review'[u] = review[u] /\ \A e \in Entries : lock[e] = u => lock'[e] = u
    BY Phases
  <2>2. review[u] \in Holding /\ review[u].entry \in Entries
    BY <2>1, TypedFacts, Phases DEF Holding
  <2> QED
    BY <2>1, <2>2 DEF LockHeld
<1>5. \A e \in Entries : Effective(e)' = Effective(e)
  BY DEF Effective, Of
<1>6. BaseIsCurrent'
  <2> SUFFICES ASSUME NEW u \in Users, review'[u].phase = "locked"
               PROVE  review'[u].base = Effective(review[u].entry)'
    BY DEF BaseIsCurrent
  <2>1. review'[u] = review[u]
    BY Phases
  <2>2. PICK e \in Entries : e = review[u].entry
    BY <2>1, TypedFacts, Phases DEF Holding
  <2>3. review[u].base = Effective(e)
    BY <2>1, <2>2 DEF BaseIsCurrent
  <2>4. Effective(e)' = review'[u].base
    BY <1>5, <2>1, <2>3
  <2>5. e = review'[u].entry
    BY <2>1, <2>2
  <2> QED
    BY <2>4, <2>5 DEF Effective, Of
<1>7. OneForEach'
  BY TypedFacts DEF OneForEach
<1>8. InOrder'
  BY DEF InOrder
<1>9. BalancesAddUp'
  BY <1>5 DEF BalancesAddUp, Inverted
<1> QED
  BY <1>1, <1>2, <1>3, <1>4, <1>6, <1>7, <1>8, <1>9

-----------------------------------------------------------------------------
\* A review begins: its time is the latest, and if reviews do not overlap it is the only one.
LEMMA BeginKeeps ==
  ASSUME RequestsInv, NEW u \in Users, NEW r \in Requests, NEW answer \in Answers, Begin(u, r, answer)
  PROVE  RequestsInv'
<1> USE DEF RequestsInv
<1>1. PICK q : q = [phase |-> "waiting", request |-> r, entry |-> requests[r].entry, answer |-> answer,
                    at |-> clock + 1]
  OBVIOUS
<1>2. review' = [review EXCEPT ![u] = q] /\ review[u] = NoReview /\ requests[r] # NoRequest
  BY <1>1 DEF Begin
<1>3. UNCHANGED <<released, requests, corrections, owed, lock>> /\ clock' = clock + 1 /\ clock < MaxClock
  BY DEF Begin, rows
<1>4. requests[r] \in Row /\ requests[r].entry \in Entries
  BY <1>2, TypedFacts, Rows
<1>5. q \in Waiting /\ q.at = clock + 1 /\ q.request = r /\ q.entry = requests[r].entry
  BY <1>1, <1>4, TypedFacts DEF Waiting
<1>6. \A v \in Users : review'[v] = IF v = u THEN q ELSE review[v]
  BY <1>2 DEF Typed
<1>7. q # NoReview /\ q.phase # "locked" /\ clock \in Nat
  BY <1>5, Phases, TypedFacts
<1>8. Typed'
  <2>1. review' \in [Users -> {NoReview} \cup Waiting \cup Holding]
    BY <1>2, <1>5, TypedFacts
  <2>2. clock' \in 0..MaxClock /\ \A n \in 1..clock : n \in 1..clock'
    BY <1>3, TypedFacts, BoundAssumption
  <2>3. corrections' \subseteq [no : Nat, request : Requests, entry : released', field : Fields, old : Figures,
                                value : Figures, at : 1..clock', delta : Int]
    BY <1>3, <2>2 DEF Typed, TypeOK
  <2> QED
    BY <1>3, <2>1, <2>2, <2>3 DEF Typed, TypeOK
<1>9. ReviewOfRequest'
  BY <1>2, <1>3, <1>5, <1>6 DEF ReviewOfRequest
<1>10. TimesDiffer'
  <2>1. \A c \in corrections : c.at \in Nat /\ c.at <= clock
    BY TypedFacts
  <2>2. \A v \in Users : review[v] # NoReview => review[v].at \in Nat /\ review[v].at <= clock
    BY <1>7 DEF TimesDiffer
  <2>3. \A v \in Users : review'[v] # NoReview => review'[v].at \in 1..clock'
    BY <1>3, <1>5, <1>6, <1>7 DEF TimesDiffer
  <2>4. \A v \in Users : review'[v] # NoReview => \A c \in corrections' : c.at # review'[v].at
    BY <1>3, <1>5, <1>6, <1>7, <2>1 DEF TimesDiffer
  <2>5. \A v, w \in Users : review'[v] # NoReview /\ review'[w] # NoReview /\ review'[v].at = review'[w].at => v = w
    BY <1>5, <1>6, <1>7, <2>2 DEF TimesDiffer
  <2> QED
    BY <1>3, <2>3, <2>4, <2>5 DEF TimesDiffer
<1>11. Numbered' /\ LatestExists' /\ OneForEach'
  BY <1>3 DEF Numbered, LatestExists, OneForEach, Of
<1>12. LockHeld'
  BY <1>3, <1>6, <1>7 DEF LockHeld
<1>13. \A e \in Entries : Effective(e)' = Effective(e)
  BY <1>3 DEF Effective, Of
<1>14. BaseIsCurrent'
  <2> SUFFICES ASSUME NEW v \in Users, review'[v].phase = "locked"
               PROVE  review'[v].base = Effective(review[v].entry)'
    BY DEF BaseIsCurrent
  <2>1. review'[v] = review[v]
    BY <1>6, <1>7
  <2>2. review[v].base = Effective(review[v].entry)
    BY <2>1 DEF BaseIsCurrent
  <2> QED
    BY <1>3, <2>1, <2>2 DEF Effective, Of
<1>15. InOrder'
  <2> SUFFICES ASSUME Overlap = FALSE
               PROVE  /\ \A v, w \in Users : review'[v] # NoReview /\ review'[w] # NoReview => v = w
                      /\ \A v \in Users : review'[v] # NoReview => \A c \in corrections' : c.at < review'[v].at
                      /\ \A c, d \in corrections' : c.no < d.no => c.at < d.at
    BY DEF InOrder
  <2>1. \A v \in Users : review[v] = NoReview
    BY DEF Begin
  <2>2. \A c \in corrections : c.at \in Nat /\ c.at <= clock
    BY TypedFacts
  <2> QED
    BY <1>3, <1>5, <1>6, <1>7, <2>1, <2>2 DEF InOrder
<1>16. BalancesAddUp'
  BY <1>3, <1>13 DEF BalancesAddUp, Inverted
<1> QED
  BY <1>8, <1>9, <1>10, <1>11, <1>12, <1>14, <1>15, <1>16

\* A review takes the lock, and reads the corrections under it.
LEMMA LockKeeps ==
  ASSUME RequestsInv, NEW u \in Users, Lock(u)
  PROVE  RequestsInv'
<1> USE DEF RequestsInv
<1>1. PICK q : q = review[u]
  OBVIOUS
<1>2. q \in Waiting /\ q # NoReview
  BY <1>1, Phases, TypedFacts DEF Lock
<1>3. PICK e \in Entries : e = q.entry
  BY <1>2 DEF Waiting
<1>4. PICK h : h = Locked(q)
  OBVIOUS
<1>5. UNCHANGED <<released, requests, corrections, owed, clock>> /\ review' = [review EXCEPT ![u] = h]
      /\ lock[e] = None /\ lock' = [lock EXCEPT ![e] = u]
  BY <1>1, <1>3, <1>4 DEF Lock, rows
<1>6. Effective(e) \in States
  BY EffectiveType
<1>7. h \in Holding /\ h.at = q.at /\ h.entry = e /\ h.base = Effective(e) /\ h.request = q.request
  BY <1>2, <1>3, <1>4, <1>6 DEF Locked, Waiting, Holding
<1>8. \A v \in Users : review'[v] = IF v = u THEN h ELSE review[v]
  BY <1>5 DEF Typed
<1>9. h # NoReview
  BY <1>7, Phases
<1>10. Typed'
  <2>1. review' \in [Users -> {NoReview} \cup Waiting \cup Holding]
    BY <1>5, <1>7, TypedFacts
  <2>2. lock' \in [Entries -> Users \cup {None}]
    BY <1>5, TypedFacts
  <2> QED
    BY <1>5, <2>1, <2>2 DEF Typed, TypeOK
<1>11. ReviewOfRequest'
  BY <1>1, <1>2, <1>3, <1>5, <1>7, <1>8 DEF ReviewOfRequest
<1>12. TimesDiffer'
  <2>1. \A v \in Users : (review'[v] # NoReview <=> review[v] # NoReview) /\ (review[v] # NoReview => review'[v].at = review[v].at)
    BY <1>1, <1>2, <1>7, <1>8, <1>9
  <2> QED
    BY <1>5, <2>1 DEF TimesDiffer
<1>13. Numbered' /\ LatestExists' /\ OneForEach'
  BY <1>5 DEF Numbered, LatestExists, OneForEach, Of
<1>14. LockHeld'
  <2> SUFFICES ASSUME NEW v \in Users, review'[v].phase = "locked"
               PROVE  lock'[review'[v].entry] = v
    BY DEF LockHeld
  <2>1. CASE v = u
    BY <1>5, <1>7, <1>8, <2>1, TypedFacts
  <2>2. CASE v # u
    <3>1. review'[v] = review[v] /\ lock[review[v].entry] = v
      BY <1>8, <2>2 DEF LockHeld
    <3>2. review[v].entry # e
      BY <1>5, <3>1, NoneAssumption
    <3>3. review[v].entry \in Entries
      BY <3>1, TypedFacts, Phases DEF Holding
    <3> QED
      BY <1>5, <3>1, <3>2, <3>3, TypedFacts
  <2> QED
    BY <2>1, <2>2
<1>15. \A d \in Entries : Effective(d)' = Effective(d)
  BY <1>5 DEF Of, Effective
<1>16. BaseIsCurrent'
  <2> SUFFICES ASSUME NEW v \in Users, review'[v].phase = "locked"
               PROVE  review'[v].base = Effective(review[v].entry)'
    BY DEF BaseIsCurrent
  <2>1. CASE v = u
    <3>1. review'[v].base = Effective(e) /\ review'[v].entry = e
      BY <1>7, <1>8, <2>1
    <3>2. corrections' = corrections
      BY <1>5
    <3> QED
      BY <3>1, <3>2 DEF Effective, Of
  <2>2. CASE v # u
    <3>1. review'[v] = review[v] /\ review[v].base = Effective(review[v].entry)
      BY <1>8, <2>2 DEF BaseIsCurrent
    <3>2. corrections' = corrections
      BY <1>5
    <3> QED
      BY <3>1, <3>2 DEF Effective, Of
  <2> QED
    BY <2>1, <2>2
<1>17. InOrder'
  BY <1>1, <1>2, <1>5, <1>7, <1>8 DEF InOrder
<1>18. BalancesAddUp'
  BY <1>5, <1>15 DEF BalancesAddUp, Inverted
<1> QED
  BY <1>10, <1>11, <1>12, <1>13, <1>14, <1>16, <1>17, <1>18

\* An approval commits: unless it is inverted, the new correction is the last of its field, so the
\* entry has its value there and is otherwise what the review read.
LEMMA ApproveKeeps ==
  ASSUME RequestsInv, NEW u \in Users, Approve(u)
  PROVE  RequestsInv'
<1> USE DEF RequestsInv
<1>1. PICK q : q = review[u]
  OBVIOUS
<1>2. q \in Holding /\ q.answer.decision = "approve" /\ q # NoReview /\ q.phase = "locked"
  BY <1>1, Phases, TypedFacts DEF Approve
<1>3. PICK a \in Answer : a = q.answer /\ a.decision = "approve"
  BY <1>2, AnswerAssumption DEF Holding
<1>4. a.field \in Fields /\ a.value \in Figures
  BY <1>3 DEF Answer
<1>5. PICK e \in Entries : e = q.entry
  BY <1>2 DEF Holding
<1>6. PICK base \in States : base = q.base
  BY <1>2 DEF Holding
<1>7. base = Effective(e) /\ lock[e] = u
  BY <1>1, <1>2, <1>5, <1>6 DEF BaseIsCurrent, LockHeld
<1>8. PICK next : next = [base EXCEPT ![a.field] = a.value]
  OBVIOUS
<1>9. next \in States
  BY <1>4, <1>8 DEF States
<1>10. PICK delta \in Int : delta = Net[next] - Net[base]
  BY <1>9, EntryAssumption
<1>11. delta = Change(q.base, q.answer)
  BY <1>3, <1>6, <1>8, <1>10 DEF Change
<1>12. PICK n : n = [no |-> Cardinality(corrections), request |-> q.request, entry |-> e, field |-> a.field,
                     old |-> base[a.field], value |-> a.value, at |-> q.at, delta |-> delta]
  OBVIOUS
<1>13. /\ corrections' = corrections \cup {n} /\ owed' = [owed EXCEPT ![e] = @ + delta]
       /\ requests' = Decided(q.request, "APPROVED") /\ review' = [review EXCEPT ![u] = NoReview] /\ clock' = clock
       /\ released' = released /\ lock' = [d \in Entries |-> IF lock[d] = u THEN None ELSE lock[d]]
  BY <1>1, <1>3, <1>5, <1>6, <1>11, <1>12 DEF Approve, Ends
<1>14. /\ n.entry = e /\ n.field = a.field /\ n.value = a.value /\ n.at = q.at /\ n.request = q.request
       /\ n.no = Cardinality(corrections) /\ n.delta = delta /\ n.old = base[a.field]
  BY <1>12
<1>15. q.at \in 1..clock /\ q.at \in Nat /\ \A c \in corrections : c.at # q.at
  BY <1>1, <1>2 DEF TimesDiffer, Holding
<1>16. \A c \in corrections : c.at \in Nat /\ c.no \in Nat
  BY TypedFacts
<1>17. Cardinality(corrections) \in Nat /\ Cardinality(corrections') = Cardinality(corrections) + 1
       /\ IsFiniteSet(corrections') /\ n \notin corrections
  <2>1. n \notin corrections
    BY <1>14, <1>15
  <2> QED
    BY <1>13, <2>1, FS_AddElement, FS_CardinalityType DEF Numbered
<1>18. q.request \in Requests /\ requests[q.request].status = "PENDING" /\ e = requests[q.request].entry
  BY <1>1, <1>2, <1>5 DEF Holding, Approve, Pending, ReviewOfRequest
<1>19. /\ requests' \in [Requests -> {NoRequest} \cup Row']
       /\ \A s \in Requests : s # q.request => requests'[s] = requests[s]
       /\ requests'[q.request].status = "APPROVED" /\ requests'[q.request].entry = e /\ requests'[q.request] # NoRequest
  BY <1>13, <1>18, DecidedRows
<1>20. \A v \in Users : review'[v] = IF v = u THEN NoReview ELSE review[v]
  BY <1>13 DEF Typed
<1>21. e \in released
  BY <1>18, TypedFacts, Rows
<1>22. Typed'
  <2>1. n \in [no : Nat, request : Requests, entry : released, field : Fields, old : Figures, value : Figures,
               at : 1..clock, delta : Int]
    BY <1>4, <1>6, <1>12, <1>15, <1>17, <1>18, <1>21 DEF States
  <2>2. corrections' \subseteq [no : Nat, request : Requests, entry : released', field : Fields, old : Figures,
                                value : Figures, at : 1..clock', delta : Int]
    BY <1>13, <2>1 DEF Typed, TypeOK
  <2>3. owed' \in [Entries -> Int] /\ lock' \in [Entries -> Users \cup {None}]
    BY <1>13, TypedFacts
  <2>4. review' \in [Users -> {NoReview} \cup Waiting \cup Holding]
    BY <1>13, TypedFacts
  <2> QED
    BY <1>13, <1>19, <2>2, <2>3, <2>4 DEF Typed, TypeOK, Row
<1>23. ReviewOfRequest'
  <2> SUFFICES ASSUME NEW v \in Users, review'[v] # NoReview
               PROVE  requests'[review'[v].request] # NoRequest
                      /\ review'[v].entry = requests'[review'[v].request].entry
    BY DEF ReviewOfRequest
  <2>1. review'[v] = review[v] /\ review[v].request \in Requests /\ review[v] # NoReview
    BY <1>20, TypedFacts DEF Waiting, Holding
  <2> QED
    BY <1>18, <1>19, <2>1 DEF ReviewOfRequest
<1>24. TimesDiffer'
  <2>1. \A v \in Users : review'[v] # NoReview => review'[v] = review[v] /\ review[v].at # q.at
    BY <1>1, <1>2, <1>20 DEF TimesDiffer
  <2>2. \A c, d \in corrections' : c.at = d.at => c = d
    BY <1>13, <1>14, <1>15 DEF TimesDiffer
  <2>3. \A v \in Users : review'[v] # NoReview => \A c \in corrections' : c.at # review'[v].at
    BY <1>13, <1>14, <2>1 DEF TimesDiffer
  <2> QED
    BY <1>13, <2>1, <2>2, <2>3 DEF TimesDiffer
<1>25. Numbered'
  <2>1. PICK k \in Nat : k = Cardinality(corrections)
    BY <1>17
  <2>2. \A c \in corrections : c.no < k
    BY <2>1 DEF Numbered
  <2>3. \A c \in corrections' : c.no < k + 1
    BY <1>13, <1>14, <1>16, <2>1, <2>2
  <2>4. Cardinality(corrections') = k + 1 /\ IsFiniteSet(corrections')
    BY <1>17, <2>1
  <2> QED
    BY <2>3, <2>4 DEF Numbered
<1>26. Of(e, a.field)' = Of(e, a.field) \cup {n}
  BY <1>13, <1>14 DEF Of
<1>27. \A d \in Entries, f \in Fields : d # e \/ f # a.field => Of(d, f)' = Of(d, f)
  BY <1>13, <1>14 DEF Of
<1>28. LatestExists'
  <2> SUFFICES ASSUME NEW d \in Entries, NEW f \in Fields, Of(d, f)' # {}
               PROVE  \E c \in Of(d, f)' : \A b \in Of(d, f)' : b.at <= c.at
    BY DEF LatestExists
  <2>1. CASE d = e /\ f = a.field /\ Of(e, a.field) # {}
    <3>1. PICK c \in Of(e, a.field) : \A b \in Of(e, a.field) : b.at <= c.at
      BY <1>4, <2>1 DEF LatestExists
    <3>2. c.at \in Nat /\ \A b \in Of(e, a.field) : b.at \in Nat
      BY <1>16 DEF Of
    <3>3. CASE q.at <= c.at
      BY <1>14, <1>26, <2>1, <3>1, <3>3
    <3>4. CASE c.at <= q.at
      BY <1>14, <1>15, <1>26, <2>1, <3>1, <3>2, <3>4
    <3> QED
      BY <1>15, <3>2, <3>3, <3>4
  <2>2. CASE d = e /\ f = a.field /\ Of(e, a.field) = {}
    BY <1>14, <1>15, <1>26, <2>2
  <2>3. CASE d # e \/ f # a.field
    BY <1>27, <2>3 DEF LatestExists
  <2> QED
    BY <2>1, <2>2, <2>3
<1>29. LockHeld'
  <2> SUFFICES ASSUME NEW v \in Users, review'[v].phase = "locked"
               PROVE  lock'[review'[v].entry] = v
    BY DEF LockHeld
  <2>1. v # u /\ review'[v] = review[v]
    BY <1>20, Phases
  <2>2. review[v].entry \in Entries /\ lock[review[v].entry] = v
    BY <2>1, TypedFacts, Phases DEF Holding, LockHeld
  <2> QED
    BY <1>13, <2>1, <2>2
<1>30. \A d \in Entries : d # e => Effective(d)' = Effective(d)
  BY <1>27 DEF Effective
<1>31. BaseIsCurrent'
  <2> SUFFICES ASSUME NEW v \in Users, review'[v].phase = "locked"
               PROVE  review'[v].base = Effective(review[v].entry)'
    BY DEF BaseIsCurrent
  <2>1. v # u /\ review'[v] = review[v]
    BY <1>20, Phases
  <2>2. PICK d \in Entries : d = review[v].entry
    BY <2>1, TypedFacts, Phases DEF Holding
  <2>3. review[v].base = Effective(d) /\ d # e
    BY <1>7, <2>1, <2>2 DEF BaseIsCurrent, LockHeld
  <2>4. review'[v].base = Effective(d)' /\ review'[v].entry = d
    BY <1>30, <2>1, <2>2, <2>3
  <2> QED
    BY <2>4 DEF Effective, Of
<1>32. OneForEach'
  <2>1. \A c \in corrections : c.request \in Requests /\ c.request # q.request
    BY <1>18, TypedFacts DEF OneForEach
  <2>2. \A c \in corrections' : requests'[c.request].status = "APPROVED"
    BY <1>13, <1>14, <1>19, <2>1 DEF OneForEach
  <2>3. \A c, d \in corrections' : c.request = d.request => c = d
    BY <1>13, <1>14, <2>1 DEF OneForEach
  <2>4. \A r \in Requests : requests'[r].status = "APPROVED" => \E c \in corrections' : c.request = r
    BY <1>13, <1>14, <1>19 DEF OneForEach
  <2> QED
    BY <2>2, <2>3, <2>4 DEF OneForEach
<1>33. \A c \in corrections : c.no < n.no
  BY <1>14 DEF Numbered
<1>34. InOrder'
  <2> SUFFICES ASSUME Overlap = FALSE
               PROVE  /\ \A v, w \in Users : review'[v] # NoReview /\ review'[w] # NoReview => v = w
                      /\ \A v \in Users : review'[v] # NoReview => \A c \in corrections' : c.at < review'[v].at
                      /\ \A c, d \in corrections' : c.no < d.no => c.at < d.at
    BY DEF InOrder
  <2>1. \A v \in Users : review'[v] = NoReview
    BY <1>1, <1>2, <1>20 DEF InOrder
  <2>2. \A c \in corrections : c.at < n.at
    BY <1>1, <1>2, <1>14 DEF InOrder
  <2>3. \A c, d \in corrections' : c.no < d.no => c.at < d.at
    <3> SUFFICES ASSUME NEW c \in corrections', NEW d \in corrections', c.no < d.no
                 PROVE  c.at < d.at
      OBVIOUS
    <3>1. c # n
      BY <1>13, <1>14, <1>16, <1>17, <1>33
    <3>2. c \in corrections
      BY <1>13, <3>1
    <3> QED
      BY <1>13, <2>2, <3>2 DEF InOrder
  <2> QED
    BY <2>1, <2>3
<1>35. ASSUME ~Inverted(e)'
       PROVE  Effective(e)' = next
  <2>1. \A c \in Of(e, a.field) : c.at < n.at /\ c.at \in Nat
    <3> SUFFICES ASSUME NEW c \in Of(e, a.field)
                 PROVE  c.at < n.at /\ c.at \in Nat
      OBVIOUS
    <3>1. c \in corrections /\ c.entry = e /\ c.field = n.field
      BY <1>14 DEF Of
    <3>2. ~(n.at < c.at)
      BY <1>13, <1>14, <1>33, <1>35, <3>1 DEF Inverted
    <3> QED
      BY <1>14, <1>15, <1>16, <3>1, <3>2
  <2>2. \A d \in Of(e, a.field)' : d.at <= n.at
    BY <1>14, <1>15, <1>26, <2>1
  <2>3. Latest(Of(e, a.field)') = n
    <3>1. n \in Of(e, a.field)'
      BY <1>26
    <3>2. \A c \in Of(e, a.field)' : (\A d \in Of(e, a.field)' : d.at <= c.at) => c = n
      <4> SUFFICES ASSUME NEW c \in Of(e, a.field)', \A d \in Of(e, a.field)' : d.at <= c.at, c # n
                   PROVE  FALSE
        OBVIOUS
      <4>1. c.at < n.at /\ c.at \in Nat /\ n.at \in Nat
        BY <1>14, <1>15, <1>26, <2>1
      <4>2. n.at <= c.at
        BY <3>1
      <4> QED
        BY <4>1, <4>2
    <3> QED
      BY <2>2, <3>1, <3>2 DEF Latest
  <2>4. next = [f \in Fields |-> IF f = a.field THEN a.value ELSE Effective(e)[f]]
    BY <1>7, <1>8 DEF States, Effective
  <2>5. \A f \in Fields : (IF Of(e, f)' = {} THEN Original[e][f] ELSE Latest(Of(e, f)').value)
                          = IF f = a.field THEN a.value ELSE Effective(e)[f]
    <3> SUFFICES ASSUME NEW f \in Fields
                 PROVE  (IF Of(e, f)' = {} THEN Original[e][f] ELSE Latest(Of(e, f)').value)
                        = IF f = a.field THEN a.value ELSE Effective(e)[f]
      OBVIOUS
    <3>1. CASE f = a.field
      BY <1>14, <1>26, <2>3, <3>1
    <3>2. CASE f # a.field
      BY <1>27, <3>2 DEF Effective
    <3> QED
      BY <3>1, <3>2
  <2>6. Effective(e)' = [f \in Fields |-> IF f = a.field THEN a.value ELSE Effective(e)[f]]
    BY <2>5 DEF Effective, Latest
  <2> QED
    BY <2>4, <2>6
<1>36. BalancesAddUp'
  <2> SUFFICES ASSUME NEW d \in Entries
               PROVE  IF Inverted(d)' THEN Overlap ELSE owed'[d] = Net[Effective(d)'] - Net[Original[d]]
    BY DEF BalancesAddUp, Inverted, Effective
  <2>1. CASE Inverted(d)'
    <3>1. Overlap # FALSE
      <4> SUFFICES ASSUME Overlap = FALSE
                   PROVE  FALSE
        OBVIOUS
      <4>1. PICK b, c \in corrections' : b.no < c.no /\ c.at < b.at
        BY <2>1 DEF Inverted
      <4>2. b.at < c.at
        BY <1>34, <4>1 DEF InOrder
      <4>3. b.at \in Nat /\ c.at \in Nat
        BY <1>13, <1>14, <1>15, <1>16
      <4> QED
        BY <4>1, <4>2, <4>3
    <3> QED
      BY <2>1, <3>1, FlagAssumption
  <2>2. CASE ~Inverted(d)'
    <3>1. ~Inverted(d)
      BY <1>13, <2>2 DEF Inverted
    <3>2. owed[d] \in Int /\ owed[d] = Net[Effective(d)] - Net[Original[d]] /\ owed \in [Entries -> Int]
      BY <3>1, TypedFacts DEF BalancesAddUp
    <3>3. Net[Original[d]] \in Int /\ Net[base] \in Int /\ Net[next] \in Int
      BY <1>9, EntryAssumption
    <3>4. CASE d # e
      BY <1>13, <1>30, <2>2, <3>2, <3>4
    <3>5. CASE d = e
      <4>1. owed'[d] = owed[d] + delta
        BY <1>13, <3>2, <3>5
      <4>2. Effective(d)' = next /\ Effective(d) = base
        BY <1>7, <1>35, <2>2, <3>5
      <4>3. owed'[d] = Net[Effective(d)'] - Net[Original[d]]
        BY <1>10, <3>2, <3>3, <4>1, <4>2
      <4> QED
        BY <2>2, <4>3
    <3> QED
      BY <3>4, <3>5
  <2> QED
    BY <2>1, <2>2
<1> QED
  BY <1>22, <1>23, <1>24, <1>25, <1>28, <1>29, <1>31, <1>32, <1>34, <1>36

-----------------------------------------------------------------------------
LEMMA InitHolds == ASSUME Init PROVE RequestsInv
<1>1. Typed /\ ReviewOfRequest /\ TimesDiffer /\ LatestExists
  BY BoundAssumption DEF Init, Typed, TypeOK, ReviewOfRequest, TimesDiffer, LatestExists, Of
<1>2. Numbered
  BY FS_EmptySet DEF Init, Numbered
<1>3. LockHeld /\ BaseIsCurrent
  BY Phases DEF Init, LockHeld, BaseIsCurrent
<1>4. OneForEach /\ InOrder
  BY Rows DEF Init, OneForEach, InOrder
<1>5. \A e \in Entries : Effective(e) = Original[e]
  BY EntryAssumption DEF Init, Effective, Of, States
<1>6. BalancesAddUp
  BY <1>5, EntryAssumption DEF Init, BalancesAddUp, Inverted
<1> QED
  BY <1>1, <1>2, <1>3, <1>4, <1>6 DEF RequestsInv

\* A review that ends leaves the locks of the others.
LEMMA EndsFrees ==
  ASSUME Typed, NEW u \in Users, Ends(u)
  PROVE  /\ lock' \in [Entries -> Users \cup {None}] /\ clock' = clock
         /\ review' \in [Users -> {NoReview} \cup Waiting \cup Holding]
         /\ \A v \in Users : \/ review'[v] = NoReview
                             \/ review'[v] = review[v] /\ \A e \in Entries : lock[e] = v => lock'[e] = v
<1>1. lock' \in [Entries -> Users \cup {None}] /\ review' \in [Users -> {NoReview} \cup Waiting \cup Holding]
  BY TypedFacts DEF Ends
<1>2. \A v \in Users : review'[v] = IF v = u THEN NoReview ELSE review[v]
  BY DEF Ends, Typed
<1>3. \A e \in Entries : lock[e] # u => lock'[e] = lock[e]
  BY DEF Ends
<1> QED
  BY <1>1, <1>2, <1>3 DEF Ends

LEMMA StepKeeps ==
  ASSUME RequestsInv, [Next]_vars
  PROVE  RequestsInv'
<1>1. ASSUME NEW e \in Entries, Release(e)
      PROVE  RequestsInv'
  <2>1. released \subseteq released' /\ released' \subseteq Entries
        /\ UNCHANGED <<requests, corrections, owed, review, lock, clock>>
    BY <1>1, TypedFacts DEF Release, RequestsInv
  <2>2. Row \subseteq Row'
    BY <2>1 DEF Row
  <2>3. requests' \in [Requests -> {NoRequest} \cup Row'] /\ SameEntries
    BY <2>1, <2>2, TypedFacts DEF RequestsInv, SameEntries
  <2> QED
    BY <2>1, <2>3, TypedFacts, QuietStep DEF RequestsInv
<1>2. ASSUME NEW u \in Users, NEW r \in Requests, NEW e \in Entries, NEW f \in Fields, NEW value \in Figures,
             CreateRequest(u, r, e, f, value)
      PROVE  RequestsInv'
  <2>1. PICK q : q = [status |-> "PENDING", entry |-> e, field |-> f, value |-> value, by |-> u]
    OBVIOUS
  <2>2. q \in Row /\ q.status = "PENDING"
    BY <1>2, <2>1 DEF CreateRequest, Correctable, Row
  <2>3. requests' = [requests EXCEPT ![r] = q] /\ requests[r] = NoRequest
        /\ UNCHANGED <<released, corrections, owed, review, lock, clock>>
    BY <1>2, <2>1 DEF CreateRequest
  <2>4. Row' = Row
    BY <2>3 DEF Row
  <2>5. requests' \in [Requests -> {NoRequest} \cup Row'] /\ SameEntries
        /\ \A s \in Requests : requests'[s].status = "APPROVED" <=> requests[s].status = "APPROVED"
    BY <2>2, <2>3, <2>4, TypedFacts, Rows DEF RequestsInv, SameEntries
  <2> QED
    BY <2>3, <2>5, TypedFacts, QuietStep DEF RequestsInv
<1>3. ASSUME NEW u \in Users, NEW r \in Requests, NEW answer \in Answers, Begin(u, r, answer)
      PROVE  RequestsInv'
  BY <1>3, BeginKeeps
<1>4. ASSUME NEW u \in Users, Lock(u)
      PROVE  RequestsInv'
  BY <1>4, LockKeeps
<1>5. ASSUME NEW u \in Users, Approve(u)
      PROVE  RequestsInv'
  BY <1>5, ApproveKeeps
<1>6. ASSUME NEW u \in Users, Reject(u)
      PROVE  RequestsInv'
  <2>1. review[u] \in Holding /\ review[u].request \in Requests
    BY <1>6, Phases, TypedFacts DEF Reject, RequestsInv, Holding
  <2>2. PICK r \in Requests : r = review[u].request
    BY <2>1
  <2>3. requests' = Decided(r, "REJECTED") /\ requests[r].status = "PENDING" /\ Ends(u)
        /\ UNCHANGED <<released, corrections, owed>>
    BY <1>6, <2>2 DEF Reject, Pending
  <2>4. /\ requests' \in [Requests -> {NoRequest} \cup Row']
        /\ \A s \in Requests : s # r => requests'[s] = requests[s]
        /\ requests'[r].status = "REJECTED" /\ requests'[r].entry = requests[r].entry /\ requests'[r] # NoRequest
    BY <2>3, DecidedRows DEF RequestsInv
  <2>5. SameEntries /\ \A s \in Requests : requests'[s].status = "APPROVED" <=> requests[s].status = "APPROVED"
    BY <2>3, <2>4 DEF SameEntries
  <2> QED
    BY <2>3, <2>4, <2>5, TypedFacts, EndsFrees, QuietStep DEF RequestsInv
<1>7. ASSUME NEW u \in Users, Ends(u), UNCHANGED rows
      PROVE  RequestsInv'
  <2>1. UNCHANGED <<released, requests, corrections, owed>> /\ Row' = Row
    BY <1>7 DEF rows, Row
  <2>2. requests' \in [Requests -> {NoRequest} \cup Row'] /\ SameEntries
    BY <2>1, TypedFacts DEF RequestsInv, SameEntries
  <2> QED
    BY <1>7, <2>1, <2>2, TypedFacts, EndsFrees, QuietStep DEF RequestsInv
<1>8. CASE UNCHANGED vars
  <2>1. UNCHANGED <<released, requests, corrections, owed, review, lock, clock>> /\ Row' = Row
    BY <1>8 DEF vars, rows, Row
  <2>2. requests' \in [Requests -> {NoRequest} \cup Row'] /\ SameEntries
    BY <2>1, TypedFacts DEF RequestsInv, SameEntries
  <2> QED
    BY <2>1, <2>2, TypedFacts, QuietStep DEF RequestsInv
<1> QED
  BY <1>1, <1>2, <1>3, <1>4, <1>5, <1>6, <1>7, <1>8 DEF Next, Refuse, Fail

\* One correction for each approved request, counted.
LEMMA OneForEachCounted == ASSUME OneForEach PROVE EachOnce
<1> SUFFICES ASSUME NEW r \in Requests
             PROVE  Cardinality({c \in corrections : c.request = r}) = IF requests[r].status = "APPROVED" THEN 1 ELSE 0
  BY DEF EachOnce
<1>1. CASE requests[r].status = "APPROVED"
  <2>1. PICK c \in corrections : c.request = r
    BY <1>1 DEF OneForEach
  <2>2. {d \in corrections : d.request = r} = {c}
    BY <2>1 DEF OneForEach
  <2> QED
    BY <1>1, <2>2, FS_Singleton
<1>2. CASE requests[r].status # "APPROVED"
  <2>1. {d \in corrections : d.request = r} = {}
    BY <1>2 DEF OneForEach
  <2> QED
    BY <1>2, <2>1, FS_EmptySet
<1> QED
  BY <1>1, <1>2

\* However reviews of one request overlap, only one of them decides it, and nothing decides it again.
LEMMA StepIsFinal ==
  ASSUME RequestsInv, [Next]_vars
  PROVE  [DecidedStep]_vars
<1> SUFFICES ASSUME Next
             PROVE  DecidedStep
  OBVIOUS
<1>1. ASSUME NEW e \in Entries, Release(e)
      PROVE  DecidedStep
  BY <1>1 DEF Release, DecidedStep
<1>2. ASSUME NEW u \in Users, NEW r \in Requests, NEW e \in Entries, NEW f \in Fields, NEW value \in Figures,
             CreateRequest(u, r, e, f, value)
      PROVE  DecidedStep
  <2>1. requests[r].status = "NONE" /\ \A s \in Requests : s # r => requests'[s] = requests[s]
    BY <1>2, Rows, TypedFacts DEF CreateRequest, RequestsInv
  <2> QED
    BY <1>2, <2>1 DEF CreateRequest, DecidedStep
<1>3. ASSUME NEW u \in Users, NEW r \in Requests, NEW answer \in Answers, Begin(u, r, answer)
      PROVE  DecidedStep
  BY <1>3 DEF Begin, rows, DecidedStep
<1>4. ASSUME NEW u \in Users, Lock(u)
      PROVE  DecidedStep
  BY <1>4 DEF Lock, rows, DecidedStep
<1>5. ASSUME NEW u \in Users, Approve(u) \/ Reject(u)
      PROVE  DecidedStep
  <2>1. review[u] \in Holding
    BY <1>5, Phases, TypedFacts DEF Approve, Reject, RequestsInv
  <2>2. PICK r \in Requests : r = review[u].request
    BY <2>1 DEF Holding
  <2>3. PICK status \in {"APPROVED", "REJECTED"} : requests' = Decided(r, status)
    BY <1>5, <2>2 DEF Approve, Reject
  <2>4. released' = released /\ requests[r].status = "PENDING" /\ corrections \subseteq corrections'
    BY <1>5, <2>2 DEF Approve, Reject, Pending
  <2>5. \A s \in Requests : s # r => requests'[s] = requests[s]
    BY <2>3, <2>4, DecidedRows DEF RequestsInv
  <2> QED
    BY <2>4, <2>5 DEF DecidedStep
<1>6. ASSUME NEW u \in Users, Refuse(u) \/ Fail(u)
      PROVE  DecidedStep
  BY <1>6 DEF Refuse, Fail, rows, DecidedStep
<1> QED
  BY <1>1, <1>2, <1>3, <1>4, <1>5, <1>6 DEF Next

-----------------------------------------------------------------------------
\* However reviews overlap, a request is approved with exactly one correction and otherwise has
\* none, and the balances of an entry sum up to what its corrections together change, unless two
\* of one field committed in another order than they began in, which only overlapping reviews do
\* (the lock of the entry and the baseline that calculateCorrection replays under it).
THEOREM RequestsAlwaysSettle == Spec => []RequestsSettle
<1>1. Init => RequestsInv
  BY InitHolds
<1>2. RequestsInv /\ [Next]_vars => RequestsInv'
  BY StepKeeps
<1>3. RequestsInv => RequestsSettle
  BY OneForEachCounted DEF RequestsInv, Typed, RequestsSettle
<1> QED
  BY <1>1, <1>2, <1>3, PTL DEF Spec

\* The balances of an entry always sum up to what its corrections together change, provided that
\* no two reviews overlap.
THEOREM BalancesAlwaysAddUp ==
  ASSUME Overlap = FALSE
  PROVE  Spec => [](\A e \in Entries : owed[e] = Net[Effective(e)] - Net[Original[e]])
<1> DEFINE AddUp == \A e \in Entries : owed[e] = Net[Effective(e)] - Net[Original[e]]
<1>1. RequestsSettle => AddUp
  BY DEF RequestsSettle, BalancesAddUp
<1>2. Spec => []RequestsSettle
  BY RequestsAlwaysSettle
<1> HIDE DEF AddUp
<1>3. Spec => []AddUp
  BY <1>1, <1>2, PTL
<1> QED
  BY <1>3 DEF AddUp

\* However reviews overlap, a request that is approved or rejected stays so, and a correction stays
\* (the status is read again under the lock, and with the update).
THEOREM DecisionsAlwaysFinal == Spec => DecisionsAreFinal
<1>1. Init => RequestsInv
  BY InitHolds
<1>2. RequestsInv /\ [Next]_vars => RequestsInv'
  BY StepKeeps
<1>3. RequestsInv /\ [Next]_vars => [DecidedStep]_vars
  BY StepIsFinal
<1> QED
  BY <1>1, <1>2, <1>3, PTL DEF Spec, DecisionsAreFinal
=============================================================================
