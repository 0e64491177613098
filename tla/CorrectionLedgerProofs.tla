------------------------ MODULE CorrectionLedgerProofs ------------------------
(***************************************************************************)
(* Proof, for every set of employees, adjustments and transactions, every  *)
(* number of cycles and every amount, that the ledger keeps IInv, and with *)
(* it its type invariant and ReservationsCovered, that it implements       *)
(* Obligation, that its books agree (BooksAgree) and that what is recorded *)
(* is final (HistoryIsFinal).                                              *)
(*                                                                         *)
(* A step of transaction t is split in three: what it leaves of the rows   *)
(* (RowsOK), what it leaves of t (TransactionOK), and that it leaves every *)
(* other transaction what that one relies on (Undisturbed).                *)
(***************************************************************************)
EXTENDS CorrectionLedgerInvariant, CorrectionLedgerRefinement, CorrectionMath, SumProofs

-----------------------------------------------------------------------------
(* What the pure rules of CorrectionMath guarantee for every amount. *)

(* determineMaterialization never reserves more than is left unreserved, and never  *)
(* nothing: an eligible adjustment always yields a row with a positive amount.      *)
LEMMA ReservationWithinBalance ==
  ASSUME NEW adjustment, NEW activeReserved \in Nat,
         adjustment.remaining \in Nat, adjustment.installment \in Nat,
         adjustment.remaining - activeReserved > 0
  PROVE  /\ ReservationAmount(adjustment, activeReserved) \in Nat
         /\ 0 < ReservationAmount(adjustment, activeReserved)
         /\ ReservationAmount(adjustment, activeReserved)
              <= adjustment.remaining - activeReserved
  BY DEF ReservationAmount, Lesser

(* calculateSettlement leaves what is reserved: an accepted amount is positive and  *)
(* comes out of the unreserved part of the balance.                                 *)
LEMMA SettlementLeavesReservations ==
  ASSUME NEW status, NEW remaining \in Nat, NEW activeReserved \in Int, NEW proposed \in Int,
         SettlementAccepted(status, remaining, activeReserved, proposed)
  PROVE  /\ proposed \in Nat /\ proposed > 0
         /\ proposed <= remaining
         /\ proposed <= remaining - activeReserved
  BY DEF SettlementAccepted

(* computeReleaseRecoveryAdjustment: a release never consumes more than what was     *)
(* reserved, nor more than the pay there was to deduct it from; and the net it        *)
(* authorizes is the net before correction plus the part not consumed.               *)
LEMMA CappedRecoveryBounds ==
  ASSUME NEW net \in Int, NEW recovery \in Nat
  PROVE  /\ CappedRecovery(net, recovery) \in Nat
         /\ CappedRecovery(net, recovery) <= recovery
         /\ CappedRecovery(net, recovery) <= Greater(0, net + recovery)
         /\ AdjustedNet(net, recovery) = net + recovery - CappedRecovery(net, recovery)
  BY DEF CappedRecovery, AdjustedNet, Lesser, Greater

(* A shortfall is never counted twice. When a release leaves a new recovery (the     *)
(* adjusted net is negative) it consumes nothing of the reserved ones, which stay     *)
(* owed in full, and the new recovery is exactly the deficit of the entry without     *)
(* any of them.                                                                      *)
THEOREM ShortfallCountedOnce ==
  ASSUME NEW earnings \in Int, NEW payable \in Nat, NEW recovery \in Nat,
         AdjustedNet(NetSalary(earnings, payable, recovery), recovery) < 0
  PROVE  /\ CappedRecovery(NetSalary(earnings, payable, recovery), recovery) = 0
         /\ AdjustedNet(NetSalary(earnings, payable, recovery), recovery) = earnings + payable
  BY DEF NetSalary, CappedRecovery, AdjustedNet, Lesser, Greater

-----------------------------------------------------------------------------
(* Types of the records and of the operators that build them. *)

LEMMA EntryTypes ==
    /\ NoEntry \in EntryRecord
    /\ FreshEntry \in EntryRecord
    /\ NoEntries \in [Employees -> EntryRecord]
  <1>1. NoEntry \in EntryRecord
    BY EarningsAssumption DEF NoEntry, EntryRecord
  <1>2. FreshEntry \in EntryRecord
    BY <1>1 DEF FreshEntry, EntryRecord
  <1> QED
    BY <1>1, <1>2 DEF NoEntries

LEMMA EditedType ==
  ASSUME NEW row \in EntryRecord, NEW v \in Earnings
  PROVE  [row EXCEPT !.earnings = v] \in EntryRecord
  BY DEF EntryRecord

LEMMA NetType ==
  ASSUME NEW row \in EntryRecord
  PROVE  Net(row) \in Int /\ row.recovery \in Nat
<1>1. row.earnings \in Int /\ row.payable \in Nat /\ row.recovery \in Nat
  BY EarningsAssumption DEF EntryRecord
<1> QED
  BY <1>1 DEF Net, NetSalary

LEMMA LegacyNetType ==
  ASSUME NEW row \in EntryRecord
  PROVE  LegacyNet(row) \in Int /\ row.recovery \in Nat
<1>1. row.earnings \in Earnings /\ row.payable \in Nat /\ row.recovery \in Nat
  BY DEF EntryRecord
<1>2. LegacyFigure[row.earnings] \in Int
  BY <1>1, LegacyAssumption
<1> QED
  BY <1>1, <1>2 DEF LegacyNet, NetSalary

LEMMA HeldType ==
  ASSUME NEW row \in EntryRecord, NEW h \in BOOLEAN
  PROVE  [row EXCEPT !.hold = h] \in EntryRecord
  BY DEF EntryRecord

LEMMA ResolvedType ==
  ASSUME NEW row \in EntryRecord, NEW v \in Int, NEW o \in Outcomes
  PROVE  [row EXCEPT !.outcome = o, !.net = v] \in EntryRecord
  BY DEF EntryRecord

LEMMA AddAggregateType ==
  ASSUME NEW row \in EntryRecord, NEW type, NEW n \in Nat
  PROVE  AddAggregate(row, type, n) \in EntryRecord
  BY DEF AddAggregate, EntryRecord

LEMMA ReducedType ==
  ASSUME NEW row \in AdjRecord, NEW n \in Nat, n <= row.remaining
  PROVE  /\ Reduced(row, n) \in AdjRecord
         /\ Reduced(row, n).remaining = row.remaining - n
         /\ Reduced(row, n).status # "NONE"
         /\ Reduced(row, n).employee = row.employee
         /\ Reduced(row, n).amount = row.amount
         /\ Reduced(row, n).type = row.type
<1> DEFINE left == row.remaining - n
           status == StatusAfter(row.remaining - n)
<1>1. left \in Nat /\ status \in {"PENDING", "SETTLED"}
  BY DEF AdjRecord, StatusAfter
<1>2. Reduced(row, n) = [row EXCEPT !.remaining = left, !.status = status]
  BY DEF Reduced
<1> HIDE DEF left, status
<1>3. /\ Reduced(row, n) \in AdjRecord
      /\ Reduced(row, n).remaining = left
      /\ Reduced(row, n).status = status
      /\ Reduced(row, n).employee = row.employee
      /\ Reduced(row, n).amount = row.amount
      /\ Reduced(row, n).type = row.type
  BY <1>1, <1>2 DEF AdjRecord
<1> QED
  BY <1>1, <1>3 DEF left

LEMMA StatusType ==
  ASSUME NEW row \in MatRecord, NEW s \in {"CONSUMED", "CANCELLED"}
  PROVE  /\ [row EXCEPT !.status = s] \in MatRecord
         /\ [row EXCEPT !.status = s].status = s
         /\ [row EXCEPT !.status = s].amount = row.amount
  BY DEF MatRecord

LEMMA PaymentType ==
  ASSUME NEW row \in AdjRecord, NEW n \in Nat, NEW paid, paid = [row EXCEPT !.payment = n]
  PROVE  /\ paid \in AdjRecord
         /\ paid.remaining = row.remaining /\ paid.status = row.status
         /\ paid.employee = row.employee /\ paid.amount = row.amount
  BY DEF AdjRecord

LEMMA IdleType == Idle \in TxnRecord
  BY EntryTypes, LastCycleAssumption DEF Idle, TxnRecord, NoPlan, PlanRecord, Cycles

(* A request that goes on to another statement: what TransactionOK reads of it. *)
Moved(old, r, pc, todo, plan) ==
    /\ r \in TxnRecord
    /\ r.kind = old.kind /\ r.cycle = old.cycle
    /\ r.pc = pc /\ r.todo = todo /\ r.plan = plan

Points == {"idle", "cycle", "adjustment", "write", "skip", "rejected", "entries", "consume",
           "count", "archive", "carry"}

LEMMA GoesOn ==
  ASSUME NEW r \in TxnRecord, NEW pc \in Points
  PROVE  Moved(r, [r EXCEPT !.pc = pc], pc, r.todo, r.plan)
  BY DEF Moved, TxnRecord, Points

LEMMA Reads ==
  ASSUME NEW r \in TxnRecord, NEW pc \in Points, NEW read \in [Employees -> EntryRecord]
  PROVE  Moved(r, [r EXCEPT !.pc = pc, !.read = read], pc, r.todo, r.plan)
  BY DEF Moved, TxnRecord, Points

LEMMA Selects ==
  ASSUME NEW r \in TxnRecord, NEW pc \in Points, NEW chosen \in SUBSET Employees,
         NEW read \in [Employees -> EntryRecord]
  PROVE  Moved(r, [r EXCEPT !.pc = pc, !.chosen = chosen, !.read = read], pc, r.todo, r.plan)
  BY DEF Moved, TxnRecord, Points

LEMMA Lists ==
  ASSUME NEW r \in TxnRecord, NEW pc \in Points, NEW read \in [Employees -> EntryRecord],
         NEW todo \in SUBSET Adjustments
  PROVE  Moved(r, [r EXCEPT !.pc = pc, !.read = read, !.todo = todo], pc, todo, r.plan)
  BY DEF Moved, TxnRecord, Points

LEMMA Forgets ==
  ASSUME NEW r \in TxnRecord, NEW pc \in Points, NEW plan \in [Adjustments -> PlanRecord]
  PROVE  Moved(r, [r EXCEPT !.pc = pc, !.plan = plan], pc, r.todo, plan)
  BY DEF Moved, TxnRecord, Points

LEMMA Decides ==
  ASSUME NEW r \in TxnRecord, NEW pc \in Points, NEW todo \in SUBSET Adjustments,
         NEW plan \in [Adjustments -> PlanRecord]
  PROVE  Moved(r, [r EXCEPT !.pc = pc, !.todo = todo, !.plan = plan], pc, todo, plan)
  BY DEF Moved, TxnRecord, Points

LEMMA Sweeps ==
  ASSUME NEW r \in TxnRecord, NEW pc \in Points, NEW todo \in SUBSET Adjustments,
         NEW capacity \in [Employees -> Nat]
  PROVE  Moved(r, [r EXCEPT !.pc = pc, !.todo = todo, !.capacity = capacity], pc, todo, r.plan)
  BY DEF Moved, TxnRecord, Points

LEMMA Consumes ==
  ASSUME NEW r \in TxnRecord, NEW pc \in Points, NEW todo \in SUBSET Adjustments,
         NEW plan \in [Adjustments -> PlanRecord], NEW capacity \in [Employees -> Nat]
  PROVE  Moved(r, [r EXCEPT !.pc = pc, !.todo = todo, !.plan = plan, !.capacity = capacity], pc, todo, plan)
  BY DEF Moved, TxnRecord, Points

LEMMA Carries ==
  ASSUME NEW r \in TxnRecord, NEW todo \in SUBSET Adjustments,
         NEW plan \in [Adjustments -> PlanRecord],
         NEW read \in [Employees -> EntryRecord]
  PROVE  Moved(r, [r EXCEPT !.todo = todo, !.plan = plan, !.read = read], r.pc, todo, plan)
  BY DEF Moved, TxnRecord, Points

-----------------------------------------------------------------------------
(* How a step is composed. *)

RowTypes ==
    /\ cycleStatus \in [Cycles -> {"NONE", "DRAFT", "RELEASED", "ARCHIVED"}]
    /\ entry \in [Cycles -> [Employees -> EntryRecord]]
    /\ departed \in SUBSET Employees
    /\ adj \in [Adjustments -> AdjRecord]
    /\ mat \in [Adjustments -> [Cycles -> MatRecord]]
    /\ settlement \in [Adjustments -> [Cycles -> Nat]]
    /\ reserved \in [Adjustments -> Nat]

LockTypes ==
    /\ cycleLock \in [Cycles -> Txns \cup {None}]
    /\ adjLock \in [Adjustments -> Txns \cup {None}]

LEMMA TypeOKParts == TypeOK <=> RowTypes /\ LockTypes /\ txn \in [Txns -> TxnRecord]
  BY DEF TypeOK, RowTypes, LockTypes

(* What a step of somebody else leaves to transaction u. *)
Undisturbed(u) ==
    /\ txn'[u] = txn[u]
    /\ Holds(u)' = Holds(u)
    /\ \A c \in Cycles : cycleLock[c] = u =>
          /\ cycleLock'[c] = u
          /\ cycleStatus[c] \in {"DRAFT", "RELEASED"} => cycleStatus'[c] = cycleStatus[c]
    /\ \A a \in Adjustments : adj[a].status # "NONE" => adj'[a].status # "NONE"
    /\ \A a \in Holds(u) :
          /\ adj'[a].remaining = adj[a].remaining
          /\ reserved'[a] = reserved[a]
          /\ \A c \in Cycles : mat'[a][c].amount = mat[a][c].amount

LEMMA UndisturbedOK ==
  ASSUME TypeOK, NEW u \in Txns, TransactionOK(u), Undisturbed(u)
  PROVE  TransactionOK(u)'
<1> DEFINE r == txn[u]
<1>0. /\ r.cycle \in Cycles /\ r.todo \subseteq Adjustments
      /\ txn'[u] = r /\ Holds(u)' = Holds(u) /\ Holds(u) \subseteq Adjustments
  BY DEF TypeOK, TxnRecord, Undisturbed, Holds
<1>1. LocksHeld(u)'
  BY <1>0 DEF TransactionOK, LocksHeld, Undisturbed
<1>2. LockedCycle(u)'
  BY <1>0 DEF TransactionOK, LockedCycle, Undisturbed
<1>3. LockedFigures(u)'
  BY <1>0 DEF TransactionOK, LockedFigures, Undisturbed
<1> QED
  BY <1>1, <1>2, <1>3 DEF TransactionOK

LEMMA IdleOK ==
  ASSUME NEW t \in Txns, txn[t] = Idle, Holds(t) = {}
  PROVE  TransactionOK(t)
  BY DEF TransactionOK, LocksHeld, LockedCycle, LockedFigures, Idle

LEMMA ComposedStep ==
  ASSUME IInv, NEW t \in Txns, NEW r \in TxnRecord, Becomes(t, r),
         RowTypes', LockTypes', RowsOK', TransactionOK(t)',
         \A u \in Txns \ {t} : txn'[u] = txn[u] => Undisturbed(u)
  PROVE  IInv'
<1>1. TypeOK'
  BY DEF IInv, TypeOK, RowTypes, LockTypes, Becomes
<1>2. ASSUME NEW u \in Txns PROVE TransactionOK(u)'
  <2>1. CASE u = t
    BY <2>1
  <2>2. CASE u # t
    <3>1. txn'[u] = txn[u]
      BY <2>2 DEF IInv, TypeOK, Becomes
    <3> QED
      BY <2>2, <3>1, UndisturbedOK DEF IInv
  <2> QED
    BY <2>1, <2>2
<1> QED
  BY <1>1, <1>2 DEF IInv

(* Another transaction's locks are where they were. *)
LocksKept(u) ==
    /\ Holds(u)' = Holds(u)
    /\ \A c \in Cycles : cycleLock[c] = u => cycleLock'[c] = u

(* A step that touches no row: a statement that reads, locks or ends without writing. *)
LEMMA QuietStep ==
  ASSUME IInv, NEW t \in Txns, NEW r \in TxnRecord, Becomes(t, r), UNCHANGED rows,
         LockTypes', \A u \in Txns \ {t} : LocksKept(u), TransactionOK(t)'
  PROVE  IInv'
<1>1. RowTypes'
  BY TypeOKParts DEF IInv, RowTypes, rows
<1>2. RowsOK'
  BY DEF IInv, rows, RowsOK, OneCurrentCycle, RowsWellFounded, DraftReservationsCounted,
         ReservationsCovered
<1>3. ASSUME NEW u \in Txns \ {t}, txn'[u] = txn[u] PROVE Undisturbed(u)
  BY <1>3 DEF LocksKept, Undisturbed, rows
<1> QED
  BY <1>1, <1>2, <1>3, ComposedStep

-----------------------------------------------------------------------------
(* What taking and releasing locks does. *)

LEMMA NoLockTouched ==
  ASSUME TypeOK, NEW t \in Txns, UNCHANGED locks
  PROVE  /\ LockTypes' /\ \A u \in Txns : LocksKept(u)
         /\ Holds(t)' = Holds(t) /\ \A c \in Cycles : cycleLock'[c] = cycleLock[c]
  BY DEF TypeOK, LockTypes, LocksKept, Holds, locks

LEMMA CycleTaken ==
  ASSUME TypeOK, NEW t \in Txns, NEW c \in Cycles, TakeCycle(t, c), UNCHANGED adjLock
  PROVE  /\ LockTypes' /\ \A u \in Txns \ {t} : LocksKept(u)
         /\ Holds(t)' = Holds(t) /\ cycleLock'[c] = t
  BY NoneAssumption DEF TypeOK, TakeCycle, LockTypes, LocksKept, Holds

LEMMA AdjustmentTaken ==
  ASSUME TypeOK, NEW t \in Txns, NEW a \in Adjustments, TakeAdjustment(t, a),
         UNCHANGED cycleLock
  PROVE  /\ LockTypes' /\ \A u \in Txns \ {t} : LocksKept(u)
         /\ Holds(t)' = Holds(t) \cup {a} /\ a \notin Holds(t)
  BY NoneAssumption DEF TypeOK, TakeAdjustment, LockTypes, LocksKept, Holds

LEMMA LocksReleased ==
  ASSUME TypeOK, NEW t \in Txns, ReleaseLocks(t)
  PROVE  /\ LockTypes' /\ \A u \in Txns \ {t} : LocksKept(u)
         /\ Holds(t)' = {}
  BY NoneAssumption DEF TypeOK, ReleaseLocks, LockTypes, LocksKept, Holds

LEMMA Ended ==
  ASSUME TypeOK, NEW t \in Txns, End(t)
  PROVE  /\ LockTypes' /\ \A u \in Txns \ {t} : LocksKept(u)
         /\ Holds(t)' = {} /\ Becomes(t, Idle) /\ TransactionOK(t)'
<1>1. txn'[t] = Idle /\ Holds(t)' = {}
  BY LocksReleased DEF TypeOK, End, Becomes
<1>2. TransactionOK(t)'
  BY <1>1 DEF TransactionOK, LocksHeld, LockedCycle, LockedFigures, Idle
<1> QED
  BY <1>1, <1>2, LocksReleased DEF End

-----------------------------------------------------------------------------
(* Requests, and the steps that touch no row. *)

LEMMA StartStep ==
  ASSUME IInv, NEW t \in Txns, NEW r \in TxnRecord, Start(t, r),
         \A a \in r.todo : adj[a].status # "NONE",
         \/ r.pc \in {"cycle", "archive", "count"}
         \/ r.pc = "adjustment" /\ r.kind \in {"payment", "settle"},
         r.kind = "rollover" => r.cycle + 1 \in Cycles
  PROVE  IInv'
<1>1. /\ txn'[t] = r /\ Holds(t)' = {} /\ UNCHANGED rows /\ Becomes(t, r)
      /\ LockTypes' /\ \A u \in Txns : LocksKept(u)
  BY NoLockTouched DEF IInv, TypeOK, TransactionOK, LocksHeld, Start, Becomes, locks
<1>2. TransactionOK(t)'
  BY <1>1 DEF TransactionOK, LocksHeld, LockedCycle, LockedFigures, rows
<1> QED
  BY <1>1, <1>2, QuietStep

LEMMA RequestStep ==
  ASSUME IInv, NEW t \in Txns, Request(t)
  PROVE  IInv'
<1>1. CASE \E a \in Adjustments : RequestPayment(t, a)
  <2>1. PICK a \in Adjustments : RequestPayment(t, a)
    BY <1>1
  <2> DEFINE r == [Idle EXCEPT !.kind = "payment", !.pc = "adjustment", !.todo = {a}]
  <2>2. /\ r \in TxnRecord /\ r.todo = {a} /\ r.pc = "adjustment" /\ r.kind = "payment"
    BY IdleType DEF TxnRecord, Kinds
  <2>3. Start(t, r) /\ adj[a].status # "NONE"
    BY <2>1 DEF RequestPayment
  <2> HIDE DEF r
  <2> QED
    BY <2>2, <2>3, StartStep
<1>2. CASE \E a \in Adjustments, c \in Cycles, m \in ManualAmounts : RequestSettlement(t, a, c, m)
  <2>1. PICK a \in Adjustments, c \in Cycles, m \in ManualAmounts : RequestSettlement(t, a, c, m)
    BY <1>2
  <2> DEFINE r == [Idle EXCEPT !.kind = "settle", !.pc = "adjustment", !.todo = {a},
                               !.cycle = c, !.amount = m]
  <2>2. /\ r \in TxnRecord /\ r.todo = {a} /\ r.pc = "adjustment" /\ r.kind = "settle"
    BY IdleType, AmountsAssumption DEF TxnRecord, Kinds
  <2>3. Start(t, r) /\ adj[a].status # "NONE"
    BY <2>1 DEF RequestSettlement
  <2> HIDE DEF r
  <2> QED
    BY <2>2, <2>3, StartStep
<1>3. CASE \E a \in Adjustments, c \in Cycles : RequestMaterialization(t, a, c)
  <2>1. PICK a \in Adjustments, c \in Cycles : RequestMaterialization(t, a, c)
    BY <1>3
  <2> DEFINE r == [Idle EXCEPT !.kind = "materialize", !.pc = "cycle", !.todo = {a}, !.cycle = c]
  <2>2. /\ r \in TxnRecord /\ r.todo = {a} /\ r.pc = "cycle" /\ r.kind = "materialize"
    BY IdleType DEF TxnRecord, Kinds
  <2>3. Start(t, r) /\ adj[a].status # "NONE"
    BY <2>1 DEF RequestMaterialization
  <2> HIDE DEF r
  <2> QED
    BY <2>2, <2>3, StartStep
<1>4. CASE \E c \in Cycles : RequestBatch(t, c)
  <2>1. PICK c \in Cycles : RequestBatch(t, c)
    BY <1>4
  <2> DEFINE r == [Idle EXCEPT !.kind = "batch", !.pc = "cycle", !.cycle = c,
                               !.read = entry[c], !.todo = Candidates(entry[c])]
  <2>2. /\ Candidates(entry[c]) \subseteq Adjustments
        /\ \A a \in Candidates(entry[c]) : adj[a].status # "NONE"
    BY DEF Candidates
  <2>3. entry[c] \in [Employees -> EntryRecord]
    BY DEF IInv, TypeOK
  <2>4. /\ r \in TxnRecord /\ r.todo = Candidates(entry[c]) /\ r.pc = "cycle" /\ r.kind = "batch"
    BY <2>2, <2>3, IdleType DEF TxnRecord, Kinds
  <2>5. Start(t, r)
    BY <2>1 DEF RequestBatch
  <2> HIDE DEF r
  <2> QED
    BY <2>2, <2>4, <2>5, StartStep
<1>5. CASE \E c \in Cycles : RequestRelease(t, c)
  <2>1. PICK c \in Cycles : RequestRelease(t, c)
    BY <1>5
  <2> DEFINE r == [Idle EXCEPT !.kind = "release", !.pc = "cycle", !.cycle = c]
  <2>2. /\ r \in TxnRecord /\ r.todo = {} /\ r.pc = "cycle" /\ r.kind = "release"
    BY IdleType DEF TxnRecord, Kinds, Idle
  <2>3. Start(t, r)
    BY <2>1 DEF RequestRelease
  <2> HIDE DEF r
  <2> QED
    BY <2>2, <2>3, StartStep
<1>6. CASE \E c \in Cycles : RequestFinalize(t, c)
  <2>1. PICK c \in Cycles : RequestFinalize(t, c)
    BY <1>6
  <2> DEFINE r == [Idle EXCEPT !.kind = "finalize", !.pc = "count", !.cycle = c]
  <2>2. /\ r \in TxnRecord /\ r.todo = {} /\ r.pc = "count" /\ r.kind = "finalize"
    BY IdleType DEF TxnRecord, Kinds, Idle
  <2>3. Start(t, r)
    BY <2>1 DEF RequestFinalize
  <2> HIDE DEF r
  <2> QED
    BY <2>2, <2>3, StartStep
<1>7. CASE \E c \in Cycles : RequestRollover(t, c)
  <2>1. PICK c \in Cycles : RequestRollover(t, c)
    BY <1>7
  <2> DEFINE r == [Idle EXCEPT !.kind = "rollover", !.pc = "archive", !.cycle = c,
                               !.chosen = Employees \ departed]
  <2>2. /\ r \in TxnRecord /\ r.todo = {} /\ r.pc = "archive" /\ r.kind = "rollover"
        /\ r.cycle = c
    BY IdleType DEF TxnRecord, Kinds, Idle
  <2>3. Start(t, r) /\ c + 1 \in Cycles
    BY <2>1 DEF RequestRollover
  <2> HIDE DEF r
  <2> QED
    BY <2>2, <2>3, StartStep
<1> QED
  BY <1>1, <1>2, <1>3, <1>4, <1>5, <1>6, <1>7 DEF Request

LEMMA RollbackStep ==
  ASSUME IInv, NEW t \in Txns, Rollback(t)
  PROVE  IInv'
  BY Ended, IdleType, QuietStep DEF IInv, Rollback

(* Reading under a freshly taken adjustment lock, and deciding. *)
LEMMA DecideStep ==
  ASSUME IInv, NEW t \in Txns, NEW a \in Adjustments, NEW accepted \in BOOLEAN, NEW amount,
         NEW otherwise \in {"rejected", "skip"},
         TakeAdjustment(t, a), Decide(t, a, accepted, amount, otherwise),
         UNCHANGED <<rows, cycleLock>>,
         txn[t].pc = "adjustment", a \in txn[t].todo,
         txn[t].kind \in {"payment", "settle", "materialize", "batch"},
         accepted => amount \in Nat /\ 0 < amount /\ amount <= adj[a].remaining - reserved[a],
         accepted /\ txn[t].kind \in {"materialize", "batch"}
            => cycleStatus[txn[t].cycle] = "DRAFT"
  PROVE  IInv'
<1> DEFINE next == IF accepted THEN "write" ELSE otherwise
           todo == txn[t].todo \ {a}
           plan == IF accepted
                     THEN [txn[t].plan EXCEPT
                             ![a] = [amount |-> amount, remaining |-> adj[a].remaining]]
                     ELSE txn[t].plan
           r    == [txn[t] EXCEPT !.pc = next, !.todo = todo, !.plan = plan]
<1>1. /\ txn[t] \in TxnRecord /\ txn[t].plan \in [Adjustments -> PlanRecord]
      /\ txn[t].todo \subseteq Adjustments /\ txn[t].cycle \in Cycles
      /\ adj[a].remaining \in Nat
  BY DEF IInv, TypeOK, TxnRecord, AdjRecord
<1>2. /\ next \in {"write", "rejected", "skip"} /\ todo \in SUBSET Adjustments
      /\ plan \in [Adjustments -> PlanRecord]
      /\ accepted => plan[a].amount = amount
  BY <1>1 DEF PlanRecord
<1>3. Becomes(t, r)
  BY DEF Decide
<1> HIDE DEF next, todo, plan
<1>4. /\ r \in TxnRecord /\ r.pc = next /\ r.todo = todo /\ r.plan = plan
      /\ r.kind = txn[t].kind /\ r.cycle = txn[t].cycle
  <2>1. Moved(txn[t], r, next, todo, plan)
    BY <1>1, <1>2, Decides DEF Points
  <2> QED
    BY <2>1 DEF Moved
<1> HIDE DEF r
<1>5. /\ LockTypes' /\ \A u \in Txns \ {t} : LocksKept(u)
      /\ Holds(t)' = {a} /\ UNCHANGED rows
  BY AdjustmentTaken DEF IInv, TransactionOK, LocksHeld
<1>6. txn'[t] = r
  BY <1>3 DEF IInv, TypeOK, Becomes
<1>7. LocksHeld(t)'
  <2>1. \A b \in txn[t].todo : adj[b].status # "NONE"
    BY DEF IInv, TransactionOK, LocksHeld
  <2> QED
    BY <1>2, <1>4, <1>5, <1>6, <2>1 DEF LocksHeld, rows, todo
<1>8. LockedCycle(t)'
  <2>1. txn[t].kind \in {"materialize", "batch"} => cycleLock'[txn[t].cycle] = t
    BY DEF IInv, TransactionOK, LockedCycle
  <2>2. r.pc = "write" => accepted
    BY <1>4 DEF next
  <2> QED
    BY <1>1, <1>2, <1>4, <1>5, <1>6, <2>1, <2>2 DEF LockedCycle, rows
<1>9. LockedFigures(t)'
  <2>1. r.pc = "write" => accepted
    BY <1>4 DEF next
  <2>2. adj' = adj /\ reserved' = reserved
    BY DEF rows
  <2>3. accepted => 0 < r.plan[a].amount /\ r.plan[a].amount <= adj[a].remaining - reserved[a]
    BY <1>2, <1>4
  <2>4. r.kind \notin {"rollover", "release"}
    BY <1>4
  <2> QED
    BY <1>5, <1>6, <2>1, <2>2, <2>3, <2>4 DEF LockedFigures
<1> QED
  BY <1>3, <1>4, <1>5, <1>7, <1>8, <1>9, QuietStep DEF TransactionOK

LEMMA LockToPayStep ==
  ASSUME IInv, NEW t \in Txns, NEW a \in Adjustments, LockToPay(t, a)
  PROVE  IInv'
<1> DEFINE accepted == /\ adj[a].type = "PAYABLE"
                       /\ StandalonePaymentAccepted(adj[a].status, adj[a].remaining, reserved[a])
<1>1. adj[a].remaining \in Nat /\ reserved[a] \in Nat
  BY DEF IInv, TypeOK, AdjRecord
<1>2. accepted => /\ adj[a].remaining \in Nat /\ 0 < adj[a].remaining
                  /\ adj[a].remaining <= adj[a].remaining - reserved[a]
  BY <1>1, SettlementLeavesReservations DEF StandalonePaymentAccepted
<1>3. /\ Decide(t, a, accepted, adj[a].remaining, "rejected")
      /\ TakeAdjustment(t, a) /\ UNCHANGED <<rows, cycleLock>>
      /\ txn[t].pc = "adjustment" /\ a \in txn[t].todo /\ txn[t].kind = "payment"
  BY DEF LockToPay
<1>4. accepted \in BOOLEAN
  BY DEF StandalonePaymentAccepted, SettlementAccepted
<1> HIDE DEF accepted
<1> QED
  BY <1>2, <1>3, <1>4, DecideStep

LEMMA LockToSettleStep ==
  ASSUME IInv, NEW t \in Txns, NEW a \in Adjustments, LockToSettle(t, a)
  PROVE  IInv'
<1> DEFINE accepted ==
      /\ ~(adj[a].type = "RECOVERY" /\ adj[a].employee \in departed)
      /\ cycleStatus[txn[t].cycle] # "NONE"
      /\ SettlementAccepted(adj[a].status, adj[a].remaining, reserved[a], txn[t].amount)
<1>1. adj[a].remaining \in Nat /\ reserved[a] \in Nat /\ txn[t].amount \in Nat
  BY DEF IInv, TypeOK, AdjRecord, TxnRecord
<1>2. accepted => /\ txn[t].amount \in Nat /\ 0 < txn[t].amount
                  /\ txn[t].amount <= adj[a].remaining - reserved[a]
  BY <1>1, SettlementLeavesReservations
<1>3. /\ Decide(t, a, accepted, txn[t].amount, "rejected")
      /\ TakeAdjustment(t, a) /\ UNCHANGED <<rows, cycleLock>>
      /\ txn[t].pc = "adjustment" /\ a \in txn[t].todo /\ txn[t].kind = "settle"
  BY DEF LockToSettle
<1>4. accepted \in BOOLEAN
  BY DEF SettlementAccepted
<1> HIDE DEF accepted
<1> QED
  BY <1>2, <1>3, <1>4, DecideStep

LEMMA LockToReserveStep ==
  ASSUME IInv, NEW t \in Txns, NEW a \in Adjustments, LockToReserve(t, a)
  PROVE  IInv'
<1> DEFINE row == txn[t].read[adj[a].employee]
           eligible == Eligible(adj[a], reserved[a], adj[a].employee \in departed,
                                cycleStatus[txn[t].cycle],
                                mat[a][txn[t].cycle].status # "NONE", row.outcome # "NONE",
                                row.outcome = "PAID")
           amount == ReservationAmount(adj[a], reserved[a])
<1>1. adj[a].remaining \in Nat /\ adj[a].installment \in Nat /\ reserved[a] \in Nat
  BY DEF IInv, TypeOK, AdjRecord
<1>2. eligible => /\ amount \in Nat /\ 0 < amount
                  /\ amount <= adj[a].remaining - reserved[a]
                  /\ cycleStatus[txn[t].cycle] = "DRAFT"
  BY <1>1, ReservationWithinBalance DEF Eligible
<1>3. /\ Decide(t, a, eligible, amount, "skip")
      /\ TakeAdjustment(t, a) /\ UNCHANGED <<rows, cycleLock>>
      /\ txn[t].pc = "adjustment" /\ a \in txn[t].todo
      /\ txn[t].kind \in {"materialize", "batch"}
  BY DEF LockToReserve
<1>4. eligible \in BOOLEAN
  BY DEF Eligible
<1> HIDE DEF eligible, amount
<1> QED
  BY <1>2, <1>3, <1>4, DecideStep

LEMMA LockCycleToMaterializeStep ==
  ASSUME IInv, NEW t \in Txns, LockCycleToMaterialize(t)
  PROVE  IInv'
<1> DEFINE c == txn[t].cycle
           r == [txn[t] EXCEPT !.pc = "adjustment", !.read = entry[c]]
<1>1. txn[t] \in TxnRecord /\ c \in Cycles /\ entry[c] \in [Employees -> EntryRecord]
  BY DEF IInv, TypeOK, TxnRecord
<1>2. Moved(txn[t], r, "adjustment", txn[t].todo, txn[t].plan)
  BY <1>1, Reads DEF Points
<1>3. /\ txn[t].pc = "cycle" /\ txn[t].kind = "materialize" /\ Becomes(t, r)
      /\ TakeCycle(t, c) /\ UNCHANGED <<rows, adjLock>>
  BY DEF LockCycleToMaterialize
<1> HIDE DEF r
<1>4. /\ LockTypes' /\ \A u \in Txns \ {t} : LocksKept(u)
      /\ Holds(t)' = {} /\ cycleLock'[c] = t
  BY <1>1, <1>3, CycleTaken DEF IInv, TransactionOK, LocksHeld
<1>5. txn'[t] = r
  BY <1>3 DEF IInv, TypeOK, Becomes
<1>6. TransactionOK(t)'
  BY <1>2, <1>3, <1>4, <1>5
     DEF IInv, TransactionOK, LocksHeld, LockedCycle, LockedFigures, Moved, rows
<1> QED
  BY <1>2, <1>3, <1>4, <1>6, QuietStep DEF Moved

LEMMA LockCycleForCandidateStep ==
  ASSUME IInv, NEW t \in Txns, LockCycleForCandidate(t)
  PROVE  IInv'
<1> DEFINE c == txn[t].cycle
           r == [txn[t] EXCEPT !.pc = "adjustment"]
<1>1. txn[t] \in TxnRecord /\ c \in Cycles
  BY DEF IInv, TypeOK, TxnRecord
<1>2. Moved(txn[t], r, "adjustment", txn[t].todo, txn[t].plan)
  BY <1>1, GoesOn DEF Points
<1>3. /\ txn[t].pc = "cycle" /\ txn[t].kind = "batch" /\ Becomes(t, r)
      /\ TakeCycle(t, c) /\ UNCHANGED <<rows, adjLock>>
  BY DEF LockCycleForCandidate
<1> HIDE DEF r
<1>4. /\ LockTypes' /\ \A u \in Txns \ {t} : LocksKept(u)
      /\ Holds(t)' = {} /\ cycleLock'[c] = t
  BY <1>1, <1>3, CycleTaken DEF IInv, TransactionOK, LocksHeld
<1>5. txn'[t] = r
  BY <1>3 DEF IInv, TypeOK, Becomes
<1>6. TransactionOK(t)'
  BY <1>2, <1>3, <1>4, <1>5
     DEF IInv, TransactionOK, LocksHeld, LockedCycle, LockedFigures, Moved, rows
<1> QED
  BY <1>2, <1>3, <1>4, <1>6, QuietStep DEF Moved

LEMMA LockCycleToReleaseStep ==
  ASSUME IInv, NEW t \in Txns, NEW chosen \in SUBSET Employees, LockCycleToRelease(t, chosen)
  PROVE  IInv'
<1> DEFINE c    == txn[t].cycle
           read == [e \in Employees |-> IF e \in chosen THEN entry[c][e] ELSE NoEntry]
           r    == [txn[t] EXCEPT !.pc = "entries", !.chosen = chosen, !.read = read]
<1>1. txn[t] \in TxnRecord /\ c \in Cycles /\ read \in [Employees -> EntryRecord]
  BY EntryTypes DEF IInv, TypeOK, TxnRecord
<1>2. /\ txn[t].pc = "cycle" /\ txn[t].kind = "release" /\ Becomes(t, r)
      /\ TakeCycle(t, c) /\ UNCHANGED <<rows, adjLock>> /\ cycleStatus[c] = "DRAFT"
  BY DEF LockCycleToRelease
<1> HIDE DEF read
<1>3. Moved(txn[t], r, "entries", txn[t].todo, txn[t].plan)
  BY <1>1, Selects DEF Points
<1> HIDE DEF r
<1>4. /\ LockTypes' /\ \A u \in Txns \ {t} : LocksKept(u)
      /\ Holds(t)' = {} /\ cycleLock'[c] = t
  BY <1>1, <1>2, CycleTaken DEF IInv, TransactionOK, LocksHeld
<1>5. txn'[t] = r
  BY <1>2 DEF IInv, TypeOK, Becomes
<1>6. TransactionOK(t)'
  BY <1>2, <1>3, <1>4, <1>5
     DEF IInv, TransactionOK, LocksHeld, LockedCycle, LockedFigures, Moved, rows
<1> QED
  BY <1>2, <1>3, <1>4, <1>6, QuietStep DEF Moved

LEMMA UpdateEntriesStep ==
  ASSUME IInv, NEW t \in Txns, UpdateEntries(t)
  PROVE  IInv'
<1> DEFINE c        == txn[t].cycle
           todo     == ActiveOn(c, txn[t].chosen)
           capacity == [e \in Employees |->
                          IF e \in txn[t].chosen
                            THEN CappedRecovery(LegacyNet(entry[c][e]), entry[c][e].recovery)
                            ELSE 0]
           r        == [txn[t] EXCEPT !.pc = "consume", !.todo = todo, !.capacity = capacity]
<1>1. txn[t] \in TxnRecord /\ c \in Cycles /\ todo \in SUBSET Adjustments
  BY DEF IInv, TypeOK, TxnRecord, ActiveOn
<1>2. capacity \in [Employees -> Nat]
  <2>1. ASSUME NEW e \in Employees
        PROVE  LegacyNet(entry[c][e]) \in Int /\ entry[c][e].recovery \in Nat
    <3>1. entry[c][e] \in EntryRecord
      BY <1>1 DEF IInv, TypeOK
    <3> QED
      BY <3>1, LegacyNetType
  <2> QED
    BY <2>1, CappedRecoveryBounds
<1>3. /\ txn[t].pc = "entries" /\ txn[t].kind = "release" /\ Becomes(t, r)
      /\ UNCHANGED <<rows, locks>>
  BY DEF UpdateEntries
<1>4. \A a \in todo : adj[a].status # "NONE"
  BY <1>1 DEF IInv, RowsOK, RowsWellFounded, ActiveOn
<1> HIDE DEF todo, capacity
<1>5. Moved(txn[t], r, "consume", todo, txn[t].plan)
  BY <1>1, <1>2, Sweeps DEF Points
<1> HIDE DEF r
<1>6. /\ LockTypes' /\ \A u \in Txns : LocksKept(u)
      /\ Holds(t)' = {} /\ cycleLock'[c] = cycleLock[c]
  BY <1>1, <1>3, NoLockTouched DEF IInv, TransactionOK, LocksHeld
<1>7. txn'[t] = r
  BY <1>3 DEF IInv, TypeOK, Becomes
<1>8. TransactionOK(t)'
  BY <1>3, <1>4, <1>5, <1>6, <1>7
     DEF IInv, TransactionOK, LocksHeld, LockedCycle, LockedFigures, Moved, rows
<1> QED
  BY <1>3, <1>5, <1>6, <1>8, QuietStep DEF Moved

LEMMA CountBlockingStep ==
  ASSUME IInv, NEW t \in Txns, CountBlocking(t)
  PROVE  IInv'
<1> DEFINE r == [txn[t] EXCEPT !.pc = "write"]
<1>1. txn[t] \in TxnRecord
  BY DEF IInv, TypeOK
<1>2. /\ txn[t].pc = "count" /\ txn[t].kind = "finalize" /\ Becomes(t, r)
      /\ UNCHANGED <<rows, locks>>
  BY DEF CountBlocking
<1>3. Moved(txn[t], r, "write", txn[t].todo, txn[t].plan)
  BY <1>1, GoesOn DEF Points
<1> HIDE DEF r
<1>4. LockTypes' /\ (\A u \in Txns : LocksKept(u)) /\ Holds(t)' = {}
  BY <1>2, NoLockTouched DEF IInv, TransactionOK, LocksHeld
<1>5. txn'[t] = r
  BY <1>2 DEF IInv, TypeOK, Becomes
<1>6. TransactionOK(t)'
  BY <1>2, <1>3, <1>4, <1>5
     DEF IInv, TransactionOK, LocksHeld, LockedCycle, LockedFigures, Moved, rows
<1> QED
  BY <1>2, <1>3, <1>4, <1>6, QuietStep DEF Moved

LEMMA ArchiveStep ==
  ASSUME IInv, NEW t \in Txns, Archive(t)
  PROVE  IInv'
<1> DEFINE c     == txn[t].cycle
           fresh == [e \in Employees |-> IF e \in txn[t].chosen THEN FreshEntry ELSE NoEntry]
           todo  == Candidates(fresh)
           r     == [txn[t] EXCEPT !.pc = "carry", !.read = fresh, !.todo = todo]
<1>1. /\ txn[t] \in TxnRecord /\ c \in Cycles /\ fresh \in [Employees -> EntryRecord]
      /\ todo \in SUBSET Adjustments /\ \A a \in todo : adj[a].status # "NONE"
  BY EntryTypes DEF IInv, TypeOK, TxnRecord, Candidates
<1>2. /\ txn[t].pc = "archive" /\ txn[t].kind = "rollover" /\ Becomes(t, r)
      /\ TakeCycle(t, c) /\ UNCHANGED <<rows, adjLock>> /\ cycleStatus[c] = "RELEASED"
  BY DEF Archive
<1> HIDE DEF fresh, todo
<1>3. Moved(txn[t], r, "carry", todo, txn[t].plan)
  BY <1>1, Lists DEF Points
<1> HIDE DEF r
<1>4. /\ LockTypes' /\ \A u \in Txns \ {t} : LocksKept(u)
      /\ Holds(t)' = {} /\ cycleLock'[c] = t
  BY <1>1, <1>2, CycleTaken DEF IInv, TransactionOK, LocksHeld
<1>5. txn'[t] = r
  BY <1>2 DEF IInv, TypeOK, Becomes
<1>6. TransactionOK(t)'
  BY <1>1, <1>2, <1>3, <1>4, <1>5
     DEF IInv, TransactionOK, LocksHeld, LockedCycle, LockedFigures, Moved, rows
<1> QED
  BY <1>2, <1>3, <1>4, <1>6, QuietStep DEF Moved

(* A candidate's transaction is over: the request is idle or before its next one. *)
LEMMA CandidateDone ==
  ASSUME IInv, NEW t \in Txns, NextCandidate(t),
         \A a \in Adjustments : adj[a].status # "NONE" => adj'[a].status # "NONE"
  PROVE  /\ LockTypes' /\ \A u \in Txns \ {t} : LocksKept(u)
         /\ TransactionOK(t)'
         /\ \E r \in TxnRecord : Becomes(t, r)
<1> DEFINE r == IF txn[t].todo = {} THEN Idle ELSE [txn[t] EXCEPT !.pc = "cycle", !.plan = NoPlan]
<1>1. /\ ReleaseLocks(t) /\ Becomes(t, r)
      /\ txn[t] \in TxnRecord /\ NoPlan \in [Adjustments -> PlanRecord]
  BY DEF NextCandidate, IInv, TypeOK, NoPlan, PlanRecord
<1>2. /\ LockTypes' /\ \A u \in Txns \ {t} : LocksKept(u)
      /\ Holds(t)' = {}
  BY <1>1, LocksReleased DEF IInv
<1>3. r = Idle \/ Moved(txn[t], r, "cycle", txn[t].todo, NoPlan)
  BY <1>1, Forgets DEF Points
<1>4. r \in TxnRecord
  BY <1>3, IdleType DEF Moved
<1> HIDE DEF r
<1>5. txn'[t] = r
  BY <1>1 DEF IInv, TypeOK, Becomes
<1>6. TransactionOK(t)'
  <2>1. CASE r = Idle
    BY <1>2, <1>5, <2>1 DEF TransactionOK, LocksHeld, LockedCycle, LockedFigures, Idle
  <2>2. CASE Moved(txn[t], r, "cycle", txn[t].todo, NoPlan)
    <3>1. txn[t].todo \subseteq Adjustments /\ \A a \in txn[t].todo : adj[a].status # "NONE"
      BY DEF IInv, TypeOK, TxnRecord, TransactionOK, LocksHeld
    <3> QED
      BY <1>2, <1>5, <2>2, <3>1
         DEF IInv, TransactionOK, LocksHeld, LockedCycle, LockedFigures, Moved
  <2> QED
    BY <1>3, <2>1, <2>2
<1> QED
  BY <1>1, <1>2, <1>4, <1>6

LEMMA SkipStep ==
  ASSUME IInv, NEW t \in Txns, Skip(t)
  PROVE  IInv'
<1>1. NextCandidate(t) /\ UNCHANGED rows
  BY DEF Skip
<1>2. \A a \in Adjustments : adj[a].status # "NONE" => adj'[a].status # "NONE"
  BY <1>1 DEF rows
<1> QED
  BY <1>1, <1>2, CandidateDone, QuietStep

LEMMA LockToConsumeStep ==
  ASSUME IInv, NEW t \in Txns, NEW a \in Adjustments, LockToConsume(t, a)
  PROVE  IInv'
<1> DEFINE c        == txn[t].cycle
           e        == adj[a].employee
           full     == mat[a][c].amount
           bearable == IF adj[a].type = "RECOVERY" THEN Lesser(full, txn[t].capacity[e]) ELSE full
           accepted == /\ SettlementAccepted(adj[a].status, adj[a].remaining,
                                             reserved[a] - full, bearable)
                       /\ settlement[a][c] = 0
           next     == IF bearable = 0 \/ accepted THEN "consume" ELSE "rejected"
           todo     == txn[t].todo \ {a}
           plan     == [txn[t].plan EXCEPT
                          ![a] = [amount |-> bearable, remaining |-> adj[a].remaining]]
           capacity == [txn[t].capacity EXCEPT
                          ![e] = CapacityLeft(txn[t].capacity[e], adj[a].type, bearable)]
           r        == [txn[t] EXCEPT !.pc = next, !.todo = todo, !.plan = plan,
                                      !.capacity = capacity]
<1>1. /\ txn[t] \in TxnRecord /\ c \in Cycles /\ todo \in SUBSET Adjustments
      /\ txn[t].plan \in [Adjustments -> PlanRecord]
      /\ txn[t].capacity \in [Employees -> Nat]
      /\ full \in Nat /\ adj[a].remaining \in Nat
  BY DEF IInv, TypeOK, TxnRecord, AdjRecord, MatRecord
<1>2. /\ txn[t].pc = "consume" /\ txn[t].kind = "release" /\ a \in txn[t].todo
      /\ Becomes(t, r) /\ TakeAdjustment(t, a) /\ UNCHANGED <<rows, cycleLock>>
  BY DEF LockToConsume
<1>3. /\ \A b \in txn[t].todo : adj[b].status # "NONE"
      /\ e \in Employees
  BY <1>2 DEF IInv, TransactionOK, LocksHeld, RowsOK, RowsWellFounded
<1>4. bearable \in Nat /\ bearable <= full /\ next \in {"consume", "rejected"}
  BY <1>1, <1>3 DEF Lesser
<1>5. plan \in [Adjustments -> PlanRecord]
  BY <1>1, <1>4 DEF PlanRecord
<1>6. capacity \in [Employees -> Nat]
  <2>1. CapacityLeft(txn[t].capacity[e], adj[a].type, bearable) \in Nat
    BY <1>1, <1>3 DEF CapacityLeft, Lesser
  <2> QED
    BY <1>1, <2>1
<1>7. plan[a].amount <= full /\ \A b \in Adjustments \ {a} : plan[b] = txn[t].plan[b]
  BY <1>1, <1>4
<1> HIDE DEF bearable, accepted, next, todo, plan, capacity
<1>8. Moved(txn[t], r, next, todo, plan)
  <2>1. next \in Points
    BY <1>4 DEF Points
  <2> QED
    BY <1>1, <1>5, <1>6, <2>1, Consumes
<1> HIDE DEF r
<1>9. /\ LockTypes' /\ \A u \in Txns \ {t} : LocksKept(u)
      /\ Holds(t)' = Holds(t) \cup {a} /\ a \notin Holds(t)
  BY <1>2, AdjustmentTaken DEF IInv
<1>10. txn'[t] = r
  BY <1>2 DEF IInv, TypeOK, Becomes
<1>11. LocksHeld(t)' /\ LockedCycle(t)'
  BY <1>1, <1>2, <1>3, <1>4, <1>8, <1>9, <1>10
     DEF IInv, TransactionOK, LocksHeld, LockedCycle, Moved, rows, todo
<1>12. LockedFigures(t)'
  <2>1. \A b \in Holds(t) : b \in Adjustments /\ txn[t].plan[b].amount <= mat[b][c].amount
    BY <1>2 DEF IInv, TransactionOK, LockedFigures, Holds
  <2>2. \A b \in Holds(t)' : plan[b].amount <= mat[b][c].amount
    BY <1>7, <1>9, <2>1
  <2>3. mat' = mat
    BY <1>2 DEF rows
  <2>4. txn'[t].kind = "release" /\ txn'[t].cycle = c /\ txn'[t].plan = plan
    BY <1>2, <1>8, <1>10 DEF Moved
  <2> QED
    BY <2>2, <2>3, <2>4 DEF LockedFigures
<1> QED
  BY <1>2, <1>8, <1>9, <1>11, <1>12, QuietStep DEF Moved, TransactionOK

LEMMA LockToCarryStep ==
  ASSUME IInv, NEW t \in Txns, NEW a \in Adjustments, LockToCarry(t, a)
  PROVE  IInv'
<1> DEFINE c        == txn[t].cycle
           e        == adj[a].employee
           amount   == ReservationAmount(adj[a], reserved[a])
           eligible == Eligible(adj[a], reserved[a], e \in departed, "DRAFT", FALSE, TRUE, FALSE)
           todo     == txn[t].todo \ {a}
           taken    == IF eligible THEN amount ELSE 0
           plan     == [txn[t].plan EXCEPT
                          ![a] = [amount |-> taken, remaining |-> adj[a].remaining]]
           read     == IF eligible
                         THEN [txn[t].read EXCEPT
                                 ![e] = AddAggregate(txn[t].read[e], adj[a].type, amount)]
                         ELSE txn[t].read
           r        == [txn[t] EXCEPT !.todo = todo, !.plan = plan, !.read = read]
<1>1. /\ txn[t] \in TxnRecord /\ c \in Cycles /\ todo \in SUBSET Adjustments
      /\ txn[t].plan \in [Adjustments -> PlanRecord]
      /\ txn[t].read \in [Employees -> EntryRecord]
      /\ adj[a].remaining \in Nat /\ adj[a].installment \in Nat /\ reserved[a] \in Nat
  BY DEF IInv, TypeOK, TxnRecord, AdjRecord
<1>2. /\ txn[t].pc = "carry" /\ txn[t].kind = "rollover" /\ a \in txn[t].todo
      /\ Becomes(t, r) /\ TakeAdjustment(t, a) /\ UNCHANGED <<rows, cycleLock>>
  BY DEF LockToCarry
<1>3. /\ \A b \in txn[t].todo : adj[b].status # "NONE"
      /\ e \in Employees /\ reserved[a] <= adj[a].remaining
  BY <1>2 DEF IInv, TransactionOK, LocksHeld, RowsOK, RowsWellFounded, ReservationsCovered
<1>4. taken \in Nat /\ taken <= adj[a].remaining - reserved[a]
  BY <1>1, <1>3, ReservationWithinBalance DEF Eligible
<1>5. plan \in [Adjustments -> PlanRecord]
  BY <1>1, <1>4 DEF PlanRecord
<1>6. read \in [Employees -> EntryRecord]
  <2>1. CASE eligible
    <3>1. AddAggregate(txn[t].read[e], adj[a].type, amount) \in EntryRecord
      BY <1>1, <1>3, <1>4, <2>1, AddAggregateType
    <3> QED
      BY <1>1, <1>3, <2>1, <3>1
  <2> QED
    BY <1>1, <2>1
<1>7. /\ plan[a].amount <= adj[a].remaining - reserved[a]
      /\ \A b \in Adjustments \ {a} : plan[b] = txn[t].plan[b]
  BY <1>1, <1>4
<1> HIDE DEF todo, plan, read
<1>8. Moved(txn[t], r, txn[t].pc, todo, plan)
  BY <1>1, <1>5, <1>6, Carries
<1> HIDE DEF r
<1>9. /\ LockTypes' /\ \A u \in Txns \ {t} : LocksKept(u)
      /\ Holds(t)' = Holds(t) \cup {a} /\ a \notin Holds(t)
  BY <1>2, AdjustmentTaken DEF IInv
<1>10. txn'[t] = r
  BY <1>2 DEF IInv, TypeOK, Becomes
<1>11. LocksHeld(t)' /\ LockedCycle(t)'
  BY <1>1, <1>2, <1>3, <1>8, <1>9, <1>10
     DEF IInv, TransactionOK, LocksHeld, LockedCycle, Moved, rows, todo
<1>12. LockedFigures(t)'
  <2>1. \A b \in Holds(t) :
           b \in Adjustments /\ txn[t].plan[b].amount <= adj[b].remaining - reserved[b]
    BY <1>2 DEF IInv, TransactionOK, LockedFigures, Holds
  <2>2. \A b \in Holds(t)' : plan[b].amount <= adj[b].remaining - reserved[b]
    BY <1>7, <1>9, <2>1
  <2>3. adj' = adj /\ reserved' = reserved
    BY <1>2 DEF rows
  <2>4. txn'[t].kind = "rollover" /\ txn'[t].cycle = c /\ txn'[t].plan = plan
    BY <1>2, <1>8, <1>10 DEF Moved
  <2> QED
    BY <2>2, <2>3, <2>4 DEF LockedFigures
<1> QED
  BY <1>2, <1>8, <1>9, <1>11, <1>12, QuietStep DEF Moved, TransactionOK

-----------------------------------------------------------------------------
(* The steps that write. *)

(* A balance goes down by an amount its holder found free. *)
LEMMA Discharged ==
  ASSUME IInv, NEW t \in Txns, NEW a \in Holds(t), NEW n \in Nat, NEW row \in AdjRecord,
         n <= adj[a].remaining - reserved[a],
         row.remaining = adj[a].remaining - n, row.status # "NONE",
         row.employee = adj[a].employee,
         adj' = [adj EXCEPT ![a] = row],
         settlement' \in [Adjustments -> [Cycles -> Nat]],
         UNCHANGED <<cycleStatus, entry, departed, mat, reserved>>
  PROVE  /\ RowTypes' /\ RowsOK'
         /\ \A u \in Txns \ {t} : LocksKept(u) /\ txn'[u] = txn[u] => Undisturbed(u)
<1>1. /\ a \in Adjustments /\ adjLock[a] = t /\ adj[a].status # "NONE"
      /\ adj \in [Adjustments -> AdjRecord] /\ adj[a].remaining \in Nat /\ reserved[a] \in Nat
      /\ RowTypes
  BY TypeOKParts DEF IInv, TypeOK, Holds, TransactionOK, LocksHeld, AdjRecord
<1>2. /\ adj'[a] = row
      /\ \A b \in Adjustments : b # a => adj'[b] = adj[b]
      /\ adj' \in [Adjustments -> AdjRecord]
  BY <1>1
<1>3. RowTypes'
  BY <1>1, <1>2 DEF RowTypes
<1>4. OneCurrentCycle'
  BY DEF IInv, RowsOK, OneCurrentCycle
<1>5. RowsWellFounded'
  BY <1>1, <1>2 DEF IInv, RowsOK, RowsWellFounded
<1>6. DraftReservationsCounted'
  BY DEF IInv, RowsOK, DraftReservationsCounted
<1>7. ReservationsCovered'
  BY <1>1, <1>2 DEF IInv, RowsOK, ReservationsCovered
<1>8. ASSUME NEW u \in Txns \ {t}, LocksKept(u), txn'[u] = txn[u] PROVE Undisturbed(u)
  <2>1. \A b \in Holds(u) : b \in Adjustments /\ b # a
    BY <1>1 DEF Holds
  <2> QED
    BY <1>1, <1>2, <1>8, <2>1 DEF LocksKept, Undisturbed
<1> QED
  BY <1>3, <1>4, <1>5, <1>6, <1>7, <1>8 DEF RowsOK

LEMMA PayStandaloneStep ==
  ASSUME IInv, NEW t \in Txns, NEW a \in Adjustments, PayStandalone(t, a)
  PROVE  IInv'
<1> DEFINE n   == txn[t].plan[a].amount
           row == [Reduced(adj[a], n) EXCEPT !.payment = n]
<1>1. /\ a \in Holds(t) /\ End(t) /\ adj' = [adj EXCEPT ![a] = row]
      /\ UNCHANGED <<cycleStatus, entry, departed, mat, settlement, reserved>>
      /\ txn[t].kind = "payment" /\ txn[t].pc = "write"
  BY DEF PayStandalone
<1>2. /\ n \in Nat /\ n <= adj[a].remaining - reserved[a]
      /\ adj[a] \in AdjRecord /\ adj[a].remaining \in Nat /\ reserved[a] \in Nat
      /\ settlement \in [Adjustments -> [Cycles -> Nat]]
  BY <1>1 DEF IInv, TypeOK, TxnRecord, PlanRecord, AdjRecord, TransactionOK, LockedFigures
<1>3. /\ row \in AdjRecord /\ row.remaining = adj[a].remaining - n /\ row.status # "NONE"
      /\ row.employee = adj[a].employee
  <2> DEFINE reduced == Reduced(adj[a], n)
  <2>1. /\ reduced \in AdjRecord /\ reduced.remaining = adj[a].remaining - n
        /\ reduced.status # "NONE" /\ reduced.employee = adj[a].employee
    BY <1>2, ReducedType
  <2> HIDE DEF reduced
  <2>2. row = [reduced EXCEPT !.payment = n]
    BY DEF reduced
  <2> HIDE DEF row
  <2> QED
    BY <1>2, <2>1, <2>2, PaymentType
<1> HIDE DEF n, row
<1>4. /\ RowTypes' /\ RowsOK'
      /\ \A u \in Txns \ {t} : LocksKept(u) /\ txn'[u] = txn[u] => Undisturbed(u)
  BY <1>1, <1>2, <1>3, Discharged
<1> QED
  BY <1>1, <1>4, Ended, IdleType, ComposedStep DEF IInv

LEMMA SettleStep ==
  ASSUME IInv, NEW t \in Txns, NEW a \in Adjustments, Settle(t, a)
  PROVE  IInv'
<1> DEFINE n   == txn[t].plan[a].amount
           c   == txn[t].cycle
           row == Reduced(adj[a], n)
<1>1. /\ a \in Holds(t) /\ End(t) /\ adj' = [adj EXCEPT ![a] = row]
      /\ settlement' = [settlement EXCEPT ![a][c] = n]
      /\ UNCHANGED <<cycleStatus, entry, departed, mat, reserved>>
      /\ txn[t].kind = "settle" /\ txn[t].pc = "write"
  BY DEF Settle
<1>2. /\ n \in Nat /\ n <= adj[a].remaining - reserved[a] /\ c \in Cycles
      /\ adj[a] \in AdjRecord /\ adj[a].remaining \in Nat /\ reserved[a] \in Nat
      /\ settlement \in [Adjustments -> [Cycles -> Nat]]
  BY <1>1 DEF IInv, TypeOK, TxnRecord, PlanRecord, AdjRecord, TransactionOK, LockedFigures
<1>3. /\ row \in AdjRecord /\ row.remaining = adj[a].remaining - n /\ row.status # "NONE"
      /\ row.employee = adj[a].employee
  BY <1>2, ReducedType
<1>4. settlement' \in [Adjustments -> [Cycles -> Nat]]
  BY <1>1, <1>2
<1> HIDE DEF n, row
<1>5. /\ RowTypes' /\ RowsOK'
      /\ \A u \in Txns \ {t} : LocksKept(u) /\ txn'[u] = txn[u] => Undisturbed(u)
  BY <1>1, <1>2, <1>3, <1>4, Discharged
<1> QED
  BY <1>1, <1>5, Ended, IdleType, ComposedStep DEF IInv

LEMMA ReserveStep ==
  ASSUME IInv, NEW t \in Txns, NEW a \in Adjustments, Reserve(t, a)
  PROVE  IInv'
<1> DEFINE n    == txn[t].plan[a].amount
           c    == txn[t].cycle
           e    == adj[a].employee
           row  == AddAggregate(entry[c][e], adj[a].type, n)
           held == [status |-> "ACTIVE", amount |-> n]
<1>1. /\ a \in Holds(t) /\ NextCandidate(t) /\ mat[a][c].status = "NONE"
      /\ mat' = [mat EXCEPT ![a][c] = held]
      /\ reserved' = [reserved EXCEPT ![a] = reserved[a] + n]
      /\ entry' = [entry EXCEPT ![c][e] = row]
      /\ UNCHANGED <<cycleStatus, departed, adj, settlement>>
      /\ txn[t].kind \in {"materialize", "batch"} /\ txn[t].pc = "write"
  BY DEF Reserve
<1>2. /\ n \in Nat /\ 0 < n /\ n <= adj[a].remaining - reserved[a]
      /\ c \in Cycles /\ cycleStatus[c] = "DRAFT"
      /\ adj[a].remaining \in Nat /\ reserved[a] \in Nat
  <2>1. /\ n \in Nat /\ c \in Cycles
        /\ adj[a].remaining \in Nat /\ reserved[a] \in Nat
    <3>1. txn[t] \in TxnRecord /\ adj[a] \in AdjRecord /\ reserved[a] \in Nat
      BY DEF IInv, TypeOK
    <3> QED
      BY <3>1 DEF TxnRecord, PlanRecord, AdjRecord
  <2>2. cycleStatus[c] = "DRAFT"
    BY <1>1 DEF IInv, TransactionOK, LockedCycle
  <2>3. 0 < n /\ n <= adj[a].remaining - reserved[a]
    BY <1>1 DEF IInv, TransactionOK, LockedFigures
  <2> QED
    BY <2>1, <2>2, <2>3
<1>3. adj[a].status # "NONE" /\ e \in Employees
  BY <1>1 DEF IInv, TransactionOK, LocksHeld, RowsOK, RowsWellFounded
<1>4. held \in MatRecord /\ held.status = "ACTIVE" /\ held.amount = n
  BY <1>2 DEF MatRecord
<1>5. row \in EntryRecord
  BY <1>2, <1>3, AddAggregateType DEF IInv, TypeOK
<1> HIDE DEF row, held, n
<1>6. /\ mat' \in [Adjustments -> [Cycles -> MatRecord]]
      /\ mat'[a][c] = held
      /\ \A b \in Adjustments, d \in Cycles : b # a \/ d # c => mat'[b][d] = mat[b][d]
  BY <1>1, <1>2, <1>4 DEF IInv, TypeOK
<1>7. /\ reserved' \in [Adjustments -> Nat]
      /\ reserved'[a] = reserved[a] + n
      /\ \A b \in Adjustments : b # a => reserved'[b] = reserved[b]
  BY <1>1, <1>2 DEF IInv, TypeOK
<1>8. RowTypes'
  <2>1. entry' \in [Cycles -> [Employees -> EntryRecord]]
    BY <1>1, <1>2, <1>3, <1>5 DEF IInv, TypeOK
  <2> QED
    BY <1>1, <1>6, <1>7, <2>1 DEF IInv, TypeOK, RowTypes
<1>9. RowsOK'
  <2>1. OneCurrentCycle'
    BY <1>1 DEF IInv, RowsOK, OneCurrentCycle
  <2>2. RowsWellFounded'
    BY <1>1, <1>2, <1>3, <1>6, <1>7 DEF IInv, RowsOK, RowsWellFounded
  <2>3. DraftReservationsCounted'
    <3> SUFFICES ASSUME NEW b \in Adjustments, NEW d \in Cycles, mat'[b][d].status = "ACTIVE"
                 PROVE  /\ mat'[b][d].amount > 0
                        /\ cycleStatus'[d] = "DRAFT" => mat'[b][d].amount <= reserved'[b]
      BY DEF DraftReservationsCounted
    <3>1. CASE b = a /\ d = c
      BY <1>2, <1>4, <1>6, <1>7, <3>1
    <3>2. CASE ~(b = a /\ d = c)
      <4>1. /\ mat'[b][d] = mat[b][d] /\ reserved[b] <= reserved'[b]
            /\ mat[b][d].amount \in Nat /\ reserved[b] \in Nat /\ reserved'[b] \in Nat
        BY <1>2, <1>6, <1>7, <3>2 DEF IInv, TypeOK, MatRecord
      <4> QED
        BY <1>1, <4>1 DEF IInv, RowsOK, DraftReservationsCounted
    <3> QED
      BY <3>1, <3>2
  <2>4. ReservationsCovered'
    BY <1>1, <1>2, <1>7 DEF IInv, RowsOK, ReservationsCovered
  <2> QED
    BY <2>1, <2>2, <2>3, <2>4 DEF RowsOK
<1>10. /\ LockTypes' /\ \A u \in Txns \ {t} : LocksKept(u)
       /\ TransactionOK(t)'
       /\ \E r \in TxnRecord : Becomes(t, r)
  BY <1>1, CandidateDone
<1>11. ASSUME NEW u \in Txns \ {t}, txn'[u] = txn[u] PROVE Undisturbed(u)
  <2>1. \A b \in Holds(u) : b \in Adjustments /\ b # a
    BY <1>1 DEF Holds
  <2> QED
    BY <1>1, <1>6, <1>7, <1>10, <1>11, <2>1 DEF LocksKept, Undisturbed
<1> QED
  BY <1>8, <1>9, <1>10, <1>11, ComposedStep

LEMMA FinalizeStepOK ==
  ASSUME IInv, NEW t \in Txns, Finalize(t)
  PROVE  IInv'
<1> DEFINE c == txn[t].cycle
<1>1. /\ cycleLock[c] = None /\ cycleStatus[c] = "DRAFT" /\ End(t)
      /\ cycleStatus' = [cycleStatus EXCEPT ![c] = "RELEASED"]
      /\ UNCHANGED <<entry, departed, adj, mat, settlement, reserved>>
  BY DEF Finalize
<1>2. /\ c \in Cycles /\ RowTypes
      /\ cycleStatus'[c] = "RELEASED" /\ \A d \in Cycles : d # c => cycleStatus'[d] = cycleStatus[d]
      /\ cycleStatus' \in [Cycles -> {"NONE", "DRAFT", "RELEASED", "ARCHIVED"}]
  BY <1>1, TypeOKParts DEF IInv, TypeOK, TxnRecord
<1>3. RowTypes'
  BY <1>1, <1>2 DEF RowTypes
<1>4. RowsOK'
  <2>1. OneCurrentCycle'
    BY <1>1, <1>2 DEF IInv, RowsOK, OneCurrentCycle
  <2>2. RowsWellFounded'
    BY <1>1, <1>2 DEF IInv, RowsOK, RowsWellFounded
  <2>3. DraftReservationsCounted'
    BY <1>1, <1>2 DEF IInv, RowsOK, DraftReservationsCounted
  <2>4. ReservationsCovered'
    BY <1>1 DEF IInv, RowsOK, ReservationsCovered
  <2> QED
    BY <2>1, <2>2, <2>3, <2>4 DEF RowsOK
<1>5. /\ LockTypes' /\ \A u \in Txns \ {t} : LocksKept(u)
      /\ Becomes(t, Idle) /\ TransactionOK(t)'
  BY <1>1, Ended DEF IInv
<1>6. ASSUME NEW u \in Txns \ {t}, txn'[u] = txn[u] PROVE Undisturbed(u)
  <2>1. \A d \in Cycles : cycleLock[d] = u => cycleStatus'[d] = cycleStatus[d]
    BY <1>1, <1>2, NoneAssumption
  <2> QED
    BY <1>1, <1>5, <1>6, <2>1 DEF LocksKept, Undisturbed
<1> QED
  BY <1>3, <1>4, <1>5, <1>6, IdleType, ComposedStep

LEMMA StartNextCycleStep ==
  ASSUME IInv, NEW t \in Txns, StartNextCycle(t)
  PROVE  IInv'
<1> DEFINE c       == txn[t].cycle
           next    == c + 1
           Carried == {a \in Holds(t) : txn[t].plan[a].amount > 0}
           held(a) == [status |-> "ACTIVE", amount |-> txn[t].plan[a].amount]
<1>1. /\ End(t) /\ cycleStatus[next] = "NONE"
      /\ cycleStatus' = [cycleStatus EXCEPT ![c] = "ARCHIVED", ![next] = "DRAFT"]
      /\ entry' = [entry EXCEPT ![next] = txn[t].read]
      /\ mat' = [a \in Adjustments |->
                   IF a \in Carried THEN [mat[a] EXCEPT ![next] = held(a)] ELSE mat[a]]
      /\ reserved' = [a \in Adjustments |->
                        IF a \in Carried THEN reserved[a] + txn[t].plan[a].amount
                                         ELSE reserved[a]]
      /\ UNCHANGED <<departed, adj, settlement>>
      /\ txn[t].kind = "rollover" /\ txn[t].pc = "carry"
  BY DEF StartNextCycle
<1>2. /\ c \in Cycles /\ next \in Cycles /\ c # next /\ c \in Nat
      /\ cycleLock[c] = t /\ cycleStatus[c] = "RELEASED"
      /\ txn[t].read \in [Employees -> EntryRecord]
      /\ \A a \in Adjustments : txn[t].plan[a].amount \in Nat
  <2>1. txn[t] \in TxnRecord
    BY DEF IInv, TypeOK
  <2>2. next \in Cycles /\ cycleLock[c] = t /\ cycleStatus[c] = "RELEASED"
    BY <1>1 DEF IInv, TransactionOK, LocksHeld, LockedCycle
  <2> QED
    BY <2>1, <2>2 DEF TxnRecord, PlanRecord, Cycles
<1>3. /\ Carried \subseteq Holds(t) /\ Holds(t) \subseteq Adjustments
      /\ \A a \in Holds(t) : /\ adj[a].status # "NONE"
                              /\ txn[t].plan[a].amount <= adj[a].remaining - reserved[a]
      /\ \A a \in Carried : txn[t].plan[a].amount > 0
  BY <1>1 DEF IInv, TransactionOK, LocksHeld, LockedFigures, Holds
<1>4. /\ cycleStatus'[c] = "ARCHIVED" /\ cycleStatus'[next] = "DRAFT"
      /\ \A d \in Cycles : d \notin {c, next} => cycleStatus'[d] = cycleStatus[d]
      /\ cycleStatus' \in [Cycles -> {"NONE", "DRAFT", "RELEASED", "ARCHIVED"}]
  BY <1>1, <1>2 DEF IInv, TypeOK
<1>5. \A a \in Adjustments : adj[a].remaining \in Nat /\ reserved[a] \in Nat
  BY DEF IInv, TypeOK, AdjRecord
<1>6. /\ reserved' \in [Adjustments -> Nat]
      /\ \A a \in Carried : reserved'[a] = reserved[a] + txn[t].plan[a].amount
      /\ \A a \in Adjustments \ Carried : reserved'[a] = reserved[a]
  BY <1>1, <1>2, <1>3, <1>5
<1>7. /\ mat' \in [Adjustments -> [Cycles -> MatRecord]]
      /\ \A a \in Carried : /\ mat'[a][next].status = "ACTIVE"
                             /\ mat'[a][next].amount = txn[t].plan[a].amount
                             /\ \A d \in Cycles : d # next => mat'[a][d] = mat[a][d]
      /\ \A a \in Adjustments \ Carried : mat'[a] = mat[a]
  <2>1. \A a \in Carried : held(a) \in MatRecord
    BY <1>2, <1>3 DEF MatRecord
  <2>2. mat \in [Adjustments -> [Cycles -> MatRecord]]
    BY DEF IInv, TypeOK
  <2> QED
    BY <1>1, <1>2, <1>3, <2>1, <2>2
<1> HIDE DEF Carried
<1>8. RowTypes'
  <2>1. entry' \in [Cycles -> [Employees -> EntryRecord]]
    BY <1>1, <1>2 DEF IInv, TypeOK
  <2> QED
    BY <1>1, <1>4, <1>6, <1>7, <2>1 DEF IInv, TypeOK, RowTypes
<1>9. RowsOK'
  <2>1. OneCurrentCycle'
    <3> SUFFICES ASSUME NEW d \in Cycles, NEW f \in Cycles, d < f, cycleStatus'[f] # "NONE"
                 PROVE  cycleStatus'[d] = "ARCHIVED"
      BY DEF OneCurrentCycle
    <3>1. d \in Nat /\ f \in Nat
      BY DEF Cycles
    <3>2. CASE f = next
      BY <1>2, <1>4, <3>1, <3>2 DEF IInv, RowsOK, OneCurrentCycle
    <3>3. CASE f = c
      BY <1>2, <1>4, <3>1, <3>3 DEF IInv, RowsOK, OneCurrentCycle
    <3>4. CASE f \notin {c, next}
      BY <1>1, <1>2, <1>4, <3>1, <3>4 DEF IInv, RowsOK, OneCurrentCycle
    <3> QED
      BY <3>2, <3>3, <3>4
  <2>2. RowsWellFounded'
    BY <1>1, <1>2, <1>3, <1>4, <1>6, <1>7 DEF IInv, RowsOK, RowsWellFounded
  <2>3. DraftReservationsCounted'
    <3> SUFFICES ASSUME NEW a \in Adjustments, NEW d \in Cycles, mat'[a][d].status = "ACTIVE"
                 PROVE  /\ mat'[a][d].amount > 0
                        /\ cycleStatus'[d] = "DRAFT" => mat'[a][d].amount <= reserved'[a]
      BY DEF DraftReservationsCounted
    <3>1. CASE a \in Carried /\ d = next
      BY <1>2, <1>3, <1>5, <1>6, <1>7, <3>1
    <3>2. CASE ~(a \in Carried /\ d = next)
      <4>1. /\ mat'[a][d] = mat[a][d] /\ mat[a][d].amount \in Nat
        BY <1>7, <3>2 DEF IInv, TypeOK, MatRecord
      <4>2. d # next
        BY <1>1, <1>2, <4>1 DEF IInv, RowsOK, RowsWellFounded
      <4>3. cycleStatus'[d] = "DRAFT" => cycleStatus[d] = "DRAFT"
        BY <1>4, <4>2
      <4>4. reserved[a] \in Nat /\ reserved'[a] \in Nat /\ reserved[a] <= reserved'[a]
        BY <1>2, <1>3, <1>5, <1>6
      <4> QED
        BY <4>1, <4>3, <4>4 DEF IInv, RowsOK, DraftReservationsCounted
    <3> QED
      BY <3>1, <3>2
  <2>4. ReservationsCovered'
    <3> SUFFICES ASSUME NEW a \in Adjustments PROVE reserved'[a] <= adj'[a].remaining
      BY DEF ReservationsCovered
    <3>1. adj' = adj
      BY <1>1
    <3>2. CASE a \in Carried
      BY <1>2, <1>3, <1>5, <1>6, <3>1, <3>2
    <3>3. CASE a \notin Carried
      BY <1>6, <3>1, <3>3 DEF IInv, RowsOK, ReservationsCovered
    <3> QED
      BY <3>2, <3>3
  <2> QED
    BY <2>1, <2>2, <2>3, <2>4 DEF RowsOK
<1>10. /\ LockTypes' /\ \A u \in Txns \ {t} : LocksKept(u)
       /\ Becomes(t, Idle) /\ TransactionOK(t)'
  BY <1>1, Ended DEF IInv
<1>11. ASSUME NEW u \in Txns \ {t}, txn'[u] = txn[u] PROVE Undisturbed(u)
  <2>1. \A d \in Cycles : cycleLock[d] = u /\ cycleStatus[d] \in {"DRAFT", "RELEASED"}
                             => cycleStatus'[d] = cycleStatus[d]
    BY <1>1, <1>2, <1>4
  <2>2. \A b \in Holds(u) : b \in Adjustments \ Carried
    BY <1>3 DEF Holds
  <2> QED
    BY <1>1, <1>6, <1>7, <1>10, <1>11, <2>1, <2>2 DEF LocksKept, Undisturbed
<1> QED
  BY <1>8, <1>9, <1>10, <1>11, IdleType, ComposedStep

(* What a sweep decided from the rows it read. *)
LEMMA SweptTypes ==
  ASSUME TypeOK, NEW t \in Txns, NEW e \in Employees
  PROVE  /\ SweptNet(t, e) \in Int
         /\ SweptOutcome(t, e) \in Outcomes
         /\ e \in RecoveryDue(t) => -SweptNet(t, e) \in Nat \ {0}
<1> DEFINE row == txn[t].read[e]
<1>1. row \in EntryRecord
  BY DEF TypeOK, TxnRecord
<1>2. Net(row) \in Int /\ row.recovery \in Nat
  BY <1>1, NetType
<1>3. SweptNet(t, e) \in Int
  <2> DEFINE net      == Net(row)
             recovery == row.recovery
  <2>1. SweptNet(t, e) = AdjustedNet(net, recovery)
    BY DEF SweptNet
  <2> HIDE DEF net, recovery
  <2>2. net \in Int /\ recovery \in Nat
    BY <1>2 DEF net, recovery
  <2>3. AdjustedNet(net, recovery) = net + recovery - CappedRecovery(net, recovery)
    BY <2>2, CappedRecoveryBounds
  <2>4. CappedRecovery(net, recovery) \in Nat
    BY <2>2, CappedRecoveryBounds
  <2> QED
    BY <2>1, <2>2, <2>3, <2>4
<1>4. SweptOutcome(t, e) \in Outcomes
  BY DEF SweptOutcome, PayoutOutcome, Outcomes
<1>5. SweptOutcome(t, e) = "RECOVERY_DUE" => SweptNet(t, e) < 0
  BY <1>3 DEF SweptOutcome, PayoutOutcome
<1> QED
  BY <1>3, <1>4, <1>5 DEF RecoveryDue

LEMMA NewRecoveryType ==
  ASSUME TypeOK, NEW t \in Txns, NEW e \in RecoveryDue(t)
  PROVE  /\ NewRecovery(t, e) \in AdjRecord
         /\ NewRecovery(t, e).status = "PENDING"
         /\ NewRecovery(t, e).employee \in Employees
         /\ NewRecovery(t, e).amount = -SweptNet(t, e)
         /\ NewRecovery(t, e).remaining = -SweptNet(t, e)
         /\ -SweptNet(t, e) \in Nat \ {0}
<1>1. e \in Employees
  BY DEF RecoveryDue, TypeOK, TxnRecord
<1>2. -SweptNet(t, e) \in Nat \ {0}
  BY <1>1, SweptTypes
<1> QED
  BY <1>1, <1>2 DEF NewRecovery, NewAdjustment, AdjRecord

(* What one adjustment becomes when a release commits. *)
LEMMA ReleaseOfOne ==
  ASSUME IInv, NEW t \in Txns, NEW origin \in [RecoveryDue(t) -> Adjustments],
         CommitRelease(t, origin), NEW a \in Adjustments
  PROVE  LET c == txn[t].cycle
             n == txn[t].plan[a].amount
         IN
         \/ /\ a \in Consumed(t)
            /\ adj[a].status # "NONE" /\ mat[a][c].status = "ACTIVE"
            /\ n \in Nat /\ 0 < n /\ n <= mat[a][c].amount
            /\ mat[a][c].amount <= reserved[a]
            /\ adj'[a] = Reduced(adj[a], n)
            /\ settlement'[a] = [settlement[a] EXCEPT ![c] = n]
            /\ mat'[a] = [mat[a] EXCEPT ![c] = [mat[a][c] EXCEPT !.status = "CONSUMED"]]
            /\ reserved'[a] = reserved[a] - mat[a][c].amount
         \/ /\ a \in Holds(t) \ Consumed(t)
            /\ adj[a].status # "NONE" /\ mat[a][c].status = "ACTIVE"
            /\ mat[a][c].amount <= reserved[a]
            /\ adj'[a] = adj[a] /\ settlement'[a] = settlement[a]
            /\ mat'[a] = [mat[a] EXCEPT ![c] = [mat[a][c] EXCEPT !.status = "CANCELLED"]]
            /\ reserved'[a] = reserved[a] - mat[a][c].amount
         \/ /\ a \notin Holds(t) /\ adj[a].status = "NONE"
            /\ \E e \in RecoveryDue(t) : adj'[a] = NewRecovery(t, e)
            /\ settlement'[a] = settlement[a] /\ mat'[a] = mat[a] /\ reserved'[a] = reserved[a]
         \/ /\ a \notin Holds(t)
            /\ adj'[a] = adj[a] /\ settlement'[a] = settlement[a]
            /\ mat'[a] = mat[a] /\ reserved'[a] = reserved[a]
<1> DEFINE c == txn[t].cycle
           n == txn[t].plan[a].amount
           OriginOf == CHOOSE e \in RecoveryDue(t) : origin[e] = a
<1>1. /\ txn[t].kind = "release" /\ txn[t].pc = "consume"
      /\ \A b \in Holds(t) : mat[b][c].status = "ACTIVE"
      /\ \A e \in RecoveryDue(t) : adj[origin[e]].status = "NONE"
      /\ adj'[a] = IF a \in Consumed(t) THEN Reduced(adj[a], n)
                   ELSE IF \E e \in RecoveryDue(t) : origin[e] = a
                          THEN NewRecovery(t, OriginOf)
                          ELSE adj[a]
      /\ settlement'[a] = IF a \in Consumed(t) THEN [settlement[a] EXCEPT ![c] = n]
                                               ELSE settlement[a]
      /\ mat'[a] = IF a \in Holds(t)
                     THEN [mat[a] EXCEPT ![c] = [mat[a][c] EXCEPT
                             !.status = IF a \in Consumed(t) THEN "CONSUMED" ELSE "CANCELLED"]]
                     ELSE mat[a]
      /\ reserved'[a] = IF a \in Holds(t) THEN reserved[a] - mat[a][c].amount ELSE reserved[a]
  <2>1. /\ txn[t].kind = "release" /\ txn[t].pc = "consume"
        /\ \A b \in Holds(t) : mat[b][c].status = "ACTIVE"
        /\ \A e \in RecoveryDue(t) : adj[origin[e]].status = "NONE"
    BY DEF CommitRelease
  <2>2. adj'[a] = IF a \in Consumed(t) THEN Reduced(adj[a], n)
                  ELSE IF \E e \in RecoveryDue(t) : origin[e] = a
                         THEN NewRecovery(t, OriginOf)
                         ELSE adj[a]
    BY Zenon DEF CommitRelease
  <2>3. settlement'[a] = IF a \in Consumed(t) THEN [settlement[a] EXCEPT ![c] = n]
                                               ELSE settlement[a]
    BY Zenon DEF CommitRelease
  <2>4. mat'[a] = IF a \in Holds(t)
                     THEN [mat[a] EXCEPT ![c] = [mat[a][c] EXCEPT
                             !.status = IF a \in Consumed(t) THEN "CONSUMED" ELSE "CANCELLED"]]
                     ELSE mat[a]
    BY Zenon DEF CommitRelease
  <2>5. reserved'[a] = IF a \in Holds(t) THEN reserved[a] - mat[a][c].amount ELSE reserved[a]
    BY Zenon DEF CommitRelease
  <2> QED
    BY <2>1, <2>2, <2>3, <2>4, <2>5
<1>2. c \in Cycles /\ n \in Nat /\ cycleStatus[c] = "DRAFT"
  <2>1. txn[t] \in TxnRecord
    BY DEF IInv, TypeOK
  <2> QED
    BY <1>1, <2>1 DEF TxnRecord, PlanRecord, IInv, TransactionOK, LockedCycle
<1>3. a \in Holds(t) => /\ adj[a].status # "NONE" /\ mat[a][c].status = "ACTIVE"
                        /\ n <= mat[a][c].amount /\ mat[a][c].amount <= reserved[a]
  BY <1>1, <1>2 DEF IInv, TransactionOK, LocksHeld, LockedFigures, RowsOK,
                   DraftReservationsCounted
<1>4. a \in Consumed(t) => a \in Holds(t) /\ 0 < n
  BY DEF Consumed
<1>5. (\E e \in RecoveryDue(t) : origin[e] = a)
         => OriginOf \in RecoveryDue(t) /\ origin[OriginOf] = a
  OBVIOUS
<1> HIDE DEF OriginOf
<1>6. CASE a \in Consumed(t)
  BY <1>1, <1>2, <1>3, <1>4, <1>6
<1>7. CASE a \in Holds(t) \ Consumed(t)
  <2>1. ~ \E e \in RecoveryDue(t) : origin[e] = a
    BY <1>1, <1>3, <1>7
  <2> QED
    BY <1>1, <1>3, <1>7, <2>1
<1>8. CASE a \notin Holds(t)
  BY <1>1, <1>4, <1>5, <1>8
<1> QED
  BY <1>6, <1>7, <1>8

LEMMA CommitReleaseStep ==
  ASSUME IInv, NEW t \in Txns, NEW origin \in [RecoveryDue(t) -> Adjustments],
         CommitRelease(t, origin)
  PROVE  IInv'
<1> DEFINE c == txn[t].cycle
           n(a) == txn[t].plan[a].amount
<1>1. /\ End(t) /\ UNCHANGED <<cycleStatus, departed>>
      /\ adj' = [a \in Adjustments |-> adj'[a]]
      /\ settlement' = [a \in Adjustments |-> settlement'[a]]
      /\ mat' = [a \in Adjustments |-> mat'[a]]
      /\ reserved' = [a \in Adjustments |-> reserved'[a]]
  BY Zenon DEF CommitRelease
<1>2. /\ txn[t] \in TxnRecord /\ c \in Cycles /\ cycleStatus[c] = "DRAFT"
      /\ adj \in [Adjustments -> AdjRecord] /\ reserved \in [Adjustments -> Nat]
      /\ mat \in [Adjustments -> [Cycles -> MatRecord]]
      /\ settlement \in [Adjustments -> [Cycles -> Nat]]
      /\ entry \in [Cycles -> [Employees -> EntryRecord]]
  <2>1. txn[t].kind = "release" /\ txn[t].pc = "consume"
    BY DEF CommitRelease
  <2> QED
    BY <2>1 DEF IInv, TypeOK, TxnRecord, TransactionOK, LockedCycle
<1>3. \A a \in Adjustments : /\ adj[a].remaining \in Nat /\ reserved[a] \in Nat
                             /\ reserved[a] <= adj[a].remaining /\ mat[a][c].amount \in Nat
                             /\ adj[a].amount \in Nat
  BY <1>2 DEF IInv, RowsOK, ReservationsCovered, AdjRecord, MatRecord
<1>4. \A a \in Adjustments :
         \/ /\ a \in Holds(t) /\ adj[a].status # "NONE" /\ adj'[a].status # "NONE"
            /\ adj'[a] \in AdjRecord /\ adj'[a].employee = adj[a].employee
            /\ reserved'[a] = reserved[a] - mat[a][c].amount /\ reserved'[a] \in Nat
            /\ reserved'[a] <= adj'[a].remaining
            /\ mat'[a] \in [Cycles -> MatRecord] /\ settlement'[a] \in [Cycles -> Nat]
            /\ mat'[a][c].status # "ACTIVE" /\ mat'[a][c].status # "NONE"
            /\ \A d \in Cycles : d # c => mat'[a][d] = mat[a][d]
         \/ /\ a \notin Holds(t) /\ adj[a].status = "NONE" /\ adj'[a] \in AdjRecord
            /\ adj'[a].status # "NONE" /\ adj'[a].employee \in Employees
            /\ reserved'[a] = reserved[a] /\ mat'[a] = mat[a] /\ settlement'[a] = settlement[a]
         \/ /\ a \notin Holds(t) /\ adj'[a] = adj[a]
            /\ reserved'[a] = reserved[a] /\ mat'[a] = mat[a] /\ settlement'[a] = settlement[a]
  <2> SUFFICES ASSUME NEW a \in Adjustments
               PROVE  \/ /\ a \in Holds(t) /\ adj[a].status # "NONE" /\ adj'[a].status # "NONE"
                         /\ adj'[a] \in AdjRecord /\ adj'[a].employee = adj[a].employee
                         /\ reserved'[a] = reserved[a] - mat[a][c].amount
                         /\ reserved'[a] \in Nat /\ reserved'[a] <= adj'[a].remaining
                         /\ mat'[a] \in [Cycles -> MatRecord]
                         /\ settlement'[a] \in [Cycles -> Nat]
                         /\ mat'[a][c].status # "ACTIVE" /\ mat'[a][c].status # "NONE"
                         /\ \A d \in Cycles : d # c => mat'[a][d] = mat[a][d]
                      \/ /\ a \notin Holds(t) /\ adj[a].status = "NONE" /\ adj'[a] \in AdjRecord
                         /\ adj'[a].status # "NONE" /\ adj'[a].employee \in Employees
                         /\ reserved'[a] = reserved[a] /\ mat'[a] = mat[a]
                         /\ settlement'[a] = settlement[a]
                      \/ /\ a \notin Holds(t) /\ adj'[a] = adj[a]
                         /\ reserved'[a] = reserved[a] /\ mat'[a] = mat[a]
                         /\ settlement'[a] = settlement[a]
    OBVIOUS
  <2>1. CASE /\ a \in Consumed(t)
             /\ adj[a].status # "NONE" /\ mat[a][c].status = "ACTIVE"
             /\ n(a) \in Nat /\ 0 < n(a) /\ n(a) <= mat[a][c].amount
             /\ mat[a][c].amount <= reserved[a]
             /\ adj'[a] = Reduced(adj[a], n(a))
             /\ settlement'[a] = [settlement[a] EXCEPT ![c] = n(a)]
             /\ mat'[a] = [mat[a] EXCEPT ![c] = [mat[a][c] EXCEPT !.status = "CONSUMED"]]
             /\ reserved'[a] = reserved[a] - mat[a][c].amount
    <3>1. a \in Holds(t)
      BY <2>1 DEF Consumed
    <3>2. /\ adj'[a] \in AdjRecord /\ adj'[a].remaining = adj[a].remaining - n(a)
          /\ adj'[a].status # "NONE" /\ adj'[a].employee = adj[a].employee
      <4>1. adj[a] \in AdjRecord /\ n(a) \in Nat /\ n(a) <= adj[a].remaining
        BY <1>2, <1>3, <2>1
      <4> QED
        BY <2>1, <4>1, ReducedType
    <3>3. reserved'[a] \in Nat /\ reserved'[a] <= adj'[a].remaining
      BY <1>3, <2>1, <3>2
    <3>4. settlement'[a] \in [Cycles -> Nat]
      BY <1>2, <2>1
    <3>5. /\ mat'[a] \in [Cycles -> MatRecord] /\ mat'[a][c].status = "CONSUMED"
          /\ \A d \in Cycles : d # c => mat'[a][d] = mat[a][d]
      <4> DEFINE row == [mat[a][c] EXCEPT !.status = "CONSUMED"]
      <4>1. mat'[a] = [mat[a] EXCEPT ![c] = row]
        BY <2>1
      <4>2. row \in MatRecord /\ row.status = "CONSUMED"
        <5>1. mat[a][c] \in MatRecord
          BY <1>2
        <5> QED
          BY <5>1, StatusType
      <4> HIDE DEF row
      <4> QED
        BY <1>2, <4>1, <4>2
    <3> QED
      BY <2>1, <3>1, <3>2, <3>3, <3>4, <3>5
  <2>2. CASE /\ a \in Holds(t) \ Consumed(t)
             /\ adj[a].status # "NONE" /\ mat[a][c].status = "ACTIVE"
             /\ mat[a][c].amount <= reserved[a]
             /\ adj'[a] = adj[a] /\ settlement'[a] = settlement[a]
             /\ mat'[a] = [mat[a] EXCEPT ![c] = [mat[a][c] EXCEPT !.status = "CANCELLED"]]
             /\ reserved'[a] = reserved[a] - mat[a][c].amount
    <3>1. /\ mat'[a] \in [Cycles -> MatRecord]
          /\ mat'[a][c].status = "CANCELLED"
          /\ \A d \in Cycles : d # c => mat'[a][d] = mat[a][d]
      BY <1>2, <2>2 DEF MatRecord
    <3> QED
      BY <1>2, <1>3, <2>2, <3>1
  <2>3. CASE /\ a \notin Holds(t) /\ adj[a].status = "NONE"
             /\ \E e \in RecoveryDue(t) : adj'[a] = NewRecovery(t, e)
             /\ settlement'[a] = settlement[a] /\ mat'[a] = mat[a] /\ reserved'[a] = reserved[a]
    BY <2>3, NewRecoveryType DEF IInv
  <2>4. CASE /\ a \notin Holds(t)
             /\ adj'[a] = adj[a] /\ settlement'[a] = settlement[a]
             /\ mat'[a] = mat[a] /\ reserved'[a] = reserved[a]
    BY <2>4
  <2> QED
    BY <2>1, <2>2, <2>3, <2>4, ReleaseOfOne
<1>5. RowTypes'
  <2>1. \A a \in Adjustments : adj'[a] \in AdjRecord /\ reserved'[a] \in Nat
    BY <1>2, <1>4
  <2>2. \A a \in Adjustments : mat'[a] \in [Cycles -> MatRecord]
                               /\ settlement'[a] \in [Cycles -> Nat]
    BY <1>2, <1>4
  <2>3. entry' \in [Cycles -> [Employees -> EntryRecord]]
    <3>1. \A e \in Employees :
             [entry[c][e] EXCEPT !.outcome = SweptOutcome(t, e), !.net = SweptNet(t, e)]
               \in EntryRecord
      <4> SUFFICES ASSUME NEW e \in Employees
                   PROVE  [entry[c][e] EXCEPT !.outcome = SweptOutcome(t, e),
                                              !.net     = SweptNet(t, e)] \in EntryRecord
        OBVIOUS
      <4>1. /\ SweptOutcome(t, e) \in Outcomes /\ SweptNet(t, e) \in Int
            /\ entry[c][e] \in EntryRecord
        BY <1>2, SweptTypes DEF IInv
      <4> QED
        BY <4>1, ResolvedType
    <3>2. entry' = [entry EXCEPT ![c] = [e \in Employees |->
                      IF e \in txn[t].chosen
                        THEN [entry[c][e] EXCEPT !.outcome = SweptOutcome(t, e),
                                                 !.net     = SweptNet(t, e)]
                        ELSE entry[c][e]]]
      BY DEF CommitRelease
    <3> QED
      BY <1>2, <3>1, <3>2
  <2> QED
    BY <1>1, <2>1, <2>2, <2>3 DEF IInv, TypeOK, RowTypes
<1>6. RowsOK'
  <2>1. OneCurrentCycle'
    BY <1>1 DEF IInv, RowsOK, OneCurrentCycle
  <2>2. RowsWellFounded'
    <3> SUFFICES ASSUME NEW a \in Adjustments
                 PROVE  /\ adj'[a].status = "NONE" =>
                              /\ adj'[a].amount = 0 /\ adj'[a].remaining = 0
                              /\ reserved'[a] = 0
                        /\ adj'[a].status # "NONE" => adj'[a].employee \in Employees
                        /\ \A d \in Cycles : mat'[a][d].status # "NONE" =>
                              adj'[a].status # "NONE" /\ cycleStatus'[d] # "NONE"
      BY DEF RowsWellFounded
    <3>1. /\ adj[a].status = "NONE" => adj[a].amount = 0 /\ adj[a].remaining = 0 /\ reserved[a] = 0
          /\ adj[a].status # "NONE" => adj[a].employee \in Employees
          /\ \A d \in Cycles : mat[a][d].status # "NONE" =>
                                 adj[a].status # "NONE" /\ cycleStatus[d] # "NONE"
      BY DEF IInv, RowsOK, RowsWellFounded
    <3>2. CASE a \in Holds(t)
      BY <1>1, <1>2, <1>4, <3>1, <3>2
    <3>3. CASE a \notin Holds(t) /\ adj[a].status = "NONE" /\ adj'[a].status # "NONE"
               /\ adj'[a].employee \in Employees /\ mat'[a] = mat[a]
      BY <1>1, <3>1, <3>3
    <3>4. CASE a \notin Holds(t) /\ adj'[a] = adj[a] /\ mat'[a] = mat[a]
               /\ reserved'[a] = reserved[a]
      BY <1>1, <3>1, <3>4
    <3> QED
      BY <1>4, <3>2, <3>3, <3>4
  <2>3. DraftReservationsCounted'
    <3> SUFFICES ASSUME NEW a \in Adjustments, NEW d \in Cycles, mat'[a][d].status = "ACTIVE"
                 PROVE  /\ mat'[a][d].amount > 0
                        /\ cycleStatus'[d] = "DRAFT" => mat'[a][d].amount <= reserved'[a]
      BY DEF DraftReservationsCounted
    <3>1. CASE a \in Holds(t)
      <4>1. d # c /\ mat'[a][d] = mat[a][d]
        BY <1>4, <3>1
      <4>2. cycleStatus[d] # "DRAFT"
        <5>1. c \in Nat /\ d \in Nat
          BY <1>2 DEF Cycles
        <5>2. c < d \/ d < c
          BY <4>1, <5>1
        <5> QED
          BY <1>2, <5>2 DEF IInv, RowsOK, OneCurrentCycle
      <4> QED
        BY <1>1, <4>1, <4>2 DEF IInv, RowsOK, DraftReservationsCounted
    <3>2. CASE a \notin Holds(t)
      BY <1>1, <1>4, <3>2 DEF IInv, RowsOK, DraftReservationsCounted
    <3> QED
      BY <3>1, <3>2
  <2>4. ReservationsCovered'
    <3> SUFFICES ASSUME NEW a \in Adjustments PROVE reserved'[a] <= adj'[a].remaining
      BY DEF ReservationsCovered
    <3>1. CASE a \in Holds(t)
      BY <1>4, <3>1
    <3>2. CASE a \notin Holds(t) /\ adj[a].status = "NONE" /\ reserved'[a] = reserved[a]
               /\ adj'[a] \in AdjRecord
      BY <3>2 DEF IInv, RowsOK, RowsWellFounded, AdjRecord
    <3>3. CASE a \notin Holds(t) /\ adj'[a] = adj[a] /\ reserved'[a] = reserved[a]
      BY <1>3, <3>3
    <3> QED
      BY <1>4, <3>1, <3>2, <3>3
  <2> QED
    BY <2>1, <2>2, <2>3, <2>4 DEF RowsOK
<1>7. /\ LockTypes' /\ \A u \in Txns \ {t} : LocksKept(u)
      /\ Becomes(t, Idle) /\ TransactionOK(t)'
  BY <1>1, Ended DEF IInv
<1>8. ASSUME NEW u \in Txns \ {t}, txn'[u] = txn[u] PROVE Undisturbed(u)
  <2>1. \A a \in Holds(u) : /\ a \in Adjustments /\ a \notin Holds(t)
                            /\ adj[a].status # "NONE"
    BY DEF Holds, IInv, TransactionOK, LocksHeld
  <2>2. \A a \in Holds(u) : adj'[a] = adj[a] /\ reserved'[a] = reserved[a] /\ mat'[a] = mat[a]
    BY <1>4, <2>1
  <2>3. \A a \in Adjustments : adj[a].status # "NONE" => adj'[a].status # "NONE"
    BY <1>4
  <2> QED
    BY <1>1, <1>7, <1>8, <2>2, <2>3 DEF LocksKept, Undisturbed
<1> QED
  BY <1>5, <1>6, <1>7, <1>8, IdleType, ComposedStep

-----------------------------------------------------------------------------
(* The edits of other modules. *)

LEMMA EditComposed ==
  ASSUME IInv, UNCHANGED <<cycleStatus, mat, reserved, locks, txn>>, RowTypes', RowsOK',
         \A a \in Adjustments : adj[a].status # "NONE" => adj'[a] = adj[a]
  PROVE  IInv'
<1>1. TypeOK'
  BY DEF IInv, TypeOK, RowTypes, locks
<1>2. ASSUME NEW u \in Txns PROVE TransactionOK(u)'
  <2>1. Holds(u)' = Holds(u)
    BY DEF Holds, locks
  <2>2. \A a \in Holds(u) : a \in Adjustments /\ adj[a].status # "NONE"
    BY DEF IInv, TransactionOK, LocksHeld, Holds
  <2>3. Undisturbed(u)
    BY <2>1, <2>2 DEF Undisturbed, locks
  <2> QED
    BY <2>3, UndisturbedOK DEF IInv
<1> QED
  BY <1>1, <1>2 DEF IInv

(* An edit that only changes payroll entries or the roster. *)
LEMMA EntriesEdited ==
  ASSUME IInv, UNCHANGED <<cycleStatus, adj, mat, settlement, reserved, locks, txn>>,
         entry' \in [Cycles -> [Employees -> EntryRecord]], departed' \in SUBSET Employees
  PROVE  IInv'
<1>1. RowTypes'
  BY DEF IInv, TypeOK, RowTypes
<1>2. RowsOK'
  BY DEF IInv, RowsOK, OneCurrentCycle, RowsWellFounded, DraftReservationsCounted,
         ReservationsCovered
<1> QED
  BY <1>1, <1>2, EditComposed

LEMMA ApproveCorrectionStep ==
  ASSUME IInv, NEW e \in Employees, NEW a \in Adjustments, NEW p \in Proposals,
         ApproveCorrection(e, a, p)
  PROVE  IInv'
<1> DEFINE row == NewAdjustment(e, p)
<1>1. /\ adj[a].status = "NONE" /\ adj' = [adj EXCEPT ![a] = row]
      /\ UNCHANGED <<cycleStatus, entry, departed, mat, settlement, reserved, locks, txn>>
  BY DEF ApproveCorrection
<1>2. /\ row \in AdjRecord /\ row.status = "PENDING" /\ row.employee = e
  BY ProposalsAssumption DEF NewAdjustment, AdjRecord
<1> HIDE DEF row
<1>3. /\ adj' \in [Adjustments -> AdjRecord] /\ adj'[a] = row
      /\ \A b \in Adjustments : b # a => adj'[b] = adj[b]
  BY <1>1, <1>2 DEF IInv, TypeOK
<1>4. RowTypes'
  BY <1>1, <1>3 DEF IInv, TypeOK, RowTypes
<1>5. RowsWellFounded'
  BY <1>1, <1>2, <1>3 DEF IInv, RowsOK, RowsWellFounded
<1>6. ReservationsCovered'
  <2>1. reserved'[a] <= adj'[a].remaining
    BY <1>1, <1>2, <1>3 DEF IInv, RowsOK, RowsWellFounded, AdjRecord
  <2>2. \A b \in Adjustments : b # a => reserved'[b] <= adj'[b].remaining
    BY <1>1, <1>3 DEF IInv, RowsOK, ReservationsCovered
  <2> QED
    BY <2>1, <2>2 DEF ReservationsCovered
<1>7. OneCurrentCycle' /\ DraftReservationsCounted'
  BY <1>1 DEF IInv, RowsOK, OneCurrentCycle, DraftReservationsCounted
<1> QED
  BY <1>1, <1>3, <1>4, <1>5, <1>6, <1>7, EditComposed DEF RowsOK

LEMMA EditStep ==
  ASSUME IInv, Edit
  PROVE  IInv'
<1>0. entry \in [Cycles -> [Employees -> EntryRecord]] /\ departed \in SUBSET Employees
  BY DEF IInv, TypeOK
<1>1. CASE \E e \in Employees, a \in Adjustments, p \in Proposals : ApproveCorrection(e, a, p)
  BY <1>1, ApproveCorrectionStep
<1>2. CASE \E c \in Cycles, e \in Employees, v \in Earnings : EditEarnings(c, e, v)
  <2>1. PICK c \in Cycles, e \in Employees, v \in Earnings : EditEarnings(c, e, v)
    BY <1>2
  <2> DEFINE row == [entry[c][e] EXCEPT !.earnings = v]
  <2>2. entry' = [entry EXCEPT ![c][e] = row]
        /\ UNCHANGED <<cycleStatus, departed, adj, mat, settlement, reserved, locks, txn>>
    BY <2>1 DEF EditEarnings
  <2>3. row \in EntryRecord
    BY <1>0, EarningsAssumption, EditedType
  <2> HIDE DEF row
  <2>4. entry' \in [Cycles -> [Employees -> EntryRecord]] /\ departed' \in SUBSET Employees
    BY <1>0, <2>2, <2>3
  <2> QED
    BY <2>2, <2>4, EntriesEdited
<1>3. CASE \E c \in Cycles, e \in Employees : ToggleHold(c, e)
  <2>1. PICK c \in Cycles, e \in Employees : ToggleHold(c, e)
    BY <1>3
  <2> DEFINE row == [entry[c][e] EXCEPT !.hold = ~entry[c][e].hold]
  <2>2. entry' = [entry EXCEPT ![c][e] = row]
        /\ UNCHANGED <<cycleStatus, departed, adj, mat, settlement, reserved, locks, txn>>
    BY <2>1 DEF ToggleHold
  <2>3. row \in EntryRecord
    BY <1>0, HeldType
  <2> HIDE DEF row
  <2>4. entry' \in [Cycles -> [Employees -> EntryRecord]] /\ departed' \in SUBSET Employees
    BY <1>0, <2>2, <2>3
  <2> QED
    BY <2>2, <2>4, EntriesEdited
<1>4. CASE \E e \in Leavers : MarkLeft(e)
  <2>1. PICK e \in Employees : MarkLeft(e)
    BY <1>4, LeaversAssumption
  <2>2. /\ entry' = [c \in Cycles |-> [entry[c] EXCEPT ![e] = AfterLeaving(c, e)]]
        /\ departed' = departed \cup {e}
        /\ UNCHANGED <<cycleStatus, adj, mat, settlement, reserved, locks, txn>>
    BY <2>1 DEF MarkLeft
  <2>3. ASSUME NEW c \in Cycles PROVE AfterLeaving(c, e) \in EntryRecord
    <3>1. entry[c][e] \in EntryRecord
      BY <1>0
    <3>2. [entry[c][e] EXCEPT !.hold = TRUE] \in EntryRecord
      BY <3>1, HeldType
    <3> QED
      BY <3>1, <3>2, EntryTypes DEF AfterLeaving
  <2>4. entry' \in [Cycles -> [Employees -> EntryRecord]] /\ departed' \in SUBSET Employees
    BY <1>0, <2>2, <2>3
  <2> QED
    BY <2>2, <2>4, EntriesEdited
<1>5. CASE \E e \in Leavers : Reactivate(e)
  <2>1. PICK e \in Employees : Reactivate(e)
    BY <1>5, LeaversAssumption
  <2>2. /\ entry' \in [Cycles -> [Employees -> EntryRecord]]
        /\ departed' \in SUBSET Employees
        /\ UNCHANGED <<cycleStatus, adj, mat, settlement, reserved, locks, txn>>
    BY <1>0, <2>1, EntryTypes DEF Reactivate
  <2> QED
    BY <2>2, EntriesEdited
<1> QED
  BY <1>1, <1>2, <1>3, <1>4, <1>5 DEF Edit

-----------------------------------------------------------------------------
(* The theorems. *)

LEMMA InitInvariant == Init => IInv
<1> SUFFICES ASSUME Init PROVE IInv
  OBVIOUS
<1>1. 0 \in Cycles /\ Cycles \subseteq Nat
  BY LastCycleAssumption DEF Cycles
<1>2. /\ NoAdj \in AdjRecord /\ NoAdj.status = "NONE" /\ NoAdj.amount = 0
      /\ NoAdj.remaining = 0
  BY DEF NoAdj, AdjRecord
<1>3. NoMat \in MatRecord /\ NoMat.status = "NONE"
  BY DEF NoMat, MatRecord
<1>4. [FreshEntry EXCEPT !.outcome = "PAID"] \in EntryRecord
  BY EntryTypes DEF EntryRecord, Outcomes
<1>5. TypeOK
  BY <1>1, <1>2, <1>3, <1>4, EntryTypes, IdleType DEF Init, TypeOK
<1>6. OneCurrentCycle
  BY <1>1 DEF Init, OneCurrentCycle
<1>7. RowsWellFounded /\ DraftReservationsCounted /\ ReservationsCovered
  BY <1>2, <1>3 DEF Init, RowsWellFounded, DraftReservationsCounted, ReservationsCovered
<1>8. ASSUME NEW t \in Txns PROVE TransactionOK(t)
  BY NoneAssumption DEF Init, Holds, TransactionOK, LocksHeld, LockedCycle, LockedFigures, Idle
<1> QED
  BY <1>5, <1>6, <1>7, <1>8 DEF IInv, RowsOK

LEMMA StepInvariant ==
  ASSUME IInv, NEW t \in Txns, Step(t)
  PROVE  IInv'
  BY LockToPayStep, PayStandaloneStep, LockToSettleStep, SettleStep,
     LockCycleToMaterializeStep, LockCycleForCandidateStep, LockToReserveStep, ReserveStep,
     SkipStep, LockCycleToReleaseStep, UpdateEntriesStep, LockToConsumeStep,
     CommitReleaseStep, CountBlockingStep, FinalizeStepOK, ArchiveStep, LockToCarryStep,
     StartNextCycleStep DEF Step

LEMMA NextInvariant == IInv /\ [Next]_vars => IInv'
<1> SUFFICES ASSUME IInv, [Next]_vars PROVE IInv'
  OBVIOUS
<1>1. CASE \E t \in Txns : Request(t)
  BY <1>1, RequestStep
<1>2. CASE \E t \in Txns : Step(t)
  BY <1>2, StepInvariant
<1>3. CASE \E t \in Txns : Refuse(t) \/ AbortVictim(t) \/ Fail(t)
  BY <1>3, RollbackStep DEF Refuse, AbortVictim, Fail
<1>4. CASE Edit
  BY <1>4, EditStep
<1>5. CASE UNCHANGED vars
  <2>1. UNCHANGED <<cycleStatus, entry, departed, adj, mat, settlement, reserved, locks, txn>>
    BY <1>5 DEF vars, rows
  <2> QED
    BY <2>1, EntriesEdited DEF IInv, TypeOK
<1> QED
  BY <1>1, <1>2, <1>3, <1>4, <1>5 DEF Next

(* The inductive invariant holds of every reachable state: whatever a transaction     *)
(* decided under a lock is still within the figures when it commits.                  *)
THEOREM InvariantHolds == Spec => []IInv
  BY InitInvariant, NextInvariant, PTL DEF Spec

(* Every row, lock and running request keeps its type; in particular no balance, no  *)
(* reservation and no release capacity ever becomes negative.                         *)
THEOREM TypeCorrect == Spec => []TypeOK
<1>1. IInv => TypeOK
  BY DEF IInv
<1> QED
  BY <1>1, InvariantHolds, PTL

(* What draft payrolls have been promised is always still owed, for any number of     *)
(* concurrent payments, settlements, materializations, releases and rollovers.        *)
THEOREM ReservationsAlwaysCovered == Spec => []ReservationsCovered
<1>1. IInv => ReservationsCovered
  BY DEF IInv, RowsOK
<1> QED
  BY <1>1, InvariantHolds, PTL

-----------------------------------------------------------------------------
(* The ledger implements Obligation: a step that writes a balance or a reservation is,     *)
(* adjustment by adjustment, one of the abstract actions, because IInv says that what it   *)
(* decided earlier is still true; every other step is a stutter.                           *)

(* The abstract action one adjustment takes. *)
Maps(a) ==
    \/ Abstract!Keeps(a) \/ Abstract!Incurs(a) \/ Abstract!Earmarks(a)
    \/ Abstract!Discharges(a) \/ Abstract!Fulfils(a)

LEMMA MapsToNext == (\A a \in Adjustments : Maps(a)) => Abstract!ObligationNext
  BY DEF Maps, Abstract!ObligationNext

LEMMA Untouched ==
  ASSUME NEW a \in Adjustments, adj'[a] = adj[a], reserved'[a] = reserved[a]
  PROVE  Maps(a)
  BY DEF Maps, Abstract!Keeps

LEMMA DischargeMaps ==
  ASSUME IInv, NEW a \in Adjustments, NEW n \in Nat, 0 < n, n <= adj[a].remaining - reserved[a],
         adj'[a].amount = adj[a].amount, adj'[a].remaining = adj[a].remaining - n,
         reserved'[a] = reserved[a]
  PROVE  Maps(a)
<1>1. adj[a].remaining \in Nat /\ reserved[a] \in Nat
  BY DEF IInv, TypeOK, AdjRecord
<1>2. Abstract!Discharges(a)
  BY <1>1 DEF Abstract!Discharges
<1> QED
  BY <1>2 DEF Maps

LEMMA EarmarkMaps ==
  ASSUME IInv, NEW a \in Adjustments, NEW n \in Nat, 0 < n, n <= adj[a].remaining - reserved[a],
         adj'[a] = adj[a], reserved'[a] = reserved[a] + n
  PROVE  Maps(a)
<1>1. adj[a].remaining \in Nat /\ reserved[a] \in Nat
  BY DEF IInv, TypeOK, AdjRecord
<1>2. Abstract!Earmarks(a)
  BY <1>1 DEF Abstract!Earmarks
<1> QED
  BY <1>2 DEF Maps

LEMMA IncurMaps ==
  ASSUME IInv, NEW a \in Adjustments, NEW n \in Nat \ {0}, adj[a].status = "NONE",
         adj'[a].amount = n, adj'[a].remaining = n, reserved'[a] = reserved[a]
  PROVE  Maps(a)
<1>1. adj[a].amount = 0 /\ adj[a].remaining = 0 /\ reserved[a] = 0
  BY DEF IInv, RowsOK, RowsWellFounded
<1>2. Abstract!Incurs(a)
  BY <1>1 DEF Abstract!Incurs
<1> QED
  BY <1>2 DEF Maps

LEMMA FulfilMaps ==
  ASSUME IInv, NEW a \in Adjustments, NEW n \in Nat, NEW m \in Nat, n <= m, 0 < m, m <= reserved[a],
         adj'[a].amount = adj[a].amount, adj'[a].remaining = adj[a].remaining - n,
         reserved'[a] = reserved[a] - m
  PROVE  Maps(a)
<1>1. adj[a].remaining \in Nat /\ reserved[a] \in Nat
  BY DEF IInv, TypeOK, AdjRecord
<1>2. Abstract!Fulfils(a)
  BY <1>1 DEF Abstract!Fulfils
<1> QED
  BY <1>2 DEF Maps

-----------------------------------------------------------------------------
(* One lemma for each step that writes a balance or a reservation. *)

LEMMA PayStandaloneMaps ==
  ASSUME IInv, NEW t \in Txns, NEW a \in Adjustments, PayStandalone(t, a)
  PROVE  \A b \in Adjustments : Maps(b)
<1> DEFINE n   == txn[t].plan[a].amount
           row == [Reduced(adj[a], n) EXCEPT !.payment = n]
<1>1. /\ a \in Holds(t) /\ adj' = [adj EXCEPT ![a] = row] /\ reserved' = reserved
      /\ txn[t].kind = "payment" /\ txn[t].pc = "write"
  BY DEF PayStandalone
<1>2. /\ adj \in [Adjustments -> AdjRecord] /\ adj[a] \in AdjRecord /\ txn[t] \in TxnRecord
      /\ adj[a].remaining \in Nat /\ reserved[a] \in Nat
  BY DEF IInv, TypeOK, AdjRecord
<1>3. n \in Nat
  BY <1>2 DEF TxnRecord, PlanRecord
<1>4. 0 < n /\ n <= adj[a].remaining - reserved[a]
  BY <1>1 DEF IInv, TransactionOK, LockedFigures
<1>5. row.remaining = adj[a].remaining - n /\ row.amount = adj[a].amount
  <2> DEFINE reduced == Reduced(adj[a], n)
  <2>1. /\ reduced \in AdjRecord /\ reduced.remaining = adj[a].remaining - n
        /\ reduced.amount = adj[a].amount
    BY <1>2, <1>3, <1>4, ReducedType
  <2> HIDE DEF reduced
  <2>2. row = [reduced EXCEPT !.payment = n]
    BY DEF reduced
  <2> HIDE DEF row
  <2> QED
    BY <1>3, <2>1, <2>2, PaymentType
<1> HIDE DEF row, n
<1> QED
  BY <1>1, <1>2, <1>3, <1>4, <1>5, DischargeMaps, Untouched

LEMMA SettleMaps ==
  ASSUME IInv, NEW t \in Txns, NEW a \in Adjustments, Settle(t, a)
  PROVE  \A b \in Adjustments : Maps(b)
<1> DEFINE n   == txn[t].plan[a].amount
           row == Reduced(adj[a], n)
<1>1. /\ a \in Holds(t) /\ adj' = [adj EXCEPT ![a] = row] /\ reserved' = reserved
      /\ txn[t].kind = "settle" /\ txn[t].pc = "write"
  BY DEF Settle
<1>2. /\ adj \in [Adjustments -> AdjRecord] /\ adj[a] \in AdjRecord /\ txn[t] \in TxnRecord
      /\ adj[a].remaining \in Nat /\ reserved[a] \in Nat
  BY DEF IInv, TypeOK, AdjRecord
<1>3. n \in Nat
  BY <1>2 DEF TxnRecord, PlanRecord
<1>4. 0 < n /\ n <= adj[a].remaining - reserved[a]
  BY <1>1 DEF IInv, TransactionOK, LockedFigures
<1>5. row.remaining = adj[a].remaining - n /\ row.amount = adj[a].amount
  BY <1>2, <1>3, <1>4, ReducedType
<1> HIDE DEF row, n
<1> QED
  BY <1>1, <1>2, <1>3, <1>4, <1>5, DischargeMaps, Untouched

LEMMA ReserveMaps ==
  ASSUME IInv, NEW t \in Txns, NEW a \in Adjustments, Reserve(t, a)
  PROVE  \A b \in Adjustments : Maps(b)
<1> DEFINE n == txn[t].plan[a].amount
<1>1. /\ a \in Holds(t) /\ adj' = adj /\ reserved' = [reserved EXCEPT ![a] = reserved[a] + n]
      /\ txn[t].kind \in {"materialize", "batch"} /\ txn[t].pc = "write"
  BY DEF Reserve
<1>2. /\ reserved \in [Adjustments -> Nat] /\ txn[t] \in TxnRecord
  BY DEF IInv, TypeOK
<1>3. n \in Nat
  BY <1>2 DEF TxnRecord, PlanRecord
<1>4. 0 < n /\ n <= adj[a].remaining - reserved[a]
  BY <1>1 DEF IInv, TransactionOK, LockedFigures
<1> HIDE DEF n
<1> QED
  BY <1>1, <1>2, <1>3, <1>4, EarmarkMaps, Untouched

LEMMA CommitReleaseMaps ==
  ASSUME IInv, NEW t \in Txns, NEW origin \in [RecoveryDue(t) -> Adjustments],
         CommitRelease(t, origin)
  PROVE  \A b \in Adjustments : Maps(b)
<1> SUFFICES ASSUME NEW a \in Adjustments PROVE Maps(a)
  OBVIOUS
<1> DEFINE c == txn[t].cycle
           n == txn[t].plan[a].amount
           m == mat[a][c].amount
<1>1. c \in Cycles /\ m \in Nat /\ adj[a] \in AdjRecord /\ adj[a].remaining \in Nat
  <2>1. txn[t] \in TxnRecord
    BY DEF IInv, TypeOK
  <2>2. c \in Cycles
    BY <2>1 DEF TxnRecord
  <2>3. mat[a][c] \in MatRecord /\ adj[a] \in AdjRecord
    BY <2>2 DEF IInv, TypeOK
  <2> HIDE DEF c
  <2>4. m \in Nat
    BY <2>3 DEF MatRecord
  <2> HIDE DEF m
  <2>5. adj[a].remaining \in Nat
    BY <2>3 DEF AdjRecord
  <2> QED
    BY <2>2, <2>3, <2>4, <2>5
<1>2. mat[a][c].status = "ACTIVE" => 0 < m
  BY <1>1 DEF IInv, RowsOK, DraftReservationsCounted
<1>3. reserved[a] <= adj[a].remaining /\ reserved[a] \in Nat
  BY DEF IInv, TypeOK, RowsOK, ReservationsCovered
<1>4. CASE /\ mat[a][c].status = "ACTIVE" /\ n \in Nat /\ n <= m /\ m <= reserved[a]
           /\ adj'[a] = Reduced(adj[a], n) /\ reserved'[a] = reserved[a] - m
  <2>1. n <= adj[a].remaining
    BY <1>1, <1>3, <1>4
  <2>2. adj'[a].remaining = adj[a].remaining - n /\ adj'[a].amount = adj[a].amount
    BY <1>1, <1>4, <2>1, ReducedType
  <2> QED
    BY <1>1, <1>2, <1>4, <2>2, FulfilMaps
<1>5. CASE /\ mat[a][c].status = "ACTIVE" /\ m <= reserved[a]
           /\ adj'[a] = adj[a] /\ reserved'[a] = reserved[a] - m
  <2>1. adj'[a].remaining = adj[a].remaining - 0 /\ adj'[a].amount = adj[a].amount
    BY <1>1, <1>5
  <2> HIDE DEF n, m
  <2>2. 0 \in Nat /\ 0 <= m /\ 0 < m /\ m <= reserved[a] /\ m \in Nat
    BY <1>1, <1>2, <1>5
  <2>3. reserved'[a] = reserved[a] - m
    BY <1>5
  <2> QED
    BY <2>1, <2>2, <2>3, FulfilMaps
<1>6. CASE /\ adj[a].status = "NONE" /\ \E e \in RecoveryDue(t) : adj'[a] = NewRecovery(t, e)
           /\ reserved'[a] = reserved[a]
  BY <1>6, NewRecoveryType, IncurMaps DEF IInv
<1>7. CASE adj'[a] = adj[a] /\ reserved'[a] = reserved[a]
  BY <1>7, Untouched
<1> QED
  BY <1>4, <1>5, <1>6, <1>7, ReleaseOfOne

LEMMA StartNextCycleMaps ==
  ASSUME IInv, NEW t \in Txns, StartNextCycle(t)
  PROVE  \A b \in Adjustments : Maps(b)
<1> DEFINE Carried == {a \in Holds(t) : txn[t].plan[a].amount > 0}
<1>1. /\ adj' = adj
      /\ reserved' = [a \in Adjustments |->
                        IF a \in Carried THEN reserved[a] + txn[t].plan[a].amount
                                         ELSE reserved[a]]
      /\ txn[t].kind = "rollover" /\ txn[t].pc = "carry"
  BY DEF StartNextCycle
<1>2. \A a \in Adjustments : txn[t].plan[a].amount \in Nat
  <2>1. txn[t] \in TxnRecord
    BY DEF IInv, TypeOK
  <2> QED
    BY <2>1 DEF TxnRecord, PlanRecord
<1>3. \A a \in Carried : /\ 0 < txn[t].plan[a].amount
                        /\ txn[t].plan[a].amount <= adj[a].remaining - reserved[a]
  BY <1>1 DEF IInv, TransactionOK, LockedFigures
<1> HIDE DEF Carried
<1> QED
  BY <1>1, <1>2, <1>3, EarmarkMaps, Untouched

LEMMA ApproveCorrectionMaps ==
  ASSUME IInv, NEW e \in Employees, NEW a \in Adjustments, NEW p \in Proposals,
         ApproveCorrection(e, a, p)
  PROVE  \A b \in Adjustments : Maps(b)
<1> DEFINE row == NewAdjustment(e, p)
<1>1. adj[a].status = "NONE" /\ adj' = [adj EXCEPT ![a] = row] /\ reserved' = reserved
  BY DEF ApproveCorrection
<1>2. p.amount \in Nat \ {0} /\ row.amount = p.amount /\ row.remaining = p.amount
  BY ProposalsAssumption DEF NewAdjustment
<1>3. adj \in [Adjustments -> AdjRecord]
  BY DEF IInv, TypeOK
<1> HIDE DEF row
<1> QED
  BY <1>1, <1>2, <1>3, IncurMaps, Untouched

-----------------------------------------------------------------------------
(* Every step of the ledger is a step of Obligation, or changes nothing it sees. *)
LEMMA StepMaps ==
  ASSUME IInv, [Next]_vars
  PROVE  \A a \in Adjustments : Maps(a)
<1>1. CASE UNCHANGED <<adj, reserved>>
  BY <1>1, Untouched
<1>2. CASE \E t \in Txns : Request(t)
  <2>1. UNCHANGED <<adj, reserved>>
    BY <1>2 DEF Request, RequestPayment, RequestSettlement, RequestMaterialization,
                RequestBatch, RequestRelease, RequestFinalize, RequestRollover, Start, rows
  <2> QED
    BY <1>1, <2>1
<1>3. CASE \E t \in Txns : Refuse(t) \/ AbortVictim(t) \/ Fail(t)
  <2>1. UNCHANGED <<adj, reserved>>
    BY <1>3 DEF Refuse, AbortVictim, Fail, Rollback, rows
  <2> QED
    BY <1>1, <2>1
<1>4. CASE Edit
  <2>1. CASE \E e \in Employees, a \in Adjustments, p \in Proposals : ApproveCorrection(e, a, p)
    BY <2>1, ApproveCorrectionMaps
  <2>2. CASE ~ \E e \in Employees, a \in Adjustments, p \in Proposals :
                  ApproveCorrection(e, a, p)
    <3>1. UNCHANGED <<adj, reserved>>
      BY <1>4, <2>2 DEF Edit, EditEarnings, ToggleHold, MarkLeft, Reactivate
    <3> QED
      BY <1>1, <3>1
  <2> QED
    BY <2>1, <2>2
<1>5. ASSUME NEW t \in Txns, Step(t) PROVE \A a \in Adjustments : Maps(a)
  <2>1. CASE \E a \in Adjustments : PayStandalone(t, a) \/ Settle(t, a) \/ Reserve(t, a)
    BY <2>1, PayStandaloneMaps, SettleMaps, ReserveMaps
  <2>2. CASE \E origin \in [RecoveryDue(t) -> Adjustments] : CommitRelease(t, origin)
    BY <2>2, CommitReleaseMaps
  <2>3. CASE StartNextCycle(t)
    BY <2>3, StartNextCycleMaps
  <2>4. CASE \/ \E a \in Adjustments : \/ LockToPay(t, a) \/ LockToSettle(t, a)
                                       \/ LockToReserve(t, a) \/ LockToConsume(t, a)
                                       \/ LockToCarry(t, a)
             \/ LockCycleToMaterialize(t) \/ LockCycleForCandidate(t) \/ Skip(t)
             \/ \E chosen \in SUBSET Employees : LockCycleToRelease(t, chosen)
             \/ UpdateEntries(t) \/ CountBlocking(t) \/ Finalize(t) \/ Archive(t)
    <3>1. UNCHANGED <<adj, reserved>>
      BY <2>4 DEF LockToPay, LockToSettle, LockToReserve, LockToConsume, LockToCarry,
                  LockCycleToMaterialize, LockCycleForCandidate, Skip, LockCycleToRelease,
                  UpdateEntries, CountBlocking, Finalize, Archive, rows
    <3> QED
      BY <1>1, <3>1
  <2> QED
    BY <1>5, <2>1, <2>2, <2>3, <2>4 DEF Step
<1>6. CASE UNCHANGED vars
  <2>1. UNCHANGED <<adj, reserved>>
    BY <1>6 DEF vars, rows
  <2> QED
    BY <1>1, <2>1
<1> QED
  BY <1>2, <1>3, <1>4, <1>5, <1>6 DEF Next

LEMMA InitMaps == Init => Abstract!ObligationInit
  BY DEF Init, NoAdj, Abstract!ObligationInit

(* The detailed ledger, with its locks, races and partial consumptions, implements    *)
(* the abstract obligations: no path takes what another has been promised, for any    *)
(* number of transactions, adjustments, cycles and employees.                         *)
THEOREM LedgerImplementsObligation == Spec => ImplementsObligation
<1>1. IInv /\ [Next]_vars => [Abstract!ObligationNext]_(Abstract!obligations)
  BY StepMaps, MapsToNext
<1> QED
  BY <1>1, InitMaps, InvariantHolds, PTL DEF Spec, ImplementsObligation, Abstract!ObligationSpec

-----------------------------------------------------------------------------
(***************************************************************************)
(* The books.                                                              *)
(*                                                                         *)
(* BooksInv strengthens BooksAgree with what every sweep and rollover has  *)
(* planned but not yet written: the locks it holds (IInv) keep the plan    *)
(* true until it commits.  As for IInv, a step of transaction t is split   *)
(* into what it leaves of the rows (RowsAgree), what it leaves of t        *)
(* (PlansOK), and that it spares what every other transaction relies on    *)
(* (Spared).  Sums change one summand at a time (SumChange, SumProofs).    *)
(***************************************************************************)

-----------------------------------------------------------------------------
(* Totals, with the rows they range over made explicit. *)

Portion(rws, e, type, amounts) ==
    [a \in Adjustments |-> IF rws[a].employee = e /\ rws[a].type = type THEN amounts[a] ELSE 0]
TotalOf(rws, e, type, amounts) == SumFunctionOnSet(Portion(rws, e, type, amounts), Adjustments)

Amounts == [Adjustments -> Nat]

(* What a total adds up, balance by balance, is a natural.                            *)
LEMMA PortionType ==
  ASSUME NEW rws, NEW e, NEW type, NEW amounts \in Amounts
  PROVE  /\ Portion(rws, e, type, amounts) \in Amounts
         /\ \A a \in Adjustments : Portion(rws, e, type, amounts)[a] \in Int
  BY DEF Portion, Amounts

(* A total is a natural. *)
LEMMA TotalType ==
  ASSUME NEW rws, NEW e, NEW type, NEW amounts \in Amounts
  PROVE  TotalOf(rws, e, type, amounts) \in Nat
<1> DEFINE f == Portion(rws, e, type, amounts)
<1>1. \A a \in Adjustments : f[a] \in Nat
  BY PortionType DEF Amounts
<1> HIDE DEF f
<1>2. SumFunctionOnSet(f, Adjustments) \in Nat
  BY <1>1, AdjustmentsAssumption, SumOfNaturals
<1> QED
  BY <1>2 DEF TotalOf, f

(* A total of nothing is zero. *)
LEMMA TotalOfNothing ==
  ASSUME NEW rws, NEW e, NEW type, NEW amounts \in Amounts,
         \A a \in Adjustments : rws[a].employee = e /\ rws[a].type = type => amounts[a] = 0
  PROVE  TotalOf(rws, e, type, amounts) = 0
<1> DEFINE f == Portion(rws, e, type, amounts)
<1>1. \A a \in Adjustments : f[a] = 0
  BY DEF Portion
<1> HIDE DEF f
<1>2. SumFunctionOnSet(f, Adjustments) = 0
  BY <1>1, AdjustmentsAssumption, SumOfZeros
<1> QED
  BY <1>2 DEF TotalOf, f

(* A total depends on the rows that have an amount. *)
LEMMA TotalSame ==
  ASSUME NEW old, NEW new, NEW e, NEW type, NEW before \in Amounts, NEW after \in Amounts,
         \A a \in Adjustments :
            \/ before[a] = 0 /\ after[a] = 0
            \/ before[a] = after[a] /\ new[a].employee = old[a].employee
                                    /\ new[a].type = old[a].type
  PROVE  TotalOf(new, e, type, after) = TotalOf(old, e, type, before)
<1> DEFINE f == Portion(old, e, type, before)
           g == Portion(new, e, type, after)
<1>1. \A a \in Adjustments : g[a] = f[a]
  BY DEF Portion
<1>2. \A a \in Adjustments : f[a] \in Int
  BY PortionType
<1> HIDE DEF f, g
<1>3. SumFunctionOnSet(g, Adjustments) = SumFunctionOnSet(f, Adjustments)
  BY <1>1, <1>2, AdjustmentsAssumption, SumSame
<1> QED
  BY <1>3 DEF TotalOf, f, g

(* An amount recorded for one adjustment counts in the total of its employee and type. *)
LEMMA TotalAdded ==
  ASSUME NEW rws, NEW e, NEW type, NEW a \in Adjustments,
         NEW before \in Amounts, NEW after \in Amounts,
         before[a] = 0, \A b \in Adjustments : b # a => after[b] = before[b]
  PROVE  TotalOf(rws, e, type, after) =
           IF rws[a].employee = e /\ rws[a].type = type
             THEN TotalOf(rws, e, type, before) + after[a]
             ELSE TotalOf(rws, e, type, before)
<1> DEFINE f == Portion(rws, e, type, before)
           g == Portion(rws, e, type, after)
<1>1. /\ \A b \in Adjustments : f[b] \in Int /\ g[b] \in Int
      /\ \A b \in Adjustments : b # a => g[b] = f[b]
      /\ f[a] = 0
      /\ g[a] = IF rws[a].employee = e /\ rws[a].type = type THEN after[a] ELSE 0
  <2>1. \A b \in Adjustments : f[b] \in Int /\ g[b] \in Int
    BY PortionType
  <2>2. \A b \in Adjustments : b # a => g[b] = f[b]
    BY DEF Portion
  <2>3. f[a] = 0 /\ g[a] = IF rws[a].employee = e /\ rws[a].type = type THEN after[a] ELSE 0
    BY DEF Portion
  <2> QED
    BY <2>1, <2>2, <2>3
<1> HIDE DEF f, g
<1>2. SumFunctionOnSet(g, Adjustments) = SumFunctionOnSet(f, Adjustments) - f[a] + g[a]
  <2>1. IsFiniteSet(Adjustments)
    BY AdjustmentsAssumption
  <2>2. (\A b \in Adjustments : f[b] \in Int) /\ (\A b \in Adjustments : g[b] \in Int)
    BY <1>1
  <2>3. \A b \in Adjustments : b # a => g[b] = f[b]
    BY <1>1
  <2> HIDE <1>1
  <2> QED
    BY <2>1, <2>2, <2>3, SumChange
<1>3. SumFunctionOnSet(f, Adjustments) \in Int
  BY <1>1, AdjustmentsAssumption, SumType
<1>4. after[a] \in Nat
  BY DEF Amounts
<1>5. TotalOf(rws, e, type, before) = SumFunctionOnSet(f, Adjustments)
      /\ TotalOf(rws, e, type, after) = SumFunctionOnSet(g, Adjustments)
  BY DEF TotalOf, f, g
<1> QED
  BY <1>1, <1>2, <1>3, <1>4, <1>5

(* The totals of the state are these, before and after a step. *)
LEMMA TotalNow ==
  ASSUME NEW e, NEW type
  PROVE  /\ \A t \in Txns : Total(e, type, Planned(t)) = TotalOf(adj, e, type, Planned(t))
         /\ \A c \in Cycles : /\ Total(e, type, Materialized(c)) = TotalOf(adj, e, type, Materialized(c))
                              /\ Total(e, type, Consumption(c)) = TotalOf(adj, e, type, Consumption(c))
  BY DEF Total, Share, TotalOf, Portion

(* The totals of the next state, with its rows made explicit.                         *)
LEMMA TotalThen ==
  ASSUME NEW e, NEW type
  PROVE  /\ \A t \in Txns : Total(e, type, Planned(t))' = TotalOf(adj', e, type, Planned(t)')
         /\ \A c \in Cycles :
              /\ Total(e, type, Materialized(c))' = TotalOf(adj', e, type, Materialized(c)')
              /\ Total(e, type, Consumption(c))' = TotalOf(adj', e, type, Consumption(c)')
  BY DEF Total, Share, TotalOf, Portion

(* The amounts a total is taken of are naturals. *)
LEMMA AmountTypes ==
  ASSUME TypeOK
  PROVE  /\ \A t \in Txns : Planned(t) \in Amounts
         /\ \A c \in Cycles : Materialized(c) \in Amounts /\ Consumption(c) \in Amounts
<1>1. ASSUME NEW t \in Txns PROVE Planned(t) \in Amounts
  <2>1. txn[t] \in TxnRecord
    BY DEF TypeOK
  <2> QED
    BY <2>1 DEF TxnRecord, PlanRecord, Planned, Amounts
<1>2. ASSUME NEW c \in Cycles PROVE Materialized(c) \in Amounts /\ Consumption(c) \in Amounts
  <2>1. \A a \in Adjustments : mat[a][c] \in MatRecord /\ settlement[a][c] \in Nat
    BY DEF TypeOK
  <2> QED
    BY <2>1 DEF MatRecord, Materialized, Consumption, Amounts
<1> QED
  BY <1>1, <1>2

(* The amounts of the next state are naturals too.                                    *)
LEMMA AmountTypesThen ==
  ASSUME TypeOK'
  PROVE  /\ \A t \in Txns : Planned(t)' \in Amounts
         /\ \A c \in Cycles : Materialized(c)' \in Amounts /\ Consumption(c)' \in Amounts
<1>1. ASSUME NEW t \in Txns PROVE Planned(t)' \in Amounts
  <2>1. txn'[t] \in TxnRecord
    BY DEF TypeOK
  <2> QED
    BY <2>1 DEF TxnRecord, PlanRecord, Planned, Amounts
<1>2. ASSUME NEW c \in Cycles PROVE Materialized(c)' \in Amounts /\ Consumption(c)' \in Amounts
  <2>1. \A a \in Adjustments : mat'[a][c] \in MatRecord /\ settlement'[a][c] \in Nat
    BY DEF TypeOK
  <2> QED
    BY <2>1 DEF MatRecord, Materialized, Consumption, Amounts
<1> QED
  BY <1>1, <1>2

(* There are finitely many months.                                                    *)
LEMMA CyclesFinite == IsFiniteSet(Cycles)
  BY LastCycleAssumption, FS_Interval DEF Cycles

(* What the sums over months add up are integers.                                     *)
LEMMA ActiveType ==
  ASSUME TypeOK, NEW a \in Adjustments
  PROVE  /\ \A c \in Cycles : ActiveAmounts(a)[c] \in Int
         /\ \A c \in Cycles : settlement[a][c] \in Int
<1>1. \A c \in Cycles : mat[a][c] \in MatRecord /\ settlement[a][c] \in Nat
  BY DEF TypeOK
<1> QED
  BY <1>1 DEF MatRecord, ActiveAmounts

-----------------------------------------------------------------------------
(* How a step is composed: the rows, the transaction that moves, and the others. *)

RowsAgree  == RowsLinked /\ BooksAgree
PlansOK(t) == PlansHeld(t) /\ SweepOK(t) /\ CarryOK(t)

(* The invariant of the books is about the rows, and about each transaction.          *)
LEMMA BooksInvParts == BooksInv <=> RowsAgree /\ \A t \in Txns : PlansOK(t)
  BY DEF BooksInv, RowsAgree, PlansOK

(* Whose a balance is, and of what type, does not change while it exists. *)
OwnersKept ==
    \A a \in Adjustments : adj[a].status # "NONE" =>
        adj'[a].employee = adj[a].employee /\ adj'[a].type = adj[a].type

(* What a step of somebody else leaves to transaction u. *)
Spared(u) ==
    LET c == txn[u].cycle IN
    /\ txn'[u] = txn[u]
    /\ Holds(u)' = Holds(u)
    /\ \A a \in Holds(u) : settlement'[a] = settlement[a]
    /\ txn[u].kind = "release" =>
         /\ txn[u].pc \in {"entries", "consume"}
               => \A e \in txn[u].chosen : ~Resolved(entry'[c][e])
         /\ txn[u].pc = "consume"
               => \A e \in txn[u].chosen : /\ entry'[c][e].outcome # "NONE"
                                           /\ Bearable(entry[c][e]) <= Bearable(entry'[c][e])

(* The balances a transaction holds or is about to lock exist.                        *)
LEMMA HeldExist ==
  ASSUME IInv, NEW u \in Txns
  PROVE  \A a \in Holds(u) \cup txn[u].todo : a \in Adjustments /\ adj[a].status # "NONE"
<1>1. txn[u].todo \subseteq Adjustments
  BY DEF IInv, TypeOK, TxnRecord
<1> QED
  BY <1>1 DEF IInv, TransactionOK, LocksHeld, Holds

(* What a sweep or a rollover planned in total stays what it was, while it waits      *)
(* and the owners of its balances stay.                                               *)
LEMMA PlannedKept ==
  ASSUME IInv, IInv', BooksInv, NEW u \in Txns, txn[u].kind \in {"release", "rollover"},
         txn'[u] = txn[u], OwnersKept, NEW e, NEW type
  PROVE  Total(e, type, Planned(u))' = Total(e, type, Planned(u))
<1>1. Planned(u) \in Amounts /\ Planned(u)' \in Amounts
  <2>1. Planned(u)' = Planned(u)
    BY DEF Planned
  <2> QED
    BY <2>1, AmountTypes DEF IInv
<1>2. ASSUME NEW a \in Adjustments
      PROVE  \/ Planned(u)[a] = 0 /\ (Planned(u)')[a] = 0
             \/ /\ Planned(u)[a] = (Planned(u)')[a]
                /\ adj'[a].employee = adj[a].employee /\ adj'[a].type = adj[a].type
  <2>1. Planned(u)[a] = (Planned(u)')[a] /\ Planned(u)[a] = txn[u].plan[a].amount
    BY DEF Planned
  <2>2. Planned(u)[a] \in Nat
    BY <1>1 DEF Amounts
  <2>3. Planned(u)[a] > 0 => a \in Holds(u)
    BY <2>1 DEF BooksInv, PlansHeld
  <2> QED
    BY <2>1, <2>2, <2>3, HeldExist DEF OwnersKept
<1>3. TotalOf(adj', e, type, Planned(u)') = TotalOf(adj, e, type, Planned(u))
  BY <1>1, <1>2, TotalSame
<1> QED
  BY <1>3, TotalNow, TotalThen

(* What an entry can bear is a natural: a loss bears nothing.                         *)
LEMMA BearableType ==
  ASSUME NEW row \in EntryRecord
  PROVE  Bearable(row) \in Nat
<1>1. row.earnings \in Earnings /\ row.payable \in Nat
  BY DEF EntryRecord
<1>2. LegacyFigure[row.earnings] \in Int
  BY <1>1, LegacyAssumption
<1> QED
  BY <1>1, <1>2 DEF Bearable, Greater

(* A transaction whose locked rows nobody writes keeps what it relies on.             *)
LEMMA SparedOK ==
  ASSUME IInv, IInv', BooksInv, NEW u \in Txns, Spared(u), OwnersKept
  PROVE  PlansOK(u)'
<1> DEFINE c == txn[u].cycle
<1>1. /\ txn'[u] = txn[u] /\ Holds(u)' = Holds(u) /\ txn[u] \in TxnRecord
      /\ c \in Cycles /\ txn[u].chosen \subseteq Employees
      /\ PlansHeld(u) /\ SweepOK(u) /\ CarryOK(u)
  BY DEF Spared, IInv, TypeOK, TxnRecord, BooksInv
<1>2. PlansHeld(u)'
  BY <1>1 DEF PlansHeld
<1>3. \A a \in Holds(u) \cup txn[u].todo : adj'[a].employee = adj[a].employee
  BY HeldExist DEF OwnersKept
<1>4. SweepOK(u)'
  <2> SUFFICES ASSUME txn[u].kind = "release"  PROVE SweepOK(u)'
    BY <1>1 DEF SweepOK
  <2>1. txn[u].pc \in {"entries", "consume"} => \A e \in txn[u].chosen : ~Resolved(entry'[c][e])
    BY DEF Spared
  <2>2. ASSUME txn[u].pc = "consume", NEW e \in txn[u].chosen
        PROVE  /\ entry'[c][e].outcome # "NONE"
               /\ txn[u].capacity[e] + Total(e, "RECOVERY", Planned(u))' <= Bearable(entry'[c][e])
    <3>1. entry'[c][e].outcome # "NONE" /\ Bearable(entry[c][e]) <= Bearable(entry'[c][e])
      BY <2>2 DEF Spared
    <3>2. Total(e, "RECOVERY", Planned(u))' = Total(e, "RECOVERY", Planned(u))
      BY <1>1, PlannedKept
    <3>3. txn[u].capacity[e] + Total(e, "RECOVERY", Planned(u)) <= Bearable(entry[c][e])
      BY <1>1, <2>2 DEF SweepOK
    <3>4. Bearable(entry[c][e]) \in Nat /\ Bearable(entry'[c][e]) \in Nat
      <4>1. entry[c][e] \in EntryRecord /\ entry'[c][e] \in EntryRecord
        BY <1>1 DEF IInv, TypeOK
      <4> QED
        BY <4>1, BearableType
    <3>5. txn[u].capacity[e] \in Nat /\ Total(e, "RECOVERY", Planned(u)) \in Nat
      <4>1. Planned(u) \in Amounts
        BY AmountTypes DEF IInv
      <4> QED
        BY <1>1, <4>1, TotalType, TotalNow DEF TxnRecord
    <3> HIDE DEF c
    <3> QED
      BY <3>1, <3>2, <3>3, <3>4, <3>5
  <2>3. ASSUME txn[u].pc = "consume"
        PROVE  /\ \A a \in Holds(u) \cup txn[u].todo : adj'[a].employee \in txn[u].chosen
               /\ \A a \in Holds(u) : txn[u].plan[a].amount > 0 => settlement'[a][c] = 0
    <3>1. /\ \A a \in Holds(u) \cup txn[u].todo : adj[a].employee \in txn[u].chosen
          /\ \A a \in Holds(u) : txn[u].plan[a].amount > 0 => settlement[a][c] = 0
      BY <1>1, <2>3 DEF SweepOK
    <3>2. \A a \in Holds(u) : settlement'[a] = settlement[a]
      BY DEF Spared
    <3> QED
      BY <1>3, <3>1, <3>2
  <2> QED
    BY <1>1, <2>1, <2>2, <2>3 DEF SweepOK
<1>5. CarryOK(u)'
  <2> SUFFICES ASSUME txn[u].kind = "rollover", txn[u].pc = "carry"  PROVE CarryOK(u)'
    BY <1>1 DEF CarryOK
  <2>1. \A e \in Employees : \A type : Total(e, type, Planned(u))' = Total(e, type, Planned(u))
    BY <1>1, PlannedKept
  <2>2. /\ \A e \in Employees :
              /\ txn[u].read[e].outcome = IF e \in txn[u].chosen THEN "OPEN" ELSE "NONE"
              /\ txn[u].read[e].payable = Total(e, "PAYABLE", Planned(u))
              /\ txn[u].read[e].recovery = Total(e, "RECOVERY", Planned(u))
        /\ \A a \in Holds(u) \cup txn[u].todo : adj[a].employee \in txn[u].chosen
    BY <1>1 DEF CarryOK
  <2> QED
    BY <1>1, <1>3, <2>1, <2>2 DEF CarryOK
<1> QED
  BY <1>2, <1>4, <1>5 DEF PlansOK

(* A step keeps the books if the rows agree after it, its own transaction is right,   *)
(* and it spares the others.                                                          *)
LEMMA BooksComposed ==
  ASSUME IInv, IInv', BooksInv, NEW t \in Txns, OwnersKept, RowsAgree', PlansOK(t)',
         \A u \in Txns \ {t} : Spared(u)
  PROVE  BooksInv'
<1>1. \A u \in Txns : PlansOK(u)'
  BY SparedOK
<1> QED
  BY <1>1 DEF BooksInv, RowsAgree, PlansOK

(* The rows stay in order when none changes. *)
LEMMA RowsUntouched ==
  ASSUME RowsAgree, UNCHANGED rows
  PROVE  RowsAgree'
<1>1. RowsLinked'
  BY DEF RowsAgree, RowsLinked, rows
<1>2. Conserved'
  BY DEF RowsAgree, BooksAgree, Conserved, rows
<1>3. DerivedColumnsAgree'
  BY DEF RowsAgree, BooksAgree, DerivedColumnsAgree, ActiveAmounts, Total, Share, Materialized, rows
<1>4. ConsumedIsSettled'
  BY DEF RowsAgree, BooksAgree, ConsumedIsSettled, Resolved, rows
<1>5. RecoveredWithinMeans'
  BY DEF RowsAgree, BooksAgree, RecoveredWithinMeans, Total, Share, Consumption, Resolved, Bearable, rows
<1> QED
  BY <1>1, <1>2, <1>3, <1>4, <1>5 DEF RowsAgree, BooksAgree

(* A statement that reads, locks or ends without writing. *)
LEMMA BooksQuiet ==
  ASSUME IInv, IInv', BooksInv, NEW t \in Txns, NEW r, Becomes(t, r), UNCHANGED rows,
         \A u \in Txns \ {t} : LocksKept(u), PlansOK(t)'
  PROVE  BooksInv'
<1>1. RowsAgree'
  BY RowsUntouched DEF BooksInv, RowsAgree
<1>2. OwnersKept
  BY DEF OwnersKept, rows
<1>3. ASSUME NEW u \in Txns \ {t}  PROVE Spared(u)
  <2>1. txn'[u] = txn[u] /\ Holds(u)' = Holds(u)
    BY <1>3 DEF Becomes, LocksKept, IInv, TypeOK
  <2>2. SweepOK(u) /\ txn[u].cycle \in Cycles /\ txn[u].chosen \subseteq Employees
    BY DEF BooksInv, IInv, TypeOK, TxnRecord
  <2>3. entry' = entry /\ settlement' = settlement
    BY DEF rows
  <2>4. \A e \in txn[u].chosen : Bearable(entry[txn[u].cycle][e]) \in Nat
    <3>1. \A e \in txn[u].chosen : entry[txn[u].cycle][e] \in EntryRecord
      BY <2>2 DEF IInv, TypeOK
    <3> QED
      BY <3>1, BearableType
  <2> QED
    BY <2>1, <2>2, <2>3, <2>4 DEF Spared, SweepOK
<1> QED
  BY <1>1, <1>2, <1>3, BooksComposed

-----------------------------------------------------------------------------
(* Steps that write no row: requests, reads, refusals and rollbacks. *)

(* Only sweeps and rollovers have plans to fit.                                       *)
LEMMA OtherKinds ==
  ASSUME NEW t \in Txns, txn'[t].kind \notin {"release", "rollover"}
  PROVE  PlansOK(t)'
  BY DEF PlansOK, PlansHeld, SweepOK, CarryOK

(* A transaction that ended has no plan left.                                         *)
LEMMA BooksEnd ==
  ASSUME IInv, NEW t \in Txns, End(t)
  PROVE  PlansOK(t)'
<1>1. txn'[t].kind = "none"
  BY DEF End, Becomes, IInv, TypeOK, Idle
<1> QED
  BY <1>1, OtherKinds

(* A refusal, an abort or a failure discards the plan and writes no row.              *)
LEMMA BooksRollback ==
  ASSUME IInv, IInv', BooksInv, NEW t \in Txns, Rollback(t)
  PROVE  BooksInv'
<1>1. \A u \in Txns \ {t} : LocksKept(u)
  BY Ended DEF Rollback, IInv
<1> QED
  BY <1>1, BooksEnd, BooksQuiet DEF Rollback, End

(* A request starts with nothing planned.                                             *)
LEMMA BooksStart ==
  ASSUME IInv, IInv', BooksInv, NEW t \in Txns, NEW r, Start(t, r),
         r.kind \in {"release", "rollover"} =>
            r.pc \in {"cycle", "archive"} /\ r.todo = {} /\ r.plan = NoPlan
  PROVE  BooksInv'
<1>1. txn'[t] = r /\ Becomes(t, r) /\ UNCHANGED rows /\ UNCHANGED locks
  BY DEF Start, Becomes, IInv, TypeOK
<1>2. \A u \in Txns \ {t} : LocksKept(u)
  BY <1>1, NoLockTouched DEF IInv
<1>3. PlansOK(t)'
  <2>1. CASE r.kind \in {"release", "rollover"}
    <3>1. \A a \in Adjustments : ~(txn'[t].plan[a].amount > 0)
      BY <1>1, <2>1 DEF NoPlan
    <3> QED
      BY <1>1, <2>1, <3>1 DEF PlansOK, PlansHeld, SweepOK, CarryOK
  <2>2. CASE r.kind \notin {"release", "rollover"}
    BY <1>1, <2>2, OtherKinds
  <2> QED
    BY <2>1, <2>2
<1> QED
  BY <1>1, <1>2, <1>3, BooksQuiet

(* Every request does.                                                                *)
LEMMA BooksRequest ==
  ASSUME IInv, IInv', BooksInv, NEW t \in Txns, Request(t)
  PROVE  BooksInv'
<1>1. CASE \E a \in Adjustments : RequestPayment(t, a)
  <2>1. PICK a \in Adjustments : RequestPayment(t, a)
    BY <1>1
  <2> DEFINE r == [Idle EXCEPT !.kind = "payment", !.pc = "adjustment", !.todo = {a}]
  <2>2. Start(t, r) /\ r.kind = "payment"
    BY <2>1 DEF RequestPayment, Idle
  <2> HIDE DEF r
  <2> QED
    BY <2>2, BooksStart
<1>2. CASE \E a \in Adjustments, c \in Cycles, m \in ManualAmounts : RequestSettlement(t, a, c, m)
  <2>1. PICK a \in Adjustments, c \in Cycles, m \in ManualAmounts : RequestSettlement(t, a, c, m)
    BY <1>2
  <2> DEFINE r == [Idle EXCEPT !.kind = "settle", !.pc = "adjustment", !.todo = {a},
                               !.cycle = c, !.amount = m]
  <2>2. Start(t, r) /\ r.kind = "settle"
    BY <2>1 DEF RequestSettlement, Idle
  <2> HIDE DEF r
  <2> QED
    BY <2>2, BooksStart
<1>3. CASE \E a \in Adjustments, c \in Cycles : RequestMaterialization(t, a, c)
  <2>1. PICK a \in Adjustments, c \in Cycles : RequestMaterialization(t, a, c)
    BY <1>3
  <2> DEFINE r == [Idle EXCEPT !.kind = "materialize", !.pc = "cycle", !.todo = {a}, !.cycle = c]
  <2>2. Start(t, r) /\ r.kind = "materialize"
    BY <2>1 DEF RequestMaterialization, Idle
  <2> HIDE DEF r
  <2> QED
    BY <2>2, BooksStart
<1>4. CASE \E c \in Cycles : RequestBatch(t, c)
  <2>1. PICK c \in Cycles : RequestBatch(t, c)
    BY <1>4
  <2> DEFINE r == [Idle EXCEPT !.kind = "batch", !.pc = "cycle", !.cycle = c,
                               !.read = entry[c], !.todo = Candidates(entry[c])]
  <2>2. Start(t, r) /\ r.kind = "batch"
    BY <2>1 DEF RequestBatch, Idle
  <2>3. PICK q : q = r
    OBVIOUS
  <2> HIDE DEF r
  <2> QED
    BY <2>2, <2>3, BooksStart
<1>5. CASE \E c \in Cycles : RequestRelease(t, c)
  <2>1. PICK c \in Cycles : RequestRelease(t, c)
    BY <1>5
  <2> DEFINE r == [Idle EXCEPT !.kind = "release", !.pc = "cycle", !.cycle = c]
  <2>2. Start(t, r) /\ r.kind = "release" /\ r.pc = "cycle" /\ r.todo = {} /\ r.plan = NoPlan
    BY <2>1 DEF RequestRelease, Idle
  <2> HIDE DEF r
  <2> QED
    BY <2>2, BooksStart
<1>6. CASE \E c \in Cycles : RequestFinalize(t, c)
  <2>1. PICK c \in Cycles : RequestFinalize(t, c)
    BY <1>6
  <2> DEFINE r == [Idle EXCEPT !.kind = "finalize", !.pc = "count", !.cycle = c]
  <2>2. Start(t, r) /\ r.kind = "finalize"
    BY <2>1 DEF RequestFinalize, Idle
  <2> HIDE DEF r
  <2> QED
    BY <2>2, BooksStart
<1>7. CASE \E c \in Cycles : RequestRollover(t, c)
  <2>1. PICK c \in Cycles : RequestRollover(t, c)
    BY <1>7
  <2> DEFINE r == [Idle EXCEPT !.kind = "rollover", !.pc = "archive", !.cycle = c,
                               !.chosen = Employees \ departed]
  <2>2. Start(t, r) /\ r.kind = "rollover" /\ r.pc = "archive" /\ r.todo = {} /\ r.plan = NoPlan
    BY <2>1 DEF RequestRollover, Idle
  <2>3. PICK q : q = r
    OBVIOUS
  <2> HIDE DEF r
  <2> QED
    BY <2>2, <2>3, BooksStart
<1> QED
  BY <1>1, <1>2, <1>3, <1>4, <1>5, <1>6, <1>7 DEF Request

(* The next candidate of a batch is read with the same kind of request.               *)
LEMMA BooksCandidate ==
  ASSUME TypeOK, NEW t \in Txns, NextCandidate(t), txn[t].kind \notin {"release", "rollover"}
  PROVE  \E r : Becomes(t, r) /\ r.kind \notin {"release", "rollover"}
<1> DEFINE r == [txn[t] EXCEPT !.pc = "cycle", !.plan = NoPlan]
<1>1. Becomes(t, Idle) \/ Becomes(t, r)
  BY DEF NextCandidate
<1>2. txn[t] \in TxnRecord
  BY DEF TypeOK
<1>3. r.kind = txn[t].kind
  BY <1>2 DEF TxnRecord
<1>4. Idle.kind = "none"
  BY DEF Idle
<1> HIDE DEF r
<1> QED
  BY <1>1, <1>3, <1>4

(* Deciding about a locked balance does not change what was requested.                *)
LEMMA DecisionKind ==
  ASSUME TypeOK, NEW t \in Txns, NEW a, NEW accepted, NEW amount, NEW otherwise,
         Decide(t, a, accepted, amount, otherwise)
  PROVE  \E r : Becomes(t, r) /\ r.kind = txn[t].kind
<1> DEFINE next == IF accepted THEN "write" ELSE otherwise
           todo == txn[t].todo \ {a}
           plan == IF accepted
                     THEN [txn[t].plan EXCEPT
                             ![a] = [amount |-> amount, remaining |-> adj[a].remaining]]
                     ELSE txn[t].plan
           r    == [txn[t] EXCEPT !.pc = next, !.todo = todo, !.plan = plan]
<1>1. Becomes(t, r)
  BY DEF Decide
<1>2. txn[t] \in TxnRecord
  BY DEF TypeOK
<1> HIDE DEF next, todo, plan
<1>3. r.kind = txn[t].kind
  BY <1>2 DEF TxnRecord
<1> QED
  BY <1>1, <1>3

(* The reads of a payment, a settlement, a materialization and a finalization. *)
LEMMA BooksRead ==
  ASSUME IInv, IInv', BooksInv, NEW t \in Txns,
         \/ \E a \in Adjustments : LockToPay(t, a) \/ LockToSettle(t, a) \/ LockToReserve(t, a)
         \/ LockCycleToMaterialize(t) \/ LockCycleForCandidate(t) \/ Skip(t) \/ CountBlocking(t)
  PROVE  BooksInv'
<1> SUFFICES /\ UNCHANGED rows /\ \E r : Becomes(t, r) /\ r.kind \notin {"release", "rollover"}
             /\ \A u \in Txns \ {t} : LocksKept(u)
  <2>1. PICK r : Becomes(t, r) /\ r.kind \notin {"release", "rollover"}
    OBVIOUS
  <2>2. txn'[t] = r
    BY <2>1 DEF Becomes, IInv, TypeOK
  <2> QED
    BY <2>1, <2>2, OtherKinds, BooksQuiet
<1>0. txn[t] \in TxnRecord /\ TypeOK
  BY DEF IInv, TypeOK
<1>1. ASSUME NEW a \in Adjustments, LockToPay(t, a) \/ LockToSettle(t, a) \/ LockToReserve(t, a)
      PROVE  /\ UNCHANGED rows /\ \A u \in Txns \ {t} : LocksKept(u)
             /\ \E r : Becomes(t, r) /\ r.kind \notin {"release", "rollover"}
  <2>1. /\ UNCHANGED rows /\ TakeAdjustment(t, a) /\ UNCHANGED cycleLock
    BY <1>1 DEF LockToPay, LockToSettle, LockToReserve
  <2>2. \A u \in Txns \ {t} : LocksKept(u)
    BY <1>0, <2>1, AdjustmentTaken
  <2>3. txn[t].kind \notin {"release", "rollover"}
    BY <1>1 DEF LockToPay, LockToSettle, LockToReserve
  <2>4. \E r : Becomes(t, r) /\ r.kind = txn[t].kind
    <3>1. \E accepted, amount, otherwise : Decide(t, a, accepted, amount, otherwise)
      BY <1>1, Zenon DEF LockToPay, LockToSettle, LockToReserve
    <3> QED
      BY <1>0, <3>1, DecisionKind
  <2> QED
    BY <2>1, <2>2, <2>3, <2>4
<1>2. CASE LockCycleToMaterialize(t) \/ LockCycleForCandidate(t)
  <2>1. UNCHANGED rows /\ TakeCycle(t, txn[t].cycle) /\ UNCHANGED adjLock
        /\ txn[t].kind \notin {"release", "rollover"} /\ txn[t].cycle \in Cycles
    BY <1>0, <1>2 DEF LockCycleToMaterialize, LockCycleForCandidate, TxnRecord
  <2>2. \E r : Becomes(t, r) /\ r.kind = txn[t].kind
    <3> DEFINE r == [txn[t] EXCEPT !.pc = "adjustment", !.read = entry[txn[t].cycle]]
               q == [txn[t] EXCEPT !.pc = "adjustment"]
    <3>1. Becomes(t, r) \/ Becomes(t, q)
      BY <1>2 DEF LockCycleToMaterialize, LockCycleForCandidate
    <3>2. r.kind = txn[t].kind /\ q.kind = txn[t].kind
      BY <1>0 DEF TxnRecord
    <3> HIDE DEF r, q
    <3> QED
      BY <3>1, <3>2
  <2> QED
    BY <1>0, <2>1, <2>2, CycleTaken
<1>3. CASE Skip(t)
  <2>1. UNCHANGED rows /\ NextCandidate(t) /\ ReleaseLocks(t)
    BY <1>3 DEF Skip, NextCandidate
  <2>2. txn[t].kind \notin {"release", "rollover"}
    BY <1>3 DEF Skip, BooksInv, PlansHeld
  <2>3. \E r : Becomes(t, r) /\ r.kind \notin {"release", "rollover"}
    BY <2>1, <2>2, BooksCandidate DEF IInv
  <2> QED
    BY <1>0, <2>1, <2>3, LocksReleased
<1>4. CASE CountBlocking(t)
  <2>1. UNCHANGED rows /\ UNCHANGED locks
    BY <1>4 DEF CountBlocking
  <2>2. \E r : Becomes(t, r) /\ r.kind \notin {"release", "rollover"}
    BY <1>0, <1>4 DEF CountBlocking, TxnRecord
  <2> QED
    BY <1>0, <2>1, <2>2, NoLockTouched
<1> QED
  BY <1>1, <1>2, <1>3, <1>4

-----------------------------------------------------------------------------
(* What a sweep or a rollover reads and plans before it commits. *)

(* Nothing is planned yet, and no total has anything in it. *)
LEMMA NothingPlanned ==
  ASSUME IInv, BooksInv, NEW t \in Txns, txn[t].kind \in {"release", "rollover"}, Holds(t) = {},
         NEW e, NEW type
  PROVE  TotalOf(adj, e, type, Planned(t)) = 0
<1>1. Planned(t) \in Amounts
  BY AmountTypes DEF IInv
<1>2. ASSUME NEW a \in Adjustments  PROVE Planned(t)[a] = 0
  <2>1. ~(txn[t].plan[a].amount > 0)
    BY DEF BooksInv, PlansHeld
  <2>2. Planned(t)[a] = txn[t].plan[a].amount /\ Planned(t)[a] \in Nat
    BY <1>1 DEF Planned, Amounts
  <2> QED
    BY <2>1, <2>2
<1> QED
  BY <1>1, <1>2, TotalOfNothing

(* A sweep begins with unresolved entries: it selects none that a release has         *)
(* resolved.                                                                          *)
LEMMA BooksLockCycleToRelease ==
  ASSUME IInv, IInv', BooksInv, NEW t \in Txns, NEW chosen \in SUBSET Employees,
         LockCycleToRelease(t, chosen)
  PROVE  BooksInv'
<1> DEFINE c    == txn[t].cycle
           read == [e \in Employees |-> IF e \in chosen THEN entry[c][e] ELSE NoEntry]
           r    == [txn[t] EXCEPT !.pc = "entries", !.chosen = chosen, !.read = read]
<1>1. /\ txn[t] \in TxnRecord /\ c \in Cycles /\ txn[t].kind = "release" /\ txn[t].pc = "cycle"
      /\ TakeCycle(t, c) /\ chosen \subseteq Releasable(c)
      /\ Becomes(t, r) /\ UNCHANGED rows /\ UNCHANGED adjLock
  BY DEF LockCycleToRelease, IInv, TypeOK, TxnRecord
<1> HIDE DEF read
<1>2. /\ r.kind = "release" /\ r.pc = "entries" /\ r.cycle = c /\ r.chosen = chosen
      /\ r.todo = txn[t].todo /\ r.plan = txn[t].plan
  BY <1>1 DEF TxnRecord
<1> HIDE DEF r
<1>3. txn'[t] = r
  BY <1>1 DEF Becomes, IInv, TypeOK
<1>4. Holds(t)' = Holds(t) /\ \A u \in Txns \ {t} : LocksKept(u)
  BY <1>1, CycleTaken DEF IInv
<1>5. PlansHeld(t)'
  <2>1. PlansHeld(t)
    BY DEF BooksInv
  <2> QED
    BY <1>1, <1>2, <1>3, <1>4, <2>1 DEF PlansHeld
<1>6. SweepOK(t)'
  <2>1. \A e \in chosen : ~Resolved(entry'[c][e])
    BY <1>1 DEF Releasable, Resolved, Outcomes, rows
  <2> QED
    BY <1>2, <1>3, <2>1 DEF SweepOK
<1>7. CarryOK(t)'
  BY <1>2, <1>3 DEF CarryOK
<1> QED
  BY <1>1, <1>4, <1>5, <1>6, <1>7, BooksQuiet DEF PlansOK

(* The update of the sweep finds its entries still unresolved and gives each the      *)
(* capacity its fresh figures allow: nothing is planned yet, so capacity and plan     *)
(* together are what the entry bears.                                                 *)
LEMMA BooksUpdateEntries ==
  ASSUME IInv, IInv', BooksInv, NEW t \in Txns, UpdateEntries(t)
  PROVE  BooksInv'
<1> DEFINE c        == txn[t].cycle
           todo     == ActiveOn(c, txn[t].chosen)
           capacity == [e \in Employees |->
                          IF e \in txn[t].chosen
                            THEN CappedRecovery(LegacyNet(entry[c][e]), entry[c][e].recovery)
                            ELSE 0]
           r        == [txn[t] EXCEPT !.pc = "consume", !.todo = todo, !.capacity = capacity]
<1>1. /\ txn[t] \in TxnRecord /\ c \in Cycles /\ txn[t].chosen \subseteq Employees
      /\ txn[t].kind = "release" /\ txn[t].pc = "entries"
      /\ \A e \in txn[t].chosen : entry[c][e].outcome # "NONE"
      /\ Becomes(t, r) /\ UNCHANGED rows /\ UNCHANGED locks
  BY DEF UpdateEntries, IInv, TypeOK, TxnRecord
<1>2. \A a \in todo : adj[a].employee \in txn[t].chosen
  BY DEF ActiveOn
<1>3. ASSUME NEW e \in txn[t].chosen  PROVE capacity[e] <= Bearable(entry[c][e]) /\ capacity[e] \in Nat
  <2> DEFINE row == entry[c][e]
             net == LegacyNet(row)
  <2>1. row \in EntryRecord
    BY <1>1 DEF IInv, TypeOK
  <2>2. net \in Int /\ row.recovery \in Nat
    BY <2>1, LegacyNetType
  <2>3. capacity[e] = CappedRecovery(net, row.recovery)
    BY <1>1
  <2>4. net + row.recovery = LegacyFigure[row.earnings] + row.payable
    <3>1. row.earnings \in Earnings /\ row.payable \in Nat
      BY <2>1 DEF EntryRecord
    <3>2. LegacyFigure[row.earnings] \in Int
      BY <3>1, LegacyAssumption
    <3> QED
      BY <2>2, <3>1, <3>2 DEF LegacyNet, NetSalary
  <2> HIDE DEF net
  <2>5. /\ CappedRecovery(net, row.recovery) \in Nat
        /\ CappedRecovery(net, row.recovery) <= Greater(0, net + row.recovery)
    BY <2>2, CappedRecoveryBounds
  <2> QED
    BY <2>3, <2>4, <2>5 DEF Bearable
<1> HIDE DEF todo, capacity
<1>4. /\ r.kind = "release" /\ r.pc = "consume" /\ r.cycle = c /\ r.chosen = txn[t].chosen
      /\ r.todo = todo /\ r.plan = txn[t].plan /\ r.capacity = capacity
  BY <1>1 DEF TxnRecord
<1> HIDE DEF r
<1>5. txn'[t] = r
  BY <1>1 DEF Becomes, IInv, TypeOK
<1>6. /\ Holds(t) = {} /\ Holds(t)' = {} /\ \A u \in Txns \ {t} : LocksKept(u)
      /\ adj' = adj /\ entry' = entry
  BY <1>1, NoLockTouched DEF IInv, TransactionOK, LocksHeld, rows
<1>7. PlansHeld(t)'
  BY <1>1, <1>4, <1>5, <1>6 DEF PlansHeld, BooksInv
<1>8. SweepOK(t)'
  <2>1. \A e \in txn[t].chosen : ~Resolved(entry[c][e])
    BY <1>1 DEF BooksInv, SweepOK
  <2>2. ASSUME NEW e \in txn[t].chosen
        PROVE  capacity[e] + Total(e, "RECOVERY", Planned(t))' <= Bearable(entry[c][e])
    <3>1. Planned(t)' = Planned(t)
      BY <1>4, <1>5 DEF Planned
    <3>2. Total(e, "RECOVERY", Planned(t))' = 0
      BY <1>1, <1>6, <3>1, NothingPlanned, TotalThen
    <3> QED
      BY <1>3, <3>2
  <2> QED
    BY <1>1, <1>2, <1>4, <1>5, <1>6, <2>1, <2>2 DEF SweepOK
<1>9. CarryOK(t)'
  BY <1>4, <1>5 DEF CarryOK
<1> QED
  BY <1>1, <1>6, <1>7, <1>8, <1>9, BooksQuiet DEF PlansOK

(* A plan for one more adjustment, that had none. *)
LEMMA PlanGrows ==
  ASSUME IInv, IInv', BooksInv, NEW t \in Txns, txn[t].kind \in {"release", "rollover"},
         NEW a \in Adjustments, a \notin Holds(t), NEW n, n = txn'[t].plan[a].amount,
         \A b \in Adjustments : b # a => txn'[t].plan[b] = txn[t].plan[b],
         NEW f, NEW type
  PROVE  /\ adj[a].employee = f /\ adj[a].type = type
               => TotalOf(adj, f, type, Planned(t)') = TotalOf(adj, f, type, Planned(t)) + n
         /\ ~(adj[a].employee = f /\ adj[a].type = type)
               => TotalOf(adj, f, type, Planned(t)') = TotalOf(adj, f, type, Planned(t))
         /\ TotalOf(adj, f, type, Planned(t)) \in Nat /\ n \in Nat
         /\ \A b \in Adjustments : txn'[t].plan[b].amount > 0 =>
               IF b = a THEN n > 0 ELSE b \in Holds(t)
<1>1. Planned(t) \in Amounts /\ Planned(t)' \in Amounts
  BY AmountTypes, AmountTypesThen DEF IInv
<1>2. /\ txn[t].plan \in [Adjustments -> PlanRecord]
      /\ txn'[t].plan[a].amount = n
      /\ \A b \in Adjustments : b # a => txn'[t].plan[b] = txn[t].plan[b]
  BY DEF IInv, TypeOK, TxnRecord
<1>3. /\ \A b \in Adjustments : Planned(t)[b] = txn[t].plan[b].amount
      /\ \A b \in Adjustments : (Planned(t)')[b] = txn'[t].plan[b].amount
  BY DEF Planned
<1>4. n \in Nat /\ (Planned(t)')[a] = n
  BY <1>1, <1>2, <1>3 DEF Amounts
<1>5. \A b \in Adjustments : txn[t].plan[b].amount > 0 => b \in Holds(t)
  BY DEF BooksInv, PlansHeld
<1>6. Planned(t)[a] = 0
  BY <1>1, <1>3, <1>5 DEF Amounts
<1>7. \A b \in Adjustments : b # a => (Planned(t)')[b] = Planned(t)[b]
  BY <1>2, <1>3
<1>8. TotalOf(adj, f, type, Planned(t)') =
        IF adj[a].employee = f /\ adj[a].type = type
          THEN TotalOf(adj, f, type, Planned(t)) + (Planned(t)')[a]
          ELSE TotalOf(adj, f, type, Planned(t))
  BY <1>1, <1>6, <1>7, TotalAdded
<1>9. TotalOf(adj, f, type, Planned(t)) \in Nat
  BY <1>1, TotalType
<1> QED
  BY <1>2, <1>4, <1>5, <1>8, <1>9

(* Planning to consume one recovery takes from the capacity of its entry what it      *)
(* adds to the plan.                                                                  *)
LEMMA BooksLockToConsume ==
  ASSUME IInv, IInv', BooksInv, NEW t \in Txns, NEW a \in Adjustments, LockToConsume(t, a)
  PROVE  BooksInv'
<1> DEFINE c        == txn[t].cycle
           e        == adj[a].employee
           full     == mat[a][c].amount
           bearable == IF adj[a].type = "RECOVERY" THEN Lesser(full, txn[t].capacity[e]) ELSE full
           accepted == /\ SettlementAccepted(adj[a].status, adj[a].remaining,
                                             reserved[a] - full, bearable)
                       /\ settlement[a][c] = 0
           next     == IF bearable = 0 \/ accepted THEN "consume" ELSE "rejected"
           todo     == txn[t].todo \ {a}
           plan     == [txn[t].plan EXCEPT
                          ![a] = [amount |-> bearable, remaining |-> adj[a].remaining]]
           left     == CapacityLeft(txn[t].capacity[e], adj[a].type, bearable)
           capacity == [txn[t].capacity EXCEPT ![e] = left]
           r        == [txn[t] EXCEPT !.pc = next, !.todo = todo, !.plan = plan,
                                      !.capacity = capacity]
<1>1. /\ txn[t] \in TxnRecord /\ c \in Cycles /\ txn[t].chosen \subseteq Employees
      /\ txn[t].kind = "release" /\ txn[t].pc = "consume" /\ a \in txn[t].todo
      /\ Becomes(t, r) /\ UNCHANGED rows /\ UNCHANGED cycleLock /\ TakeAdjustment(t, a)
      /\ txn[t].capacity \in [Employees -> Nat] /\ full \in Nat
  <2>1. /\ txn[t].kind = "release" /\ txn[t].pc = "consume" /\ a \in txn[t].todo
        /\ Becomes(t, r) /\ UNCHANGED rows /\ UNCHANGED cycleLock /\ TakeAdjustment(t, a)
    BY DEF LockToConsume
  <2>2. /\ txn[t] \in TxnRecord /\ c \in Cycles /\ txn[t].chosen \subseteq Employees
        /\ txn[t].capacity \in [Employees -> Nat]
    BY DEF IInv, TypeOK, TxnRecord
  <2>3. full \in Nat
    BY <2>2 DEF IInv, TypeOK, MatRecord
  <2> QED
    BY <2>1, <2>2, <2>3
<1>2. /\ e \in txn[t].chosen /\ e \in Employees
  BY <1>1 DEF BooksInv, SweepOK
<1>3. /\ bearable \in Nat /\ txn[t].capacity[e] \in Nat
      /\ adj[a].type = "RECOVERY" => left = txn[t].capacity[e] - bearable /\ left \in Nat
      /\ adj[a].type # "RECOVERY" => left = txn[t].capacity[e]
  <2>1. txn[t].capacity[e] \in Nat
    BY <1>1, <1>2
  <2>2. bearable \in Nat /\ (adj[a].type = "RECOVERY" => bearable <= txn[t].capacity[e])
    <3>1. \A x, y \in Nat : Lesser(x, y) \in Nat /\ Lesser(x, y) <= y
      BY DEF Lesser
    <3> QED
      BY <1>1, <2>1, <3>1
  <2> HIDE DEF bearable
  <2> QED
    BY <2>1, <2>2 DEF CapacityLeft
<1>4. next \in {"consume", "rejected"} /\ (next = "consume" /\ bearable > 0 => settlement[a][c] = 0)
  BY <1>3
<1>5. /\ capacity[e] = left /\ \A f \in Employees : f # e => capacity[f] = txn[t].capacity[f]
  BY <1>1, <1>2
<1> HIDE DEF bearable, accepted, next, plan, left, capacity
<1>6. /\ r.kind = "release" /\ r.pc = next /\ r.cycle = c /\ r.chosen = txn[t].chosen
      /\ r.todo = todo /\ r.plan = plan /\ r.capacity = capacity
  BY <1>1 DEF TxnRecord
<1> HIDE DEF r
<1>7. txn'[t] = r
  BY <1>1 DEF Becomes, IInv, TypeOK
<1>8. /\ Holds(t)' = Holds(t) \cup {a} /\ a \notin Holds(t) /\ \A u \in Txns \ {t} : LocksKept(u)
      /\ adj' = adj /\ entry' = entry /\ settlement' = settlement
  BY <1>1, AdjustmentTaken DEF IInv, rows
<1>9. txn'[t].plan = [txn[t].plan EXCEPT ![a] = [amount |-> bearable, remaining |-> adj[a].remaining]]
  BY <1>6, <1>7 DEF plan
<1>10. /\ \A f, type :
            /\ Total(f, type, Planned(t))' = IF adj[a].employee = f /\ adj[a].type = type
                                               THEN Total(f, type, Planned(t)) + bearable
                                               ELSE Total(f, type, Planned(t))
            /\ Total(f, type, Planned(t)) \in Nat
       /\ \A b \in Adjustments :
             plan[b].amount > 0 => IF b = a THEN bearable > 0 ELSE b \in Holds(t)
  <2>1. txn[t].kind \in {"release", "rollover"}
    BY <1>1
  <2>0. bearable = txn'[t].plan[a].amount /\ \A b \in Adjustments : b # a => txn'[t].plan[b] = txn[t].plan[b]
    <3>1. txn[t].plan \in [Adjustments -> PlanRecord]
      BY <1>1 DEF TxnRecord
    <3> QED
      BY <1>9, <3>1
  <2>2. ASSUME NEW f, NEW type
        PROVE  /\ Total(f, type, Planned(t))' = IF adj[a].employee = f /\ adj[a].type = type
                                                  THEN Total(f, type, Planned(t)) + bearable
                                                  ELSE Total(f, type, Planned(t))
               /\ Total(f, type, Planned(t)) \in Nat /\ bearable \in Nat
    <3>1. PICK n : n = bearable
      OBVIOUS
    <3>2. n = txn'[t].plan[a].amount /\ \A b \in Adjustments : b # a => txn'[t].plan[b] = txn[t].plan[b]
      BY <2>0, <3>1
    <3>3. /\ Total(f, type, Planned(t))' = IF adj[a].employee = f /\ adj[a].type = type
                                             THEN Total(f, type, Planned(t)) + n
                                             ELSE Total(f, type, Planned(t))
          /\ Total(f, type, Planned(t)) \in Nat /\ n \in Nat
      <4>1. a \notin Holds(t) /\ adj' = adj
        BY <1>8
      <4>2. /\ adj[a].employee = f /\ adj[a].type = type
                  => TotalOf(adj, f, type, Planned(t)') = TotalOf(adj, f, type, Planned(t)) + n
            /\ ~(adj[a].employee = f /\ adj[a].type = type)
                  => TotalOf(adj, f, type, Planned(t)') = TotalOf(adj, f, type, Planned(t))
            /\ TotalOf(adj, f, type, Planned(t)) \in Nat /\ n \in Nat
        BY <2>1, <3>2, <4>1, PlanGrows
      <4>3. Total(f, type, Planned(t))' = TotalOf(adj, f, type, Planned(t)')
        BY <4>1, TotalThen
      <4>4. Total(f, type, Planned(t)) = TotalOf(adj, f, type, Planned(t))
        BY TotalNow
      <4> QED
        BY <4>2, <4>3, <4>4
    <3> QED
      BY <3>1, <3>3
  <2>3. \A b \in Adjustments :
             txn'[t].plan[b].amount > 0 => IF b = a THEN bearable > 0 ELSE b \in Holds(t)
    BY <1>8, <2>0, <2>1, PlanGrows
  <2> QED
    BY <1>6, <1>7, <2>2, <2>3
<1>11. PlansHeld(t)'
  BY <1>4, <1>6, <1>7, <1>8, <1>10 DEF PlansHeld
<1>12. SweepOK(t)'
  <2> SUFFICES ASSUME next = "consume"
               PROVE  /\ \A f \in txn[t].chosen :
                           /\ ~Resolved(entry[c][f]) /\ entry[c][f].outcome # "NONE"
                           /\ capacity[f] + Total(f, "RECOVERY", Planned(t))' <= Bearable(entry[c][f])
                      /\ \A b \in Holds(t) \cup {a} \cup todo : adj[b].employee \in txn[t].chosen
                      /\ \A b \in Holds(t) \cup {a} : plan[b].amount > 0 => settlement[b][c] = 0
    BY <1>4, <1>6, <1>7, <1>8 DEF SweepOK
  <2>1. /\ \A f \in txn[t].chosen :
             /\ ~Resolved(entry[c][f]) /\ entry[c][f].outcome # "NONE"
             /\ txn[t].capacity[f] + Total(f, "RECOVERY", Planned(t)) <= Bearable(entry[c][f])
        /\ \A b \in Holds(t) \cup txn[t].todo : adj[b].employee \in txn[t].chosen
        /\ \A b \in Holds(t) : txn[t].plan[b].amount > 0 => settlement[b][c] = 0
    BY <1>1 DEF BooksInv, SweepOK
  <2>2. ASSUME NEW f \in txn[t].chosen
        PROVE  capacity[f] + Total(f, "RECOVERY", Planned(t))' <= Bearable(entry[c][f])
    <3>1. f \in Employees /\ txn[t].capacity[f] \in Nat /\ Total(f, "RECOVERY", Planned(t)) \in Nat
      BY <1>1, <1>10
    <3>2. Bearable(entry[c][f]) \in Nat
      <4>1. entry[c][f] \in EntryRecord
        BY <1>1, <3>1 DEF IInv, TypeOK
      <4> QED
        BY <4>1, BearableType
    <3>3. CASE f = e /\ adj[a].type = "RECOVERY"
      BY <1>3, <1>5, <1>10, <2>1, <3>1, <3>2, <3>3
    <3>4. CASE ~(f = e /\ adj[a].type = "RECOVERY")
      <4>1. capacity[f] = txn[t].capacity[f]
        BY <1>3, <1>5, <3>1, <3>4
      <4>2. Total(f, "RECOVERY", Planned(t))' = Total(f, "RECOVERY", Planned(t))
        BY <1>10, <3>4
      <4> QED
        BY <2>1, <4>1, <4>2
    <3> QED
      BY <3>3, <3>4
  <2>3. \A b \in Holds(t) : b \in Adjustments /\ plan[b] = txn[t].plan[b]
    BY <1>1, <1>8 DEF plan, Holds
  <2>4. plan[a].amount > 0 => settlement[a][c] = 0
    BY <1>4, <1>10
  <2> QED
    BY <1>2, <2>1, <2>2, <2>3, <2>4
<1>13. CarryOK(t)'
  BY <1>6, <1>7 DEF CarryOK
<1> QED
  BY <1>1, <1>8, <1>11, <1>12, <1>13, BooksQuiet DEF PlansOK

(* A rollover starts its new entries with zero correction columns and nothing         *)
(* planned.                                                                           *)
LEMMA BooksArchive ==
  ASSUME IInv, IInv', BooksInv, NEW t \in Txns, Archive(t)
  PROVE  BooksInv'
<1> DEFINE c     == txn[t].cycle
           fresh == [e \in Employees |-> IF e \in txn[t].chosen THEN FreshEntry ELSE NoEntry]
           todo  == Candidates(fresh)
           r     == [txn[t] EXCEPT !.pc = "carry", !.read = fresh, !.todo = todo]
<1>1. /\ txn[t] \in TxnRecord /\ c \in Cycles
      /\ txn[t].kind = "rollover" /\ txn[t].pc = "archive"
      /\ TakeCycle(t, c) /\ Becomes(t, r) /\ UNCHANGED rows /\ UNCHANGED adjLock
  BY DEF Archive, IInv, TypeOK, TxnRecord
<1>2. \A e \in Employees : /\ fresh[e].outcome = IF e \in txn[t].chosen THEN "OPEN" ELSE "NONE"
                           /\ fresh[e].payable = 0 /\ fresh[e].recovery = 0
  BY DEF FreshEntry, NoEntry
<1>3. \A a \in todo : adj[a].employee \in txn[t].chosen
  BY <1>2 DEF Candidates
<1> HIDE DEF fresh, todo
<1>4. /\ r.kind = "rollover" /\ r.pc = "carry" /\ r.cycle = c /\ r.chosen = txn[t].chosen
      /\ r.todo = todo /\ r.plan = txn[t].plan /\ r.read = fresh
  BY <1>1 DEF TxnRecord
<1> HIDE DEF r
<1>5. txn'[t] = r
  BY <1>1 DEF Becomes, IInv, TypeOK
<1>6. /\ Holds(t) = {} /\ Holds(t)' = {} /\ \A u \in Txns \ {t} : LocksKept(u)
      /\ adj' = adj
  BY <1>1, CycleTaken DEF IInv, TransactionOK, LocksHeld, rows
<1>7. PlansHeld(t)'
  BY <1>1, <1>4, <1>5, <1>6 DEF PlansHeld, BooksInv
<1>8. SweepOK(t)'
  BY <1>4, <1>5 DEF SweepOK
<1>9. CarryOK(t)'
  <2>1. ASSUME NEW e, NEW type  PROVE Total(e, type, Planned(t))' = 0
    <3>1. Planned(t)' = Planned(t)
      BY <1>4, <1>5 DEF Planned
    <3> QED
      BY <1>1, <1>6, <3>1, NothingPlanned, TotalThen
  <2> QED
    BY <1>2, <1>3, <1>4, <1>5, <1>6, <2>1 DEF CarryOK
<1> QED
  BY <1>1, <1>6, <1>7, <1>8, <1>9, BooksQuiet DEF PlansOK

(* Reserving a carried balance adds to its column of the new entry what it adds to    *)
(* the plan.                                                                          *)
LEMMA BooksLockToCarry ==
  ASSUME IInv, IInv', BooksInv, NEW t \in Txns, NEW a \in Adjustments, LockToCarry(t, a)
  PROVE  BooksInv'
<1> DEFINE c        == txn[t].cycle
           e        == adj[a].employee
           amount   == ReservationAmount(adj[a], reserved[a])
           eligible == Eligible(adj[a], reserved[a], e \in departed, "DRAFT", FALSE, TRUE, FALSE)
           todo     == txn[t].todo \ {a}
           taken    == IF eligible THEN amount ELSE 0
           plan     == [txn[t].plan EXCEPT
                          ![a] = [amount |-> taken, remaining |-> adj[a].remaining]]
           row      == AddAggregate(txn[t].read[e], adj[a].type, amount)
           read     == IF eligible THEN [txn[t].read EXCEPT ![e] = row] ELSE txn[t].read
           r        == [txn[t] EXCEPT !.todo = todo, !.plan = plan, !.read = read]
<1>1. /\ txn[t] \in TxnRecord /\ c \in Cycles
      /\ txn[t].kind = "rollover" /\ txn[t].pc = "carry" /\ a \in txn[t].todo
      /\ Becomes(t, r) /\ UNCHANGED rows /\ UNCHANGED cycleLock /\ TakeAdjustment(t, a)
      /\ txn[t].read \in [Employees -> EntryRecord] /\ txn[t].chosen \subseteq Employees
      /\ adj[a] \in AdjRecord
  BY DEF LockToCarry, IInv, TypeOK, TxnRecord
<1>2. e \in txn[t].chosen /\ e \in Employees
  BY <1>1 DEF BooksInv, CarryOK
<1>3. /\ \A f \in Employees : f # e => read[f] = txn[t].read[f]
      /\ read[e] = AddAggregate(txn[t].read[e], adj[a].type, taken)
  <2>1. CASE eligible
    BY <1>1, <1>2, <2>1
  <2>2. CASE ~eligible
    <3>1. txn[t].read[e] \in EntryRecord
      BY <1>1, <1>2
    <3>2. AddAggregate(txn[t].read[e], adj[a].type, 0) = txn[t].read[e]
      BY <3>1 DEF AddAggregate, EntryRecord
    <3> QED
      BY <1>1, <1>2, <2>2, <3>2
  <2> QED
    BY <2>1, <2>2
<1> HIDE DEF eligible, amount, taken, plan, row, read
<1>4. /\ r.kind = "rollover" /\ r.pc = "carry" /\ r.cycle = c /\ r.chosen = txn[t].chosen
      /\ r.todo = todo /\ r.plan = plan /\ r.read = read
  BY <1>1 DEF TxnRecord
<1> HIDE DEF r
<1>5. txn'[t] = r
  BY <1>1 DEF Becomes, IInv, TypeOK
<1>6. /\ Holds(t)' = Holds(t) \cup {a} /\ a \notin Holds(t) /\ \A u \in Txns \ {t} : LocksKept(u)
      /\ adj' = adj
  BY <1>1, AdjustmentTaken DEF IInv, rows
<1>7. txn'[t].plan = [txn[t].plan EXCEPT ![a] = [amount |-> taken, remaining |-> adj[a].remaining]]
  BY <1>4, <1>5 DEF plan
<1>8. /\ taken \in Nat
      /\ \A f, type :
           /\ Total(f, type, Planned(t))' = IF adj[a].employee = f /\ adj[a].type = type
                                              THEN Total(f, type, Planned(t)) + taken
                                              ELSE Total(f, type, Planned(t))
           /\ Total(f, type, Planned(t)) \in Nat
      /\ \A b \in Adjustments : plan[b].amount > 0 => b = a \/ b \in Holds(t)
  <2>1. txn[t].kind \in {"release", "rollover"}
    BY <1>1
  <2>0. taken = txn'[t].plan[a].amount /\ \A b \in Adjustments : b # a => txn'[t].plan[b] = txn[t].plan[b]
    <3>1. txn[t].plan \in [Adjustments -> PlanRecord]
      BY <1>1 DEF TxnRecord
    <3> QED
      BY <1>7, <3>1
  <2>2. ASSUME NEW f, NEW type
        PROVE  /\ Total(f, type, Planned(t))' = IF adj[a].employee = f /\ adj[a].type = type
                                                  THEN Total(f, type, Planned(t)) + taken
                                                  ELSE Total(f, type, Planned(t))
               /\ Total(f, type, Planned(t)) \in Nat /\ taken \in Nat
    <3>1. PICK n : n = taken
      OBVIOUS
    <3>2. n = txn'[t].plan[a].amount /\ \A b \in Adjustments : b # a => txn'[t].plan[b] = txn[t].plan[b]
      BY <2>0, <3>1
    <3>3. /\ Total(f, type, Planned(t))' = IF adj[a].employee = f /\ adj[a].type = type
                                             THEN Total(f, type, Planned(t)) + n
                                             ELSE Total(f, type, Planned(t))
          /\ Total(f, type, Planned(t)) \in Nat /\ n \in Nat
      <4>1. a \notin Holds(t) /\ adj' = adj
        BY <1>6
      <4>2. /\ adj[a].employee = f /\ adj[a].type = type
                  => TotalOf(adj, f, type, Planned(t)') = TotalOf(adj, f, type, Planned(t)) + n
            /\ ~(adj[a].employee = f /\ adj[a].type = type)
                  => TotalOf(adj, f, type, Planned(t)') = TotalOf(adj, f, type, Planned(t))
            /\ TotalOf(adj, f, type, Planned(t)) \in Nat /\ n \in Nat
        BY <2>1, <3>2, <4>1, PlanGrows
      <4>3. Total(f, type, Planned(t))' = TotalOf(adj, f, type, Planned(t)')
        BY <4>1, TotalThen
      <4>4. Total(f, type, Planned(t)) = TotalOf(adj, f, type, Planned(t))
        BY TotalNow
      <4> QED
        BY <4>2, <4>3, <4>4
    <3> QED
      BY <3>1, <3>3
  <2>3. \A b \in Adjustments : txn'[t].plan[b].amount > 0 => b = a \/ b \in Holds(t)
    BY <1>6, <2>0, <2>1, PlanGrows
  <2> QED
    BY <1>4, <1>5, <2>2, <2>3
<1>9. PlansHeld(t)'
  BY <1>4, <1>5, <1>6, <1>8 DEF PlansHeld
<1>10. SweepOK(t)'
  BY <1>4, <1>5 DEF SweepOK
<1>11. CarryOK(t)'
  <2> SUFFICES /\ \A f \in Employees :
                    /\ read[f].outcome = IF f \in txn[t].chosen THEN "OPEN" ELSE "NONE"
                    /\ read[f].payable = Total(f, "PAYABLE", Planned(t))'
                    /\ read[f].recovery = Total(f, "RECOVERY", Planned(t))'
               /\ \A b \in Holds(t) \cup {a} \cup todo : adj[b].employee \in txn[t].chosen
    BY <1>4, <1>5, <1>6 DEF CarryOK
  <2>1. /\ \A f \in Employees :
             /\ txn[t].read[f].outcome = IF f \in txn[t].chosen THEN "OPEN" ELSE "NONE"
             /\ txn[t].read[f].payable = Total(f, "PAYABLE", Planned(t))
             /\ txn[t].read[f].recovery = Total(f, "RECOVERY", Planned(t))
        /\ \A b \in Holds(t) \cup txn[t].todo : adj[b].employee \in txn[t].chosen
    BY <1>1 DEF BooksInv, CarryOK
  <2>2. ASSUME NEW f \in Employees, f # e
        PROVE  /\ read[f].outcome = IF f \in txn[t].chosen THEN "OPEN" ELSE "NONE"
               /\ read[f].payable = Total(f, "PAYABLE", Planned(t))'
               /\ read[f].recovery = Total(f, "RECOVERY", Planned(t))'
    BY <1>3, <1>8, <2>1, <2>2
  <2>3. ASSUME NEW f \in Employees, f = adj[a].employee
        PROVE  /\ read[f].outcome = IF f \in txn[t].chosen THEN "OPEN" ELSE "NONE"
               /\ read[f].payable = Total(f, "PAYABLE", Planned(t))'
               /\ read[f].recovery = Total(f, "RECOVERY", Planned(t))'
    <3>1. adj[a].type \in {"PAYABLE", "RECOVERY"} /\ txn[t].read[f] \in EntryRecord
      BY <1>1 DEF AdjRecord
    <3>2. /\ read[f].outcome = txn[t].read[f].outcome
          /\ read[f].payable = IF adj[a].type = "PAYABLE" THEN txn[t].read[f].payable + taken
                                                          ELSE txn[t].read[f].payable
          /\ read[f].recovery = IF adj[a].type = "RECOVERY" THEN txn[t].read[f].recovery + taken
                                                            ELSE txn[t].read[f].recovery
      BY <1>3, <2>3, <3>1 DEF AddAggregate, EntryRecord
    <3>3. /\ Total(f, "PAYABLE", Planned(t))' = IF adj[a].type = "PAYABLE"
                                                 THEN Total(f, "PAYABLE", Planned(t)) + taken
                                                 ELSE Total(f, "PAYABLE", Planned(t))
          /\ Total(f, "RECOVERY", Planned(t))' = IF adj[a].type = "RECOVERY"
                                                 THEN Total(f, "RECOVERY", Planned(t)) + taken
                                                 ELSE Total(f, "RECOVERY", Planned(t))
      BY <1>8, <2>3
    <3> QED
      BY <2>1, <3>2, <3>3
  <2>4. ASSUME NEW f \in Employees
        PROVE  /\ read[f].outcome = IF f \in txn[t].chosen THEN "OPEN" ELSE "NONE"
               /\ read[f].payable = Total(f, "PAYABLE", Planned(t))'
               /\ read[f].recovery = Total(f, "RECOVERY", Planned(t))'
    BY <2>2, <2>3
  <2>5. \A b \in Holds(t) \cup {a} \cup todo : adj[b].employee \in txn[t].chosen
    BY <1>2, <2>1
  <2> QED
    BY <2>4, <2>5
<1> QED
  BY <1>1, <1>6, <1>9, <1>10, <1>11, BooksQuiet DEF PlansOK

-----------------------------------------------------------------------------
(* Steps that write rows. *)

(* Reducing a balance moves the settled amount out of what remains.                   *)
LEMMA ReducedRow ==
  ASSUME NEW row \in AdjRecord, NEW n \in Nat, n <= row.remaining, NEW new, new = Reduced(row, n)
  PROVE  /\ new.remaining = row.remaining - n /\ new.payment = row.payment
         /\ new.status # "NONE" /\ (new.status = "SETTLED" <=> new.remaining = 0)
         /\ new.type = row.type /\ new.employee = row.employee /\ new.amount = row.amount
         /\ new.timing = row.timing /\ new.installment = row.installment
         /\ new \in AdjRecord
<1> DEFINE left   == row.remaining - n
           status == StatusAfter(left)
<1>1. new \in AdjRecord
  BY ReducedType
<1>2. status # "NONE" /\ (status = "SETTLED" <=> left = 0)
  BY DEF StatusAfter
<1>3. new = [row EXCEPT !.remaining = left, !.status = status]
  BY DEF Reduced, AdjRecord
<1> HIDE DEF left, status
<1>4. /\ new.remaining = left /\ new.status = status /\ new.payment = row.payment
      /\ new.type = row.type /\ new.employee = row.employee /\ new.amount = row.amount
      /\ new.timing = row.timing /\ new.installment = row.installment
  BY <1>3 DEF AdjRecord
<1> QED
  BY <1>1, <1>2, <1>4 DEF left

(* What exists keeps its owner, its type and its terms, and does not grow. *)
LEMMA MaterializedKept ==
  ASSUME IInv, IInv', OwnersKept, NEW c \in Cycles, NEW e, NEW type,
         \A a \in Adjustments : mat'[a][c].amount = mat[a][c].amount,
         RowsLinked
  PROVE  Total(e, type, Materialized(c))' = Total(e, type, Materialized(c))
<1>1. Materialized(c) \in Amounts /\ Materialized(c)' \in Amounts
  BY AmountTypes, AmountTypesThen DEF IInv
<1>2. ASSUME NEW a \in Adjustments
      PROVE  \/ Materialized(c)[a] = 0 /\ (Materialized(c)')[a] = 0
             \/ /\ Materialized(c)[a] = (Materialized(c)')[a]
                /\ adj'[a].employee = adj[a].employee /\ adj'[a].type = adj[a].type
  <2>1. Materialized(c)[a] = mat[a][c].amount /\ (Materialized(c)')[a] = mat'[a][c].amount
    BY DEF Materialized
  <2>2. CASE mat[a][c].status = "NONE"
    BY <2>1, <2>2 DEF RowsLinked
  <2>3. CASE mat[a][c].status # "NONE"
    BY <2>1, <2>3 DEF IInv, RowsOK, RowsWellFounded, OwnersKept
  <2> QED
    BY <2>2, <2>3
<1>3. TotalOf(adj', e, type, Materialized(c)') = TotalOf(adj, e, type, Materialized(c))
  BY <1>1, <1>2, TotalSame
<1> QED
  BY <1>3, TotalNow, TotalThen

(* What was consumed in a month is unchanged while its consumed rows are.             *)
LEMMA ConsumptionKept ==
  ASSUME IInv, IInv', OwnersKept, NEW c \in Cycles, NEW e, NEW type,
         \A a \in Adjustments :
            /\ mat'[a][c].status = "CONSUMED" <=> mat[a][c].status = "CONSUMED"
            /\ mat[a][c].status = "CONSUMED" => settlement'[a][c] = settlement[a][c]
  PROVE  Total(e, type, Consumption(c))' = Total(e, type, Consumption(c))
<1>1. Consumption(c) \in Amounts /\ Consumption(c)' \in Amounts
  BY AmountTypes, AmountTypesThen DEF IInv
<1>2. ASSUME NEW a \in Adjustments
      PROVE  \/ Consumption(c)[a] = 0 /\ (Consumption(c)')[a] = 0
             \/ /\ Consumption(c)[a] = (Consumption(c)')[a]
                /\ adj'[a].employee = adj[a].employee /\ adj'[a].type = adj[a].type
  <2>1. /\ Consumption(c)[a] = IF mat[a][c].status = "CONSUMED" THEN settlement[a][c] ELSE 0
        /\ (Consumption(c)')[a] = IF mat'[a][c].status = "CONSUMED" THEN settlement'[a][c] ELSE 0
    BY DEF Consumption
  <2>2. CASE mat[a][c].status # "CONSUMED"
    BY <2>1, <2>2
  <2>3. CASE mat[a][c].status = "CONSUMED"
    BY <2>1, <2>3 DEF IInv, RowsOK, RowsWellFounded, OwnersKept
  <2> QED
    BY <2>2, <2>3
<1>3. TotalOf(adj', e, type, Consumption(c)') = TotalOf(adj, e, type, Consumption(c))
  BY <1>1, <1>2, TotalSame
<1> QED
  BY <1>3, TotalNow, TotalThen

(* The rows still agree when no entry or reservation changed and settlements were     *)
(* only added to months without a consumed row.                                       *)
LEMMA EntriesUnmoved ==
  ASSUME IInv, IInv', BooksInv, OwnersKept, UNCHANGED <<entry, mat, reserved>>,
         \A c \in Cycles : cycleStatus'[c] = "NONE" => cycleStatus[c] = "NONE",
         \A a \in Adjustments, c \in Cycles :
            mat[a][c].status = "CONSUMED" => settlement'[a][c] = settlement[a][c]
  PROVE  RowsLinked' /\ DerivedColumnsAgree' /\ ConsumedIsSettled' /\ RecoveredWithinMeans'
<1>1. /\ RowsLinked /\ DerivedColumnsAgree /\ ConsumedIsSettled /\ RecoveredWithinMeans
      /\ entry' = entry /\ mat' = mat /\ reserved' = reserved
  BY DEF BooksInv, BooksAgree
<1>2. \A a \in Adjustments, c \in Cycles :
         mat[a][c].status # "NONE" => adj'[a].employee = adj[a].employee
  BY DEF IInv, RowsOK, RowsWellFounded, OwnersKept
<1>3. RowsLinked'
  BY <1>1, <1>2 DEF RowsLinked
<1>4. ConsumedIsSettled'
  BY <1>1, <1>2 DEF ConsumedIsSettled, Resolved
<1>5. DerivedColumnsAgree'
  <2>1. \A a \in Adjustments : ActiveAmounts(a)' = ActiveAmounts(a)
    BY <1>1 DEF ActiveAmounts
  <2>2. \A a \in Adjustments : reserved'[a] = SumFunctionOnSet(ActiveAmounts(a)', Cycles)
    BY <1>1, <2>1 DEF DerivedColumnsAgree
  <2>3. ASSUME NEW c \in Cycles, NEW e \in Employees, entry'[c][e].outcome # "NONE"
        PROVE  /\ entry'[c][e].payable  = Total(e, "PAYABLE", Materialized(c))'
               /\ entry'[c][e].recovery = Total(e, "RECOVERY", Materialized(c))'
    <3>1. /\ Total(e, "PAYABLE", Materialized(c))' = Total(e, "PAYABLE", Materialized(c))
          /\ Total(e, "RECOVERY", Materialized(c))' = Total(e, "RECOVERY", Materialized(c))
      BY <1>1, MaterializedKept
    <3> QED
      BY <1>1, <2>3, <3>1 DEF DerivedColumnsAgree
  <2> QED
    BY <2>2, <2>3 DEF DerivedColumnsAgree
<1>6. RecoveredWithinMeans'
  <2>1. ASSUME NEW c \in Cycles, NEW e \in Employees, Resolved(entry'[c][e])
        PROVE  Total(e, "RECOVERY", Consumption(c))' <= Bearable(entry'[c][e])
    <3>1. Total(e, "RECOVERY", Consumption(c))' = Total(e, "RECOVERY", Consumption(c))
      BY <1>1, ConsumptionKept
    <3> QED
      BY <1>1, <2>1, <3>1 DEF RecoveredWithinMeans
  <2> QED
    BY <2>1 DEF RecoveredWithinMeans
<1> QED
  BY <1>3, <1>4, <1>5, <1>6

(* With the entries unmoved, a transaction whose locked balances were left alone is   *)
(* spared.                                                                            *)
LEMMA SparedEntries ==
  ASSUME IInv, BooksInv, NEW u \in Txns, txn'[u] = txn[u], Holds(u)' = Holds(u), entry' = entry,
         \A a \in Holds(u) : settlement'[a] = settlement[a]
  PROVE  Spared(u)
<1>1. SweepOK(u) /\ txn[u].cycle \in Cycles /\ txn[u].chosen \subseteq Employees
  BY DEF BooksInv, IInv, TypeOK, TxnRecord
<1>2. \A e \in txn[u].chosen : Bearable(entry[txn[u].cycle][e]) \in Nat
  <2>1. \A e \in txn[u].chosen : entry[txn[u].cycle][e] \in EntryRecord
    BY <1>1 DEF IInv, TypeOK
  <2> QED
    BY <2>1, BearableType
<1> QED
  BY <1>1, <1>2 DEF Spared, SweepOK

History == LedgerStep /\ ReservationStep /\ ResolvedStep

(* The record of a balance that exists is what it was, or has less remaining. *)
Continues(old, new) ==
    /\ old.payment # 0 => new.payment = old.payment
    /\ new.remaining <= old.remaining
    /\ new.type = old.type /\ new.timing = old.timing /\ new.installment = old.installment
    /\ new.employee = old.employee /\ new.amount = old.amount

(* The ledger is append-only if every balance continues and settlement rows stay.     *)
LEMMA LedgerContinues ==
  ASSUME TypeOK,
         \A a \in Adjustments : adj[a].status # "NONE" \/ adj[a].payment # 0 => Continues(adj[a], adj'[a]),
         \A a \in Adjustments, c \in Cycles :
            settlement[a][c] # 0 => settlement'[a][c] = settlement[a][c]
  PROVE  LedgerStep
<1>1. ASSUME NEW a \in Adjustments, adj[a].status # "NONE",
             NEW f \in {"type", "timing", "installment", "employee", "amount"}
      PROVE  adj'[a][f] = adj[a][f]
  <2>1. Continues(adj[a], adj'[a])
    BY <1>1
  <2> QED
    BY <2>1 DEF Continues
<1> QED
  BY <1>1 DEF LedgerStep, Continues

(* A balance that stays as it is continues.                                           *)
LEMMA SameRow ==
  ASSUME TypeOK, NEW a \in Adjustments, adj'[a] = adj[a]
  PROVE  Continues(adj[a], adj'[a])
<1>1. adj[a].remaining \in Nat
  BY DEF TypeOK, AdjRecord
<1> QED
  BY <1>1 DEF Continues

(* A step that writes no row rewrites nothing that is recorded.                       *)
LEMMA QuietHistory ==
  ASSUME TypeOK, UNCHANGED rows
  PROVE  History
<1>1. /\ entry' = entry /\ mat' = mat /\ adj' = adj /\ settlement' = settlement
  BY DEF rows
<1>2. LedgerStep
  BY <1>1, SameRow, LedgerContinues
<1> QED
  BY <1>1, <1>2 DEF History, ReservationStep, ResolvedStep

(* A reduced balance still adds up with the settlement that reduced it. *)
LEMMA SettlementAddsUp ==
  ASSUME NEW row \in AdjRecord, NEW n \in Nat, n <= row.remaining, NEW new, new = Reduced(row, n),
         NEW c \in Cycles, NEW before \in [Cycles -> Nat], NEW after \in [Cycles -> Nat],
         before[c] = 0, after[c] = n, \A d \in Cycles : d # c => after[d] = before[d],
         row.amount = row.remaining + row.payment + SumFunctionOnSet(before, Cycles)
  PROVE  new.amount = new.remaining + new.payment + SumFunctionOnSet(after, Cycles)
<1>1. SumFunctionOnSet(after, Cycles) = SumFunctionOnSet(before, Cycles) - before[c] + after[c]
  <2>1. IsFiniteSet(Cycles)
    BY CyclesFinite
  <2>2. (\A d \in Cycles : before[d] \in Int) /\ (\A d \in Cycles : after[d] \in Int)
    OBVIOUS
  <2>3. \A d \in Cycles : d # c => after[d] = before[d]
    OBVIOUS
  <2> QED
    BY <2>1, <2>2, <2>3, SumChange
<1>2. before[c] = 0 /\ after[c] = n
  OBVIOUS
<1>3. SumFunctionOnSet(before, Cycles) \in Int
  BY CyclesFinite, SumType
<1>4. row.remaining \in Nat /\ row.payment \in Nat /\ row.amount \in Nat
  BY DEF AdjRecord
<1>5. new.remaining = row.remaining - n /\ new.payment = row.payment /\ new.amount = row.amount
  BY ReducedRow
<1>6. PICK s, r \in Int : s = SumFunctionOnSet(before, Cycles) /\ r = SumFunctionOnSet(after, Cycles)
  BY <1>1, <1>2, <1>3
<1> QED
  BY <1>1, <1>2, <1>4, <1>5, <1>6

(* A standalone payment moves its amount from what remains to what was paid.          *)
LEMMA BooksPayStandalone ==
  ASSUME IInv, IInv', BooksInv, NEW t \in Txns, NEW a \in Adjustments, PayStandalone(t, a)
  PROVE  BooksInv' /\ History
<1> DEFINE n       == txn[t].plan[a].amount
           reduced == Reduced(adj[a], n)
           row     == [reduced EXCEPT !.payment = n]
<1>1. /\ a \in Holds(t) /\ End(t) /\ adj' = [adj EXCEPT ![a] = row]
      /\ UNCHANGED <<cycleStatus, entry, departed, mat, settlement, reserved>>
      /\ txn[t].kind = "payment" /\ txn[t].pc = "write" /\ adj[a].payment = 0
  BY DEF PayStandalone
<1>2. /\ n \in Nat /\ n <= adj[a].remaining /\ adj[a] \in AdjRecord /\ adj[a].remaining \in Nat
  <2>1. /\ n \in Nat /\ adj[a] \in AdjRecord /\ adj[a].remaining \in Nat /\ reserved[a] \in Nat
    BY DEF IInv, TypeOK, TxnRecord, PlanRecord, AdjRecord
  <2>2. n <= adj[a].remaining - reserved[a]
    BY <1>1 DEF IInv, TransactionOK, LockedFigures
  <2> QED
    BY <2>1, <2>2
<1> HIDE DEF n
<1>3. /\ row.remaining = adj[a].remaining - n /\ row.payment = n
      /\ row.status # "NONE" /\ (row.status = "SETTLED" <=> row.remaining = 0)
      /\ row.type = adj[a].type /\ row.employee = adj[a].employee /\ row.amount = adj[a].amount
      /\ row.timing = adj[a].timing /\ row.installment = adj[a].installment
  <2>1. /\ reduced.remaining = adj[a].remaining - n
        /\ reduced.status # "NONE" /\ (reduced.status = "SETTLED" <=> reduced.remaining = 0)
        /\ reduced.type = adj[a].type /\ reduced.employee = adj[a].employee
        /\ reduced.amount = adj[a].amount /\ reduced.timing = adj[a].timing
        /\ reduced.installment = adj[a].installment /\ reduced \in AdjRecord
    BY <1>2, ReducedRow
  <2> HIDE DEF reduced
  <2> QED
    BY <2>1 DEF AdjRecord
<1> HIDE DEF row
<1>4. /\ adj'[a] = row /\ \A b \in Adjustments : b # a => adj'[b] = adj[b]
      /\ settlement' = settlement /\ entry' = entry /\ mat' = mat /\ reserved' = reserved
      /\ cycleStatus' = cycleStatus
  BY <1>1 DEF IInv, TypeOK
<1>5. \A b \in Adjustments : Continues(adj[b], adj'[b])
  <2>1. Continues(adj[a], row)
    BY <1>1, <1>2, <1>3 DEF Continues
  <2> QED
    BY <1>4, <2>1, SameRow DEF IInv
<1>6. OwnersKept
  BY <1>5 DEF OwnersKept, Continues
<1>7. RowsAgree'
  <2>1. Conserved'
    <3> SUFFICES ASSUME NEW b \in Adjustments
                 PROVE  /\ adj'[b].amount = adj'[b].remaining + adj'[b].payment
                                              + SumFunctionOnSet(settlement[b], Cycles)
                        /\ adj'[b].status = "SETTLED" <=> adj'[b].status # "NONE" /\ adj'[b].remaining = 0
      BY <1>4 DEF Conserved
    <3>1. /\ adj[b].amount = adj[b].remaining + adj[b].payment + SumFunctionOnSet(settlement[b], Cycles)
          /\ adj[b].status = "SETTLED" <=> adj[b].status # "NONE" /\ adj[b].remaining = 0
      BY DEF BooksInv, BooksAgree, Conserved
    <3>2. CASE b # a
      BY <1>4, <3>1, <3>2
    <3>3. CASE b = a
      <4>1. SumFunctionOnSet(settlement[a], Cycles) \in Int
        BY CyclesFinite, SumType, ActiveType DEF IInv
      <4>2. PICK s \in Int : s = SumFunctionOnSet(settlement[a], Cycles)
        BY <4>1
      <4> QED
        BY <1>1, <1>2, <1>3, <1>4, <3>1, <3>3, <4>2
    <3> QED
      BY <3>2, <3>3
  <2> QED
    BY <1>4, <1>6, <2>1, EntriesUnmoved DEF RowsAgree, BooksAgree
<1>8. ASSUME NEW u \in Txns \ {t}  PROVE Spared(u)
  <2>1. txn'[u] = txn[u] /\ Holds(u)' = Holds(u)
    BY <1>1, <1>8, Ended DEF End, Becomes, LocksKept, IInv, TypeOK
  <2> QED
    BY <1>4, <2>1, SparedEntries
<1>9. BooksInv'
  BY <1>1, <1>6, <1>7, <1>8, BooksEnd, BooksComposed
<1>10. History
  <2>1. LedgerStep
    BY <1>4, <1>5, LedgerContinues DEF IInv
  <2> QED
    BY <1>4, <2>1 DEF History, ReservationStep, ResolvedStep
<1> QED
  BY <1>9, <1>10

(* A manual settlement moves its amount from what remains to the row of its month,    *)
(* which did not have one.                                                            *)
LEMMA BooksSettle ==
  ASSUME IInv, IInv', BooksInv, NEW t \in Txns, NEW a \in Adjustments, Settle(t, a)
  PROVE  BooksInv' /\ History
<1> DEFINE n   == txn[t].plan[a].amount
           c   == txn[t].cycle
           row == Reduced(adj[a], n)
<1>1. /\ a \in Holds(t) /\ End(t) /\ adj' = [adj EXCEPT ![a] = row]
      /\ settlement' = [settlement EXCEPT ![a][c] = n] /\ settlement[a][c] = 0
      /\ UNCHANGED <<cycleStatus, entry, departed, mat, reserved>>
      /\ txn[t].kind = "settle" /\ txn[t].pc = "write"
  BY DEF Settle
<1>2. /\ n \in Nat /\ n <= adj[a].remaining /\ adj[a] \in AdjRecord /\ adj[a].remaining \in Nat
      /\ c \in Cycles /\ settlement \in [Adjustments -> [Cycles -> Nat]]
  <2>1. /\ n \in Nat /\ adj[a] \in AdjRecord /\ adj[a].remaining \in Nat /\ reserved[a] \in Nat
        /\ c \in Cycles /\ settlement \in [Adjustments -> [Cycles -> Nat]]
    BY DEF IInv, TypeOK, TxnRecord, PlanRecord, AdjRecord
  <2>2. n <= adj[a].remaining - reserved[a]
    BY <1>1 DEF IInv, TransactionOK, LockedFigures
  <2> QED
    BY <2>1, <2>2
<1> HIDE DEF n
<1>3. /\ row.remaining = adj[a].remaining - n /\ row.payment = adj[a].payment
      /\ row.status # "NONE" /\ (row.status = "SETTLED" <=> row.remaining = 0)
      /\ row.type = adj[a].type /\ row.employee = adj[a].employee /\ row.amount = adj[a].amount
      /\ row.timing = adj[a].timing /\ row.installment = adj[a].installment
  BY <1>2, ReducedRow
<1>4. /\ adj'[a] = row /\ \A b \in Adjustments : b # a => adj'[b] = adj[b] /\ settlement'[b] = settlement[b]
      /\ settlement'[a] = [settlement[a] EXCEPT ![c] = n]
      /\ entry' = entry /\ mat' = mat /\ reserved' = reserved /\ cycleStatus' = cycleStatus
  BY <1>1, <1>2 DEF IInv, TypeOK
<1>5. \A b \in Adjustments : Continues(adj[b], adj'[b])
  <2>1. Continues(adj[a], row)
    BY <1>1, <1>2, <1>3 DEF Continues
  <2> QED
    BY <1>4, <2>1, SameRow DEF IInv
<1>6. OwnersKept
  BY <1>5 DEF OwnersKept, Continues
<1>7. \A b \in Adjustments, d \in Cycles : settlement[b][d] # 0 => settlement'[b][d] = settlement[b][d]
  BY <1>1, <1>2, <1>4
<1>8. RowsAgree'
  <2>1. Conserved'
    <3> SUFFICES ASSUME NEW b \in Adjustments
                 PROVE  /\ adj'[b].amount = adj'[b].remaining + adj'[b].payment
                                              + SumFunctionOnSet(settlement'[b], Cycles)
                        /\ adj'[b].status = "SETTLED" <=> adj'[b].status # "NONE" /\ adj'[b].remaining = 0
      BY DEF Conserved
    <3>1. /\ adj[b].amount = adj[b].remaining + adj[b].payment + SumFunctionOnSet(settlement[b], Cycles)
          /\ adj[b].status = "SETTLED" <=> adj[b].status # "NONE" /\ adj[b].remaining = 0
      BY DEF BooksInv, BooksAgree, Conserved
    <3>2. CASE b # a
      BY <1>4, <3>1, <3>2
    <3>3. CASE b = a
      <4>1. PICK old, new, before, after :
               /\ old = adj[a] /\ new = row /\ before = settlement[a] /\ after = settlement'[a]
        OBVIOUS
      <4>2. old \in AdjRecord /\ n <= old.remaining /\ new = Reduced(old, n)
        BY <1>2, <4>1
      <4>3. /\ before \in [Cycles -> Nat] /\ after \in [Cycles -> Nat]
            /\ before[c] = 0 /\ after[c] = n /\ \A d \in Cycles : d # c => after[d] = before[d]
        BY <1>1, <1>2, <1>4, <4>1
      <4>4. old.amount = old.remaining + old.payment + SumFunctionOnSet(before, Cycles)
        BY <3>1, <3>3, <4>1
      <4> HIDE DEF c, row
      <4>5. new.amount = new.remaining + new.payment + SumFunctionOnSet(after, Cycles)
        BY <1>2, <4>2, <4>3, <4>4, SettlementAddsUp
      <4> QED
        BY <1>3, <1>4, <3>3, <4>1, <4>5
    <3> QED
      BY <3>2, <3>3
  <2>2. \A b \in Adjustments, d \in Cycles :
           mat[b][d].status = "CONSUMED" => settlement'[b][d] = settlement[b][d]
    <3>1. \A b \in Adjustments, d \in Cycles : mat[b][d].status = "CONSUMED" => settlement[b][d] # 0
      BY DEF BooksInv, BooksAgree, ConsumedIsSettled
    <3> QED
      BY <1>7, <3>1
  <2> QED
    BY <1>4, <1>6, <2>1, <2>2, EntriesUnmoved DEF RowsAgree, BooksAgree
<1>9. ASSUME NEW u \in Txns \ {t}  PROVE Spared(u)
  <2>1. txn'[u] = txn[u] /\ Holds(u)' = Holds(u)
    BY <1>1, <1>9, Ended DEF End, Becomes, LocksKept, IInv, TypeOK
  <2>2. a \notin Holds(u) /\ Holds(u) \subseteq Adjustments
    BY <1>1, <1>9 DEF Holds
  <2> QED
    BY <1>4, <2>1, <2>2, SparedEntries
<1>10. BooksInv'
  BY <1>1, <1>6, <1>8, <1>9, BooksEnd, BooksComposed
<1>11. History
  <2>1. LedgerStep
    BY <1>5, <1>7, LedgerContinues DEF IInv
  <2> QED
    BY <1>4, <2>1 DEF History, ReservationStep, ResolvedStep
<1> QED
  BY <1>10, <1>11

(* Finalizing writes no amount.                                                       *)
LEMMA BooksFinalize ==
  ASSUME IInv, IInv', BooksInv, NEW t \in Txns, Finalize(t)
  PROVE  BooksInv' /\ History
<1>1. /\ End(t) /\ entry' = entry /\ mat' = mat /\ reserved' = reserved /\ adj' = adj
      /\ settlement' = settlement
      /\ \A c \in Cycles : cycleStatus'[c] = "NONE" => cycleStatus[c] = "NONE"
  BY DEF Finalize, IInv, TypeOK
<1>2. OwnersKept
  BY <1>1 DEF OwnersKept
<1>3. RowsAgree'
  <2>1. Conserved'
    BY <1>1 DEF BooksInv, BooksAgree, Conserved
  <2> QED
    BY <1>1, <1>2, <2>1, EntriesUnmoved DEF RowsAgree, BooksAgree
<1>4. ASSUME NEW u \in Txns \ {t}  PROVE Spared(u)
  <2>1. txn'[u] = txn[u] /\ Holds(u)' = Holds(u)
    BY <1>1, <1>4, Ended DEF End, Becomes, LocksKept, IInv, TypeOK
  <2> QED
    BY <1>1, <2>1, SparedEntries
<1>5. BooksInv'
  BY <1>1, <1>2, <1>3, <1>4, BooksEnd, BooksComposed
<1>6. History
  <2>1. LedgerStep
    BY <1>1, SameRow, LedgerContinues DEF IInv
  <2> QED
    BY <1>1, <2>1 DEF History, ReservationStep, ResolvedStep
<1> QED
  BY <1>5, <1>6

(* Adding to a correction column changes that column only.                            *)
LEMMA AggregateRow ==
  ASSUME NEW row \in EntryRecord, NEW type \in {"PAYABLE", "RECOVERY"}, NEW n \in Nat,
         NEW new, new = AddAggregate(row, type, n)
  PROVE  /\ new.outcome = row.outcome /\ new.hold = row.hold
         /\ new.earnings = row.earnings /\ new.net = row.net
         /\ new.payable = IF type = "PAYABLE" THEN row.payable + n ELSE row.payable
         /\ new.recovery = IF type = "RECOVERY" THEN row.recovery + n ELSE row.recovery
  BY DEF AddAggregate, EntryRecord

(* Who can bear more once more is payable to him. *)
LEMMA BearableGrows ==
  ASSUME NEW old \in EntryRecord, NEW new \in EntryRecord,
         new.earnings = old.earnings, old.payable <= new.payable
  PROVE  Bearable(old) <= Bearable(new)
<1>1. old.earnings \in Earnings /\ old.payable \in Nat /\ new.payable \in Nat
  BY DEF EntryRecord
<1>2. LegacyFigure[old.earnings] \in Int
  BY <1>1, LegacyAssumption
<1> QED
  BY <1>1, <1>2 DEF Bearable, Greater

(* A reservation adds its amount to the reserved amount of its balance and to the     *)
(* column of its entry, and to no other.                                              *)
LEMMA BooksReserve ==
  ASSUME IInv, IInv', BooksInv, NEW t \in Txns, NEW a \in Adjustments, Reserve(t, a)
  PROVE  BooksInv' /\ History
<1> DEFINE n    == txn[t].plan[a].amount
           c    == txn[t].cycle
           e    == adj[a].employee
           row  == AddAggregate(entry[c][e], adj[a].type, n)
           held == [status |-> "ACTIVE", amount |-> n]
<1>1. /\ a \in Holds(t) /\ NextCandidate(t) /\ mat[a][c].status = "NONE"
      /\ entry[c][e].outcome # "NONE"
      /\ mat' = [mat EXCEPT ![a][c] = held]
      /\ reserved' = [reserved EXCEPT ![a] = reserved[a] + n]
      /\ entry' = [entry EXCEPT ![c][e] = row]
      /\ UNCHANGED <<cycleStatus, departed, adj, settlement>>
      /\ txn[t].kind \in {"materialize", "batch"} /\ txn[t].pc = "write"
  BY DEF Reserve
<1>2. /\ n \in Nat /\ c \in Cycles /\ adj[a] \in AdjRecord /\ reserved[a] \in Nat
      /\ adj[a].type \in {"PAYABLE", "RECOVERY"}
  <2>1. txn[t] \in TxnRecord /\ adj[a] \in AdjRecord /\ reserved[a] \in Nat
    BY DEF IInv, TypeOK
  <2> QED
    BY <2>1 DEF TxnRecord, PlanRecord, AdjRecord
<1>3. adj[a].status # "NONE" /\ e \in Employees /\ cycleStatus[c] = "DRAFT"
  BY <1>1 DEF IInv, TransactionOK, LocksHeld, LockedCycle, RowsOK, RowsWellFounded
<1>4. entry[c][e] \in EntryRecord
  BY <1>2, <1>3 DEF IInv, TypeOK
<1> HIDE DEF n
<1>5. /\ row.outcome = entry[c][e].outcome /\ row.earnings = entry[c][e].earnings
      /\ row.net = entry[c][e].net
      /\ row.payable = IF adj[a].type = "PAYABLE" THEN entry[c][e].payable + n ELSE entry[c][e].payable
      /\ row.recovery = IF adj[a].type = "RECOVERY" THEN entry[c][e].recovery + n ELSE entry[c][e].recovery
  BY <1>2, <1>4, AggregateRow
<1>6. held.status = "ACTIVE" /\ held.amount = n
  OBVIOUS
<1> HIDE DEF row, held
<1>7. /\ mat'[a][c] = held
      /\ \A b \in Adjustments, d \in Cycles : b # a \/ d # c => mat'[b][d] = mat[b][d]
      /\ \A b \in Adjustments : b # a => mat'[b] = mat[b]
  BY <1>1, <1>2 DEF IInv, TypeOK
<1>8. reserved'[a] = reserved[a] + n /\ \A b \in Adjustments : b # a => reserved'[b] = reserved[b]
  BY <1>1 DEF IInv, TypeOK
<1>9. /\ entry'[c][e] = row
      /\ \A d \in Cycles, f \in Employees : d # c \/ f # e => entry'[d][f] = entry[d][f]
  BY <1>1, <1>2, <1>3 DEF IInv, TypeOK
<1>10. adj' = adj /\ settlement' = settlement /\ cycleStatus' = cycleStatus
  BY <1>1
<1>11. OwnersKept
  BY <1>10 DEF OwnersKept
<1>12. ASSUME NEW d \in Cycles, NEW f \in Employees
       PROVE  /\ entry'[d][f].outcome = entry[d][f].outcome
              /\ entry'[d][f].earnings = entry[d][f].earnings
              /\ entry'[d][f].net = entry[d][f].net
              /\ Bearable(entry[d][f]) <= Bearable(entry'[d][f])
              /\ Bearable(entry[d][f]) \in Nat /\ Bearable(entry'[d][f]) \in Nat
  <2>1. entry[d][f] \in EntryRecord /\ entry'[d][f] \in EntryRecord
    BY DEF IInv, TypeOK
  <2>2. /\ entry'[d][f].outcome = entry[d][f].outcome
        /\ entry'[d][f].earnings = entry[d][f].earnings
        /\ entry'[d][f].net = entry[d][f].net
    BY <1>5, <1>9
  <2>3. entry[d][f].payable <= entry'[d][f].payable
    <3>1. entry[d][f].payable \in Nat
      BY <2>1 DEF EntryRecord
    <3> QED
      BY <1>2, <1>5, <1>9, <3>1
  <2> QED
    BY <2>1, <2>2, <2>3, BearableGrows, BearableType
<1>13. RowsAgree'
  <2>1. RowsLinked'
    <3>1. \A d \in Cycles, f \in Employees : cycleStatus[d] = "NONE" => entry[d][f].outcome = "NONE"
      BY DEF BooksInv, RowsLinked
    <3>2. \A b \in Adjustments, d \in Cycles :
             /\ mat[b][d].status = "NONE" => mat[b][d].amount = 0
             /\ mat[b][d].status # "NONE" => entry[d][adj[b].employee].outcome # "NONE"
                                             /\ adj[b].employee \in Employees
      BY DEF BooksInv, RowsLinked, IInv, RowsOK, RowsWellFounded
    <3>3. \A d \in Cycles, f \in Employees : cycleStatus'[d] = "NONE" => entry'[d][f].outcome = "NONE"
      BY <1>10, <1>12, <3>1
    <3>4. ASSUME NEW b \in Adjustments, NEW d \in Cycles
          PROVE  /\ mat'[b][d].status = "NONE" => mat'[b][d].amount = 0
                 /\ mat'[b][d].status # "NONE" => entry'[d][adj'[b].employee].outcome # "NONE"
      <4>1. CASE b = a /\ d = c
        BY <1>1, <1>3, <1>6, <1>7, <1>10, <1>12, <4>1
      <4>2. CASE b # a \/ d # c
        BY <1>7, <1>10, <1>12, <3>2, <4>2
      <4> QED
        BY <4>1, <4>2
    <3> QED
      BY <3>3, <3>4 DEF RowsLinked
  <2>2. Conserved'
    BY <1>10 DEF BooksInv, BooksAgree, Conserved
  <2>3. \A b \in Adjustments : reserved'[b] = SumFunctionOnSet(ActiveAmounts(b)', Cycles)
    <3> SUFFICES ASSUME NEW b \in Adjustments
                 PROVE  reserved'[b] = SumFunctionOnSet(ActiveAmounts(b)', Cycles)
      OBVIOUS
    <3>1. reserved[b] = SumFunctionOnSet(ActiveAmounts(b), Cycles)
      BY DEF BooksInv, BooksAgree, DerivedColumnsAgree
    <3>2. CASE b # a
      <4>1. ActiveAmounts(b)' = ActiveAmounts(b)
        BY <1>7, <3>2 DEF ActiveAmounts
      <4> QED
        BY <1>8, <3>1, <3>2, <4>1
    <3>3. CASE b = a
      <4>1. PICK f, g : f = ActiveAmounts(a) /\ g = ActiveAmounts(a)'
        OBVIOUS
      <4>2. /\ f[c] = 0 /\ g[c] = n /\ \A d \in Cycles : d # c => g[d] = f[d]
        BY <1>1, <1>2, <1>6, <1>7, <4>1 DEF ActiveAmounts
      <4>3. \A d \in Cycles : f[d] \in Int
        BY <4>1, ActiveType DEF IInv
      <4>4. \A d \in Cycles : g[d] \in Int
        BY <1>2, <4>2, <4>3
      <4>5. \A d \in Cycles : d # c => g[d] = f[d]
        BY <4>2
      <4>6. SumFunctionOnSet(g, Cycles) = SumFunctionOnSet(f, Cycles) - f[c] + g[c]
        <5>1. c \in Cycles /\ IsFiniteSet(Cycles)
          BY <1>2, CyclesFinite
        <5> HIDE DEF c, e
        <5> QED
          BY <4>3, <4>4, <4>5, <5>1, SumChange
      <4>7. reserved[a] = SumFunctionOnSet(f, Cycles)
        BY <3>1, <3>3, <4>1
      <4>8. reserved'[a] = SumFunctionOnSet(g, Cycles)
        BY <1>2, <1>8, <4>2, <4>6, <4>7
      <4> QED
        BY <3>3, <4>1, <4>8
    <3> QED
      BY <3>2, <3>3
  <2>4. ASSUME NEW d \in Cycles, NEW f \in Employees, entry'[d][f].outcome # "NONE"
        PROVE  /\ entry'[d][f].payable  = Total(f, "PAYABLE", Materialized(d))'
               /\ entry'[d][f].recovery = Total(f, "RECOVERY", Materialized(d))'
    <3>1. /\ entry[d][f].payable  = Total(f, "PAYABLE", Materialized(d))
          /\ entry[d][f].recovery = Total(f, "RECOVERY", Materialized(d))
      BY <1>12, <2>4 DEF BooksInv, BooksAgree, DerivedColumnsAgree
    <3>2. CASE d # c
      <4>1. \A b \in Adjustments : mat'[b][d].amount = mat[b][d].amount
        BY <1>7, <3>2
      <4>2. /\ Total(f, "PAYABLE", Materialized(d))' = Total(f, "PAYABLE", Materialized(d))
            /\ Total(f, "RECOVERY", Materialized(d))' = Total(f, "RECOVERY", Materialized(d))
        BY <1>11, <4>1, MaterializedKept DEF BooksInv
      <4> QED
        BY <1>9, <3>1, <3>2, <4>2
    <3>3. CASE d = c
      <4>1. ASSUME NEW type
            PROVE  Total(f, type, Materialized(d))' =
                     IF adj[a].employee = f /\ adj[a].type = type
                       THEN Total(f, type, Materialized(d)) + n
                       ELSE Total(f, type, Materialized(d))
        <5>1. PICK before, after : before = Materialized(d) /\ after = Materialized(d)'
          OBVIOUS
        <5>2. before \in Amounts /\ after \in Amounts
          BY <5>1, AmountTypes, AmountTypesThen DEF IInv
        <5>3. \A b \in Adjustments : before[b] = mat[b][d].amount /\ after[b] = mat'[b][d].amount
          BY <5>1 DEF Materialized
        <5>4. before[a] = 0
          BY <1>1, <1>2, <3>3, <5>3 DEF BooksInv, RowsLinked
        <5>5. after[a] = n /\ \A b \in Adjustments : b # a => after[b] = before[b]
          BY <1>6, <1>7, <3>3, <5>3
        <5>6. TotalOf(adj, f, type, after) =
                IF adj[a].employee = f /\ adj[a].type = type
                  THEN TotalOf(adj, f, type, before) + after[a]
                  ELSE TotalOf(adj, f, type, before)
          BY <5>2, <5>4, <5>5, TotalAdded
        <5>7. /\ Total(f, type, Materialized(d)) = TotalOf(adj, f, type, before)
              /\ Total(f, type, Materialized(d))' = TotalOf(adj, f, type, after)
          BY <1>10, <5>1, TotalNow, TotalThen
        <5> QED
          BY <5>5, <5>6, <5>7
      <4>2. CASE f # e
        BY <1>9, <3>1, <4>1, <4>2
      <4>3. CASE f = adj[a].employee
        <5>1. entry'[d][f] = row /\ entry[d][f] = entry[c][e]
          BY <1>9, <3>3, <4>3
        <5>2. /\ Total(f, "PAYABLE", Materialized(d))' =
                   IF adj[a].type = "PAYABLE" THEN Total(f, "PAYABLE", Materialized(d)) + n
                                              ELSE Total(f, "PAYABLE", Materialized(d))
              /\ Total(f, "RECOVERY", Materialized(d))' =
                   IF adj[a].type = "RECOVERY" THEN Total(f, "RECOVERY", Materialized(d)) + n
                                               ELSE Total(f, "RECOVERY", Materialized(d))
          BY <4>1, <4>3
        <5> QED
          BY <1>5, <3>1, <5>1, <5>2
      <4> QED
        BY <4>2, <4>3
    <3> QED
      BY <3>2, <3>3
  <2>5. ConsumedIsSettled'
    <3>1. ASSUME NEW b \in Adjustments, NEW d \in Cycles, mat'[b][d].status = "CONSUMED"
          PROVE  /\ settlement'[b][d] \in 1 .. mat'[b][d].amount
                 /\ Resolved(entry'[d][adj'[b].employee])
      <4>1. mat'[b][d] = mat[b][d] /\ adj[b].employee \in Employees
        BY <1>6, <1>7, <3>1 DEF IInv, RowsOK, RowsWellFounded
      <4>2. settlement[b][d] \in 1 .. mat[b][d].amount /\ Resolved(entry[d][adj[b].employee])
        BY <3>1, <4>1 DEF BooksInv, BooksAgree, ConsumedIsSettled
      <4> QED
        BY <1>10, <1>12, <4>1, <4>2 DEF Resolved
    <3> QED
      BY <3>1 DEF ConsumedIsSettled
  <2>6. RecoveredWithinMeans'
    <3>1. ASSUME NEW d \in Cycles, NEW f \in Employees, Resolved(entry'[d][f])
          PROVE  Total(f, "RECOVERY", Consumption(d))' <= Bearable(entry'[d][f])
      <4>1. \A b \in Adjustments : mat'[b][d].status = "CONSUMED" <=> mat[b][d].status = "CONSUMED"
        BY <1>1, <1>6, <1>7
      <4>2. Total(f, "RECOVERY", Consumption(d))' = Total(f, "RECOVERY", Consumption(d))
        BY <1>10, <1>11, <4>1, ConsumptionKept
      <4>3. Total(f, "RECOVERY", Consumption(d)) <= Bearable(entry[d][f])
        BY <1>12, <3>1 DEF BooksInv, BooksAgree, RecoveredWithinMeans, Resolved
      <4>4. Total(f, "RECOVERY", Consumption(d)) \in Nat
        BY TotalNow, TotalType, AmountTypes DEF IInv
      <4> QED
        BY <1>12, <4>2, <4>3, <4>4
    <3> QED
      BY <3>1 DEF RecoveredWithinMeans
  <2>7. DerivedColumnsAgree'
    BY <2>3, <2>4 DEF DerivedColumnsAgree
  <2> QED
    BY <2>1, <2>2, <2>5, <2>6, <2>7 DEF RowsAgree, BooksAgree
<1>14. PICK r : Becomes(t, r) /\ r.kind \notin {"release", "rollover"}
  BY <1>1, BooksCandidate DEF IInv
<1>15. txn'[t] = r /\ \A u \in Txns \ {t} : txn'[u] = txn[u]
  BY <1>14 DEF Becomes, IInv, TypeOK
<1>16. PlansOK(t)'
  BY <1>14, <1>15, OtherKinds
<1>17. ASSUME NEW u \in Txns \ {t}  PROVE Spared(u)
  <2>1. txn'[u] = txn[u] /\ Holds(u)' = Holds(u)
    BY <1>1, <1>15, <1>17, LocksReleased DEF NextCandidate, LocksKept, IInv
  <2>2. SweepOK(u) /\ txn[u].cycle \in Cycles /\ txn[u].chosen \subseteq Employees
    BY DEF BooksInv, IInv, TypeOK, TxnRecord
  <2> QED
    BY <1>10, <1>12, <2>1, <2>2 DEF Spared, SweepOK, Resolved
<1>18. BooksInv'
  BY <1>11, <1>13, <1>16, <1>17, BooksComposed
<1>19. History
  <2>1. LedgerStep
    BY <1>10, SameRow, LedgerContinues DEF IInv
  <2>2. ReservationStep
    BY <1>1, <1>6, <1>7 DEF ReservationStep
  <2>3. ResolvedStep
    <3>1. ASSUME NEW d \in Cycles, NEW f \in Employees, NEW field \in {"outcome", "earnings", "net"}
          PROVE  entry'[d][f][field] = entry[d][f][field]
      BY <1>12
    <3> QED
      BY <3>1 DEF ResolvedStep
  <2> QED
    BY <2>1, <2>2, <2>3 DEF History
<1> QED
  BY <1>18, <1>19

(* The commit of a rollover writes the planned reservations and the entries that      *)
(* carry their totals, in a month that had neither.                                   *)
LEMMA BooksStartNextCycle ==
  ASSUME IInv, IInv', BooksInv, NEW t \in Txns, StartNextCycle(t)
  PROVE  BooksInv' /\ History
<1> DEFINE c       == txn[t].cycle
           next    == c + 1
           read    == txn[t].read
           plan    == txn[t].plan
           Carried == {a \in Holds(t) : plan[a].amount > 0}
           carried(a) == [status |-> "ACTIVE", amount |-> plan[a].amount]
<1>1. /\ txn[t].kind = "rollover" /\ txn[t].pc = "carry" /\ txn[t].todo = {}
      /\ cycleStatus[next] = "NONE"
      /\ cycleStatus' = [cycleStatus EXCEPT ![c] = "ARCHIVED", ![next] = "DRAFT"]
      /\ entry' = [entry EXCEPT ![next] = read]
      /\ mat' = [a \in Adjustments |->
                   IF a \in Carried THEN [mat[a] EXCEPT ![next] = carried(a)] ELSE mat[a]]
      /\ reserved' = [a \in Adjustments |->
                        IF a \in Carried THEN reserved[a] + plan[a].amount ELSE reserved[a]]
      /\ End(t) /\ adj' = adj /\ settlement' = settlement
  BY DEF StartNextCycle
<1>2. /\ c \in Cycles /\ plan \in [Adjustments -> PlanRecord]
      /\ read \in [Employees -> EntryRecord] /\ txn[t].chosen \subseteq Employees
  BY DEF IInv, TypeOK, TxnRecord
<1>3. next \in Cycles /\ next # c
  <2>1. next \in Cycles
    BY <1>1 DEF IInv, TransactionOK, LocksHeld
  <2> QED
    BY <1>2, <2>1 DEF Cycles
<1>4. \A a \in Adjustments : plan[a].amount \in Nat /\ carried(a).status = "ACTIVE"
                             /\ carried(a).amount = plan[a].amount
  BY <1>2 DEF PlanRecord
<1>5. \A a \in Adjustments : mat[a][next].status = "NONE" /\ mat[a][next].amount = 0
  BY <1>1, <1>3 DEF IInv, RowsOK, RowsWellFounded, BooksInv, RowsLinked
<1>6. \A e \in Employees : entry[next][e].outcome = "NONE"
  BY <1>1, <1>3 DEF BooksInv, RowsLinked
<1>7. \A a \in Adjustments : plan[a].amount > 0 => a \in Carried
  BY <1>1 DEF BooksInv, PlansHeld
<1>8. \A a \in Carried : /\ a \in Adjustments /\ adj[a].employee \in Employees
                         /\ adj[a].employee \in txn[t].chosen /\ adj[a].status # "NONE"
  <2>1. \A a \in Carried : a \in Adjustments /\ adj[a].status # "NONE"
    BY HeldExist
  <2> QED
    BY <1>1, <2>1 DEF BooksInv, CarryOK, IInv, RowsOK, RowsWellFounded
<1>9. \A e \in Employees :
         /\ read[e].outcome = IF e \in txn[t].chosen THEN "OPEN" ELSE "NONE"
         /\ read[e].payable = Total(e, "PAYABLE", Planned(t))
         /\ read[e].recovery = Total(e, "RECOVERY", Planned(t))
  BY <1>1 DEF BooksInv, CarryOK
<1> HIDE DEF carried, Carried, read, plan, next
<1>10. /\ \A a \in Adjustments : mat'[a][next] = IF a \in Carried THEN carried(a) ELSE mat[a][next]
       /\ \A a \in Adjustments, d \in Cycles : d # next => mat'[a][d] = mat[a][d]
       /\ \A a \in Adjustments : a \notin Carried => mat'[a] = mat[a]
  BY <1>1, <1>3 DEF IInv, TypeOK
<1>11. /\ entry'[next] = read /\ \A d \in Cycles : d # next => entry'[d] = entry[d]
       /\ \A d \in Cycles : cycleStatus'[d] = "NONE" => cycleStatus[d] = "NONE" /\ d # next
  BY <1>1, <1>2, <1>3 DEF IInv, TypeOK
<1>12. OwnersKept
  BY <1>1 DEF OwnersKept
<1>13. \A a \in Adjustments, d \in Cycles : mat[a][d].status # "NONE" => adj[a].employee \in Employees
  BY DEF IInv, RowsOK, RowsWellFounded
<1>14. RowsAgree'
  <2>1. RowsLinked'
    <3>1. ASSUME NEW d \in Cycles, NEW e \in Employees, cycleStatus'[d] = "NONE"
          PROVE  entry'[d][e].outcome = "NONE"
      BY <1>11, <3>1 DEF BooksInv, RowsLinked
    <3>2. ASSUME NEW a \in Adjustments, NEW d \in Cycles
          PROVE  /\ mat'[a][d].status = "NONE" => mat'[a][d].amount = 0
                 /\ mat'[a][d].status # "NONE" => entry'[d][adj'[a].employee].outcome # "NONE"
      <4>1. CASE d # next
        <5>1. mat'[a][d] = mat[a][d] /\ entry'[d] = entry[d]
          BY <1>10, <1>11, <4>1
        <5> QED
          BY <1>1, <5>1 DEF BooksInv, RowsLinked
      <4>2. CASE d = next /\ a \in Carried
        BY <1>1, <1>4, <1>8, <1>9, <1>10, <1>11, <4>2
      <4>3. CASE d = next /\ a \notin Carried
        BY <1>5, <1>10, <4>3
      <4> QED
        BY <4>1, <4>2, <4>3
    <3> QED
      BY <3>1, <3>2 DEF RowsLinked
  <2>2. Conserved'
    BY <1>1 DEF BooksInv, BooksAgree, Conserved
  <2>3. \A a \in Adjustments : reserved'[a] = SumFunctionOnSet(ActiveAmounts(a)', Cycles)
    <3> SUFFICES ASSUME NEW a \in Adjustments
                 PROVE  reserved'[a] = SumFunctionOnSet(ActiveAmounts(a)', Cycles)
      OBVIOUS
    <3>1. reserved[a] = SumFunctionOnSet(ActiveAmounts(a), Cycles)
      BY DEF BooksInv, BooksAgree, DerivedColumnsAgree
    <3>2. CASE a \notin Carried
      <4>1. ActiveAmounts(a)' = ActiveAmounts(a)
        BY <1>10, <3>2 DEF ActiveAmounts
      <4> QED
        BY <1>1, <3>1, <3>2, <4>1
    <3>3. CASE a \in Carried
      <4>1. PICK f, g : f = ActiveAmounts(a) /\ g = ActiveAmounts(a)'
        OBVIOUS
      <4>2. PICK n : n = plan[a].amount
        OBVIOUS
      <4>3. f[next] = 0 /\ g[next] = n
        BY <1>3, <1>4, <1>5, <1>10, <3>3, <4>1, <4>2 DEF ActiveAmounts
      <4>4. \A d \in Cycles : d # next => g[d] = f[d]
        BY <1>10, <4>1 DEF ActiveAmounts
      <4>5. \A d \in Cycles : f[d] \in Int
        BY <4>1, ActiveType DEF IInv
      <4>6. n \in Nat
        BY <1>4, <4>2
      <4>7. \A d \in Cycles : g[d] \in Int
        BY <4>3, <4>4, <4>5, <4>6
      <4>8. SumFunctionOnSet(g, Cycles) = SumFunctionOnSet(f, Cycles) - f[next] + g[next]
        BY <1>3, <4>4, <4>5, <4>7, CyclesFinite, SumChange
      <4>9. reserved[a] = SumFunctionOnSet(f, Cycles) /\ reserved[a] \in Nat
        BY <3>1, <4>1 DEF IInv, TypeOK
      <4>10. reserved'[a] = reserved[a] + n
        BY <1>1, <3>3, <4>2
      <4>11. reserved'[a] = SumFunctionOnSet(g, Cycles)
        BY <4>3, <4>6, <4>8, <4>9, <4>10
      <4> QED
        BY <4>1, <4>11
    <3> QED
      BY <3>2, <3>3
  <2>4. ASSUME NEW d \in Cycles, NEW e \in Employees, entry'[d][e].outcome # "NONE"
        PROVE  /\ entry'[d][e].payable  = Total(e, "PAYABLE", Materialized(d))'
               /\ entry'[d][e].recovery = Total(e, "RECOVERY", Materialized(d))'
    <3>1. CASE d # next
      <4>1. entry'[d] = entry[d] /\ \A a \in Adjustments : mat'[a][d].amount = mat[a][d].amount
        BY <1>10, <1>11, <3>1
      <4>2. /\ Total(e, "PAYABLE", Materialized(d))' = Total(e, "PAYABLE", Materialized(d))
            /\ Total(e, "RECOVERY", Materialized(d))' = Total(e, "RECOVERY", Materialized(d))
        BY <1>12, <4>1, MaterializedKept DEF BooksInv
      <4>3. /\ entry[d][e].payable  = Total(e, "PAYABLE", Materialized(d))
            /\ entry[d][e].recovery = Total(e, "RECOVERY", Materialized(d))
        BY <2>4, <4>1 DEF BooksInv, BooksAgree, DerivedColumnsAgree
      <4> QED
        BY <4>1, <4>2, <4>3
    <3>2. CASE d = next
      <4>1. ASSUME NEW type
            PROVE  Total(e, type, Materialized(d))' = Total(e, type, Planned(t))
        <5>1. PICK p, q : p = Planned(t) /\ q = Materialized(d)'
          OBVIOUS
        <5>2. p \in Amounts /\ q \in Amounts
          BY <5>1, AmountTypes, AmountTypesThen DEF IInv
        <5>3. \A a \in Adjustments : p[a] = plan[a].amount /\ q[a] = mat'[a][d].amount
          BY <5>1 DEF Planned, Materialized, plan
        <5>4. \A a \in Adjustments : p[a] = q[a]
          BY <1>4, <1>5, <1>7, <1>10, <3>2, <5>3
        <5>5. TotalOf(adj, e, type, q) = TotalOf(adj, e, type, p)
          BY <5>2, <5>4, TotalSame
        <5> QED
          BY <1>1, <5>1, <5>5, TotalNow, TotalThen
      <4> QED
        BY <1>9, <1>11, <3>2, <4>1
    <3> QED
      BY <3>1, <3>2
  <2>5. ConsumedIsSettled'
    <3>1. ASSUME NEW a \in Adjustments, NEW d \in Cycles, mat'[a][d].status = "CONSUMED"
          PROVE  /\ settlement'[a][d] \in 1 .. mat'[a][d].amount
                 /\ Resolved(entry'[d][adj'[a].employee])
      <4>1. d # next
        BY <1>4, <1>5, <1>10, <3>1
      <4>2. mat'[a][d] = mat[a][d] /\ entry'[d] = entry[d]
        BY <1>10, <1>11, <4>1
      <4> QED
        BY <1>1, <3>1, <4>2 DEF BooksInv, BooksAgree, ConsumedIsSettled, Resolved
    <3> QED
      BY <3>1 DEF ConsumedIsSettled
  <2>6. RecoveredWithinMeans'
    <3>1. ASSUME NEW d \in Cycles, NEW e \in Employees, Resolved(entry'[d][e])
          PROVE  Total(e, "RECOVERY", Consumption(d))' <= Bearable(entry'[d][e])
      <4>1. d # next
        BY <1>9, <1>11, <3>1 DEF Resolved, Outcomes
      <4>2. entry'[d] = entry[d] /\ \A a \in Adjustments : mat'[a][d] = mat[a][d]
        BY <1>10, <1>11, <4>1
      <4>3. Total(e, "RECOVERY", Consumption(d))' = Total(e, "RECOVERY", Consumption(d))
        BY <1>1, <1>12, <4>2, ConsumptionKept
      <4> QED
        BY <3>1, <4>2, <4>3 DEF BooksInv, BooksAgree, RecoveredWithinMeans
    <3> QED
      BY <3>1 DEF RecoveredWithinMeans
  <2>7. DerivedColumnsAgree'
    BY <2>3, <2>4 DEF DerivedColumnsAgree
  <2> QED
    BY <2>1, <2>2, <2>5, <2>6, <2>7 DEF RowsAgree, BooksAgree
<1>15. ASSUME NEW u \in Txns \ {t}  PROVE Spared(u)
  <2>1. txn'[u] = txn[u] /\ Holds(u)' = Holds(u)
    BY <1>1, <1>15, Ended DEF End, Becomes, LocksKept, IInv, TypeOK
  <2>2. SweepOK(u) /\ txn[u].cycle \in Cycles /\ txn[u].chosen \subseteq Employees
    BY DEF BooksInv, IInv, TypeOK, TxnRecord
  <2>3. ASSUME txn[u].kind = "release", txn[u].pc \in {"entries", "consume"}
        PROVE  entry'[txn[u].cycle] = entry[txn[u].cycle]
    <3>1. cycleStatus[txn[u].cycle] = "DRAFT"
      BY <2>3 DEF IInv, TransactionOK, LockedCycle
    <3> QED
      BY <1>1, <1>11, <2>2, <3>1
  <2>4. \A e \in txn[u].chosen : Bearable(entry[txn[u].cycle][e]) \in Nat
    <3>1. \A e \in txn[u].chosen : entry[txn[u].cycle][e] \in EntryRecord
      BY <2>2 DEF IInv, TypeOK
    <3> QED
      BY <3>1, BearableType
  <2> QED
    BY <1>1, <2>1, <2>2, <2>3, <2>4 DEF Spared, SweepOK
<1>16. BooksInv'
  BY <1>1, <1>12, <1>14, <1>15, BooksEnd, BooksComposed
<1>17. History
  <2>1. LedgerStep
    BY <1>1, SameRow, LedgerContinues DEF IInv
  <2>2. ReservationStep
    BY <1>5, <1>10 DEF ReservationStep
  <2>3. ResolvedStep
    BY <1>6, <1>11 DEF ResolvedStep, Resolved, Outcomes
  <2> QED
    BY <2>1, <2>2, <2>3 DEF History
<1> QED
  BY <1>16, <1>17

(* A balance that does not exist yet has nothing paid or settled on it. *)
LEMMA NothingRecorded ==
  ASSUME IInv, BooksInv, NEW a \in Adjustments, adj[a].status = "NONE"
  PROVE  adj[a].payment = 0 /\ \A c \in Cycles : settlement[a][c] = 0
<1>1. /\ adj[a].amount = 0 /\ adj[a].remaining = 0 /\ adj[a].payment \in Nat
      /\ adj[a].amount = adj[a].remaining + adj[a].payment + SumFunctionOnSet(settlement[a], Cycles)
  BY DEF IInv, TypeOK, AdjRecord, RowsOK, RowsWellFounded, BooksInv, BooksAgree, Conserved
<1>2. /\ SumFunctionOnSet(settlement[a], Cycles) \in Nat
      /\ \A c \in Cycles : settlement[a][c] <= SumFunctionOnSet(settlement[a], Cycles)
  <2>1. \A c \in Cycles : settlement[a][c] \in Nat
    BY DEF IInv, TypeOK
  <2> QED
    BY <2>1, CyclesFinite, SumOfNaturals
<1>3. PICK s \in Nat : s = SumFunctionOnSet(settlement[a], Cycles)
  BY <1>2
<1>4. s = 0 /\ adj[a].payment = 0
  BY <1>1, <1>3
<1>5. \A c \in Cycles : settlement[a][c] \in Nat /\ settlement[a][c] <= s
  BY <1>2, <1>3 DEF IInv, TypeOK
<1> QED
  BY <1>4, <1>5

(* An approved correction is owed in full.                                            *)
LEMMA NewRow ==
  ASSUME NEW e \in Employees, NEW p, p.amount \in Nat \ {0}, NEW row, row = NewAdjustment(e, p)
  PROVE  /\ row.status = "PENDING" /\ row.employee = e /\ row.type = p.type
         /\ row.amount = p.amount /\ row.remaining = p.amount /\ row.payment = 0
  BY DEF NewAdjustment

(* A new balance has no payment and no settlement, and owes its amount.               *)
LEMMA NewBalanceAddsUp ==
  ASSUME NEW e \in Employees, NEW p, p.amount \in Nat \ {0}, NEW row, row = NewAdjustment(e, p),
         NEW settled, \A c \in Cycles : settled[c] = 0
  PROVE  /\ row.amount = row.remaining + row.payment + SumFunctionOnSet(settled, Cycles)
         /\ row.status = "SETTLED" <=> row.status # "NONE" /\ row.remaining = 0
<1>1. SumFunctionOnSet(settled, Cycles) = 0
  BY CyclesFinite, SumOfZeros
<1> QED
  BY <1>1, NewRow

(* Approving a correction adds a balance nothing refers to yet.                       *)
LEMMA BooksApproveCorrection ==
  ASSUME IInv, IInv', BooksInv, NEW e \in Employees, NEW a \in Adjustments, NEW p \in Proposals,
         ApproveCorrection(e, a, p)
  PROVE  BooksInv' /\ History
<1> DEFINE row == NewAdjustment(e, p)
<1>1. /\ adj[a].status = "NONE" /\ adj' = [adj EXCEPT ![a] = row]
      /\ UNCHANGED <<cycleStatus, entry, departed, mat, settlement, reserved, locks, txn>>
  BY DEF ApproveCorrection
<1>2. p.amount \in Nat \ {0}
  BY ProposalsAssumption
<1> HIDE DEF row
<1>3. /\ adj'[a] = row /\ \A b \in Adjustments : b # a => adj'[b] = adj[b]
      /\ settlement' = settlement /\ entry' = entry /\ mat' = mat /\ reserved' = reserved
      /\ cycleStatus' = cycleStatus
  BY <1>1 DEF IInv, TypeOK
<1>4. OwnersKept
  BY <1>1, <1>3 DEF OwnersKept
<1>5. adj[a].payment = 0 /\ \A c \in Cycles : settlement[a][c] = 0
  BY <1>1, NothingRecorded
<1>6. RowsAgree'
  <2>1. Conserved'
    <3>1. ASSUME NEW b \in Adjustments
          PROVE  /\ adj'[b].amount = adj'[b].remaining + adj'[b].payment
                                       + SumFunctionOnSet(settlement'[b], Cycles)
                 /\ adj'[b].status = "SETTLED" <=> adj'[b].status # "NONE" /\ adj'[b].remaining = 0
      <4>1. CASE b # a
        BY <1>3, <4>1 DEF BooksInv, BooksAgree, Conserved
      <4>2. CASE b = a
        <5>1. PICK new, settled : new = row /\ settled = settlement[a]
          OBVIOUS
        <5>2. /\ new.amount = new.remaining + new.payment + SumFunctionOnSet(settled, Cycles)
              /\ new.status = "SETTLED" <=> new.status # "NONE" /\ new.remaining = 0
          BY <1>2, <1>5, <5>1, NewBalanceAddsUp DEF row
        <5> QED
          BY <1>3, <4>2, <5>1, <5>2
      <4> QED
        BY <4>1, <4>2
    <3> QED
      BY <3>1 DEF Conserved
  <2> QED
    BY <1>3, <1>4, <2>1, EntriesUnmoved DEF RowsAgree, BooksAgree
<1>7. ASSUME NEW u \in Txns  PROVE PlansOK(u)'
  <2>1. txn'[u] = txn[u] /\ Holds(u)' = Holds(u)
    BY <1>1 DEF locks, Holds
  <2> QED
    BY <1>3, <1>4, <2>1, SparedEntries, SparedOK
<1>8. BooksInv'
  BY <1>6, <1>7 DEF BooksInv, RowsAgree, PlansOK
<1>9. History
  <2>1. \A b \in Adjustments :
           adj[b].status # "NONE" \/ adj[b].payment # 0 => Continues(adj[b], adj'[b])
    BY <1>1, <1>3, <1>5, SameRow DEF IInv
  <2>2. LedgerStep
    BY <1>3, <2>1, LedgerContinues DEF IInv
  <2> QED
    BY <1>3, <2>2 DEF History, ReservationStep, ResolvedStep
<1> QED
  BY <1>8, <1>9

(* What an edit, a departure or a return may do to an entry: nothing; or what leaves *)
(* its columns alone; or remove it or add it where no reservation refers to it.      *)
EditedRow(c, e) ==
    \/ entry'[c][e] = entry[c][e]
    \/ /\ ~RowLocked(c, e) /\ cycleStatus[c] # "NONE"
       /\ ~Resolved(entry[c][e]) /\ ~Resolved(entry'[c][e])
       /\ \/ /\ entry[c][e].outcome # "NONE" /\ entry'[c][e].outcome # "NONE"
             /\ entry'[c][e].payable = entry[c][e].payable
             /\ entry'[c][e].recovery = entry[c][e].recovery
          \/ /\ \A a \in Adjustments : adj[a].employee = e => mat[a][c].status = "NONE"
             /\ entry'[c][e].payable = 0 /\ entry'[c][e].recovery = 0

(* Edits of unresolved, unlocked entries that keep their correction columns keep      *)
(* the books.                                                                         *)
LEMMA BooksEdited ==
  ASSUME IInv, IInv', BooksInv,
         UNCHANGED <<cycleStatus, adj, mat, settlement, reserved, locks, txn>>,
         \A c \in Cycles, e \in Employees : EditedRow(c, e)
  PROVE  BooksInv' /\ History
<1>1. /\ cycleStatus' = cycleStatus /\ adj' = adj /\ mat' = mat /\ settlement' = settlement
      /\ reserved' = reserved
  OBVIOUS
<1>2. OwnersKept
  BY <1>1 DEF OwnersKept
<1>3. \A c \in Cycles, e \in Employees : Resolved(entry[c][e]) \/ Resolved(entry'[c][e])
         => entry'[c][e] = entry[c][e]
  BY DEF EditedRow
<1>4. RowsAgree'
  <2>1. RowsLinked'
    <3>1. ASSUME NEW c \in Cycles, NEW e \in Employees, cycleStatus'[c] = "NONE"
          PROVE  entry'[c][e].outcome = "NONE"
      BY <1>1, <3>1 DEF EditedRow, BooksInv, RowsLinked
    <3>2. ASSUME NEW a \in Adjustments, NEW c \in Cycles, mat[a][c].status # "NONE"
          PROVE  entry'[c][adj[a].employee].outcome # "NONE"
      <4>1. adj[a].employee \in Employees
        BY <3>2 DEF IInv, RowsOK, RowsWellFounded
      <4>2. PICK e \in Employees : e = adj[a].employee
        BY <4>1
      <4>3. entry[c][e].outcome # "NONE"
        BY <3>2, <4>2 DEF BooksInv, RowsLinked
      <4>4. EditedRow(c, e)
        OBVIOUS
      <4>5. entry'[c][e].outcome # "NONE"
        BY <3>2, <4>2, <4>3, <4>4 DEF EditedRow
      <4> QED
        BY <4>2, <4>5
    <3> QED
      BY <1>1, <3>1, <3>2 DEF BooksInv, RowsLinked
  <2>2. Conserved'
    BY <1>1 DEF BooksInv, BooksAgree, Conserved
  <2>3. \A a \in Adjustments : reserved'[a] = SumFunctionOnSet(ActiveAmounts(a)', Cycles)
    <3>1. \A a \in Adjustments : ActiveAmounts(a)' = ActiveAmounts(a)
      BY <1>1 DEF ActiveAmounts
    <3> QED
      BY <1>1, <3>1 DEF BooksInv, BooksAgree, DerivedColumnsAgree
  <2>4. ASSUME NEW c \in Cycles, NEW e \in Employees, entry'[c][e].outcome # "NONE"
        PROVE  /\ entry'[c][e].payable  = Total(e, "PAYABLE", Materialized(c))'
               /\ entry'[c][e].recovery = Total(e, "RECOVERY", Materialized(c))'
    <3>1. /\ Total(e, "PAYABLE", Materialized(c))' = Total(e, "PAYABLE", Materialized(c))
          /\ Total(e, "RECOVERY", Materialized(c))' = Total(e, "RECOVERY", Materialized(c))
      BY <1>1, <1>2, MaterializedKept DEF BooksInv
    <3>2. entry[c][e].outcome # "NONE" =>
             /\ entry[c][e].payable  = Total(e, "PAYABLE", Materialized(c))
             /\ entry[c][e].recovery = Total(e, "RECOVERY", Materialized(c))
      BY DEF BooksInv, BooksAgree, DerivedColumnsAgree
    <3>3. ASSUME \A a \in Adjustments : adj[a].employee = e => mat[a][c].status = "NONE"
          PROVE  /\ Total(e, "PAYABLE", Materialized(c)) = 0
                 /\ Total(e, "RECOVERY", Materialized(c)) = 0
      <4>1. Materialized(c) \in Amounts
        BY AmountTypes DEF IInv
      <4>2. \A a \in Adjustments : adj[a].employee = e => Materialized(c)[a] = 0
        BY <3>3 DEF Materialized, BooksInv, RowsLinked
      <4>3. ASSUME NEW type  PROVE TotalOf(adj, e, type, Materialized(c)) = 0
        BY <4>1, <4>2, TotalOfNothing
      <4> QED
        BY <4>3, TotalNow
    <3>4. EditedRow(c, e)
      OBVIOUS
    <3> QED
      BY <2>4, <3>1, <3>2, <3>3, <3>4 DEF EditedRow
  <2>5. ConsumedIsSettled'
    <3>1. ASSUME NEW a \in Adjustments, NEW c \in Cycles, mat[a][c].status = "CONSUMED"
          PROVE  Resolved(entry'[c][adj[a].employee])
      <4>1. adj[a].employee \in Employees /\ Resolved(entry[c][adj[a].employee])
        BY <3>1 DEF IInv, RowsOK, RowsWellFounded, BooksInv, BooksAgree, ConsumedIsSettled
      <4> QED
        BY <1>3, <4>1
    <3> QED
      BY <1>1, <3>1 DEF BooksInv, BooksAgree, ConsumedIsSettled
  <2>6. RecoveredWithinMeans'
    <3>1. ASSUME NEW c \in Cycles, NEW e \in Employees, Resolved(entry'[c][e])
          PROVE  Total(e, "RECOVERY", Consumption(c))' <= Bearable(entry'[c][e])
      <4>1. entry'[c][e] = entry[c][e]
        BY <1>3, <3>1
      <4>2. Total(e, "RECOVERY", Consumption(c))' = Total(e, "RECOVERY", Consumption(c))
        BY <1>1, <1>2, ConsumptionKept
      <4> QED
        BY <3>1, <4>1, <4>2 DEF BooksInv, BooksAgree, RecoveredWithinMeans
    <3> QED
      BY <3>1 DEF RecoveredWithinMeans
  <2>7. DerivedColumnsAgree'
    BY <2>3, <2>4 DEF DerivedColumnsAgree
  <2> QED
    BY <2>1, <2>2, <2>5, <2>6, <2>7 DEF RowsAgree, BooksAgree
<1>5. ASSUME NEW u \in Txns  PROVE PlansOK(u)'
  <2> DEFINE c == txn[u].cycle
  <2>1. txn'[u] = txn[u] /\ Holds(u)' = Holds(u)
    BY DEF locks, Holds
  <2>2. SweepOK(u) /\ c \in Cycles /\ txn[u].chosen \subseteq Employees
    BY DEF BooksInv, IInv, TypeOK, TxnRecord
  <2>3. ASSUME txn[u].kind = "release", txn[u].pc \in {"entries", "consume"}, NEW e \in txn[u].chosen
        PROVE  ~Resolved(entry'[c][e])
    <3>1. ~Resolved(entry[c][e]) /\ e \in Employees
      BY <2>2, <2>3 DEF SweepOK
    <3> QED
      BY <1>3, <2>2, <3>1
  <2>4. ASSUME txn[u].kind = "release", txn[u].pc = "consume", NEW e \in txn[u].chosen
        PROVE  /\ entry'[c][e].outcome # "NONE"
               /\ Bearable(entry[c][e]) <= Bearable(entry'[c][e])
    <3>1. RowLocked(c, e)
      BY <2>4 DEF RowLocked
    <3>2. entry'[c][e] = entry[c][e]
      <4>1. EditedRow(c, e)
        BY <2>2
      <4> QED
        BY <3>1, <4>1 DEF EditedRow
    <3>3. entry[c][e].outcome # "NONE"
      BY <2>2, <2>4 DEF SweepOK
    <3>4. Bearable(entry[c][e]) \in Nat
      <4>1. entry[c][e] \in EntryRecord
        BY <2>2 DEF IInv, TypeOK
      <4> QED
        BY <4>1, BearableType
    <3> QED
      BY <3>2, <3>3, <3>4
  <2>5. Spared(u)
    BY <1>1, <2>1, <2>3, <2>4 DEF Spared
  <2> QED
    BY <1>2, <2>5, SparedOK
<1>6. BooksInv'
  BY <1>4, <1>5 DEF BooksInv, RowsAgree, PlansOK
<1>7. History
  <2>1. LedgerStep
    BY <1>1, SameRow, LedgerContinues DEF IInv
  <2>2. ReservationStep
    BY <1>1 DEF ReservationStep
  <2>3. ResolvedStep
    BY <1>3 DEF ResolvedStep
  <2> QED
    BY <2>1, <2>2, <2>3 DEF History
<1> QED
  BY <1>6, <1>7

(* Every edit is an approval or such an edit; leaving removes only entries without    *)
(* reservations, and returning creates entries without any.                           *)
LEMMA BooksEdit ==
  ASSUME IInv, IInv', BooksInv, Edit
  PROVE  BooksInv' /\ History
<1>0. entry \in [Cycles -> [Employees -> EntryRecord]]
  BY DEF IInv, TypeOK
<1>1. CASE \E e \in Employees, a \in Adjustments, p \in Proposals : ApproveCorrection(e, a, p)
  BY <1>1, BooksApproveCorrection
<1>2. CASE \E c \in Cycles, e \in Employees :
             ToggleHold(c, e) \/ \E v \in Earnings : EditEarnings(c, e, v)
  <2>1. PICK c \in Cycles, e \in Employees :
               ToggleHold(c, e) \/ \E v \in Earnings : EditEarnings(c, e, v)
    BY <1>2
  <2>2. /\ entry[c][e].outcome = "OPEN" /\ ~RowLocked(c, e)
        /\ UNCHANGED <<cycleStatus, adj, mat, settlement, reserved, locks, txn>>
    BY <2>1 DEF ToggleHold, EditEarnings, Editable
  <2>3. cycleStatus[c] # "NONE"
    BY <2>2 DEF BooksInv, RowsLinked
  <2>4. /\ entry'[c][e].outcome = "OPEN" /\ entry'[c][e].payable = entry[c][e].payable
        /\ entry'[c][e].recovery = entry[c][e].recovery
        /\ \A d \in Cycles, f \in Employees : d # c \/ f # e => entry'[d][f] = entry[d][f]
    <3>1. entry[c][e] \in EntryRecord
      BY <1>0
    <3>2. CASE ToggleHold(c, e)
      <4> DEFINE row == [entry[c][e] EXCEPT !.hold = ~entry[c][e].hold]
      <4>1. /\ row.outcome = entry[c][e].outcome /\ row.payable = entry[c][e].payable
            /\ row.recovery = entry[c][e].recovery
        BY <3>1 DEF EntryRecord
      <4>2. entry' = [entry EXCEPT ![c][e] = row]
        BY <1>0, <3>2 DEF ToggleHold
      <4> HIDE DEF row
      <4> QED
        BY <1>0, <2>2, <4>1, <4>2
    <3>3. CASE \E v \in Earnings : EditEarnings(c, e, v)
      <4>1. PICK v \in Earnings : EditEarnings(c, e, v)
        BY <3>3
      <4> DEFINE row == [entry[c][e] EXCEPT !.earnings = v]
      <4>2. /\ row.outcome = entry[c][e].outcome /\ row.payable = entry[c][e].payable
            /\ row.recovery = entry[c][e].recovery
        BY <3>1 DEF EntryRecord
      <4>3. entry' = [entry EXCEPT ![c][e] = row]
        BY <1>0, <4>1 DEF EditEarnings
      <4> HIDE DEF row
      <4> QED
        BY <1>0, <2>2, <4>2, <4>3
    <3> QED
      BY <2>1, <3>2, <3>3
  <2>5. \A d \in Cycles, f \in Employees : EditedRow(d, f)
    BY <2>2, <2>3, <2>4 DEF EditedRow, Resolved, Outcomes
  <2> QED
    BY <2>2, <2>5, BooksEdited
<1>3. CASE \E e \in Leavers : MarkLeft(e)
  <2>1. PICK e \in Employees : MarkLeft(e)
    BY <1>3, LeaversAssumption
  <2>2. /\ \A c \in Cycles : ~RowLocked(c, e)
        /\ \A c \in Cycles : entry'[c] = [entry[c] EXCEPT ![e] = AfterLeaving(c, e)]
        /\ UNCHANGED <<cycleStatus, adj, mat, settlement, reserved, locks, txn>>
    BY <2>1 DEF MarkLeft
  <2>3. \A c \in Cycles : /\ entry'[c][e] = AfterLeaving(c, e)
                          /\ \A f \in Employees : f # e => entry'[c][f] = entry[c][f]
    <3> SUFFICES ASSUME NEW c \in Cycles
                 PROVE  /\ entry'[c][e] = AfterLeaving(c, e)
                        /\ \A f \in Employees : f # e => entry'[c][f] = entry[c][f]
      OBVIOUS
    <3>1. PICK row : row = AfterLeaving(c, e)
      OBVIOUS
    <3>2. entry'[c] = [entry[c] EXCEPT ![e] = row]
      BY <2>2, <3>1
    <3>3. entry[c] \in [Employees -> EntryRecord]
      BY <1>0
    <3> QED
      BY <3>1, <3>2, <3>3
  <2>4. ASSUME NEW c \in Cycles  PROVE EditedRow(c, e)
    <3>1. CASE cycleStatus[c] # "DRAFT" \/ entry[c][e].outcome # "OPEN"
      BY <2>3, <3>1 DEF AfterLeaving, EditedRow
    <3>2. CASE /\ ~(cycleStatus[c] # "DRAFT" \/ entry[c][e].outcome # "OPEN")
               /\ \E a \in Adjustments : adj[a].employee = e /\ mat[a][c].status # "NONE"
      <4> DEFINE row == [entry[c][e] EXCEPT !.hold = TRUE]
      <4>1. /\ row.outcome = entry[c][e].outcome /\ row.payable = entry[c][e].payable
            /\ row.recovery = entry[c][e].recovery
        BY <1>0 DEF EntryRecord
      <4>2. entry'[c][e] = row
        BY <2>3, <3>2 DEF AfterLeaving
      <4> HIDE DEF row
      <4> QED
        BY <2>2, <3>2, <4>1, <4>2 DEF EditedRow, Resolved, Outcomes
    <3>3. CASE /\ ~(cycleStatus[c] # "DRAFT" \/ entry[c][e].outcome # "OPEN")
               /\ ~\E a \in Adjustments : adj[a].employee = e /\ mat[a][c].status # "NONE"
      <4>1. entry'[c][e] = NoEntry
        BY <2>3, <3>3 DEF AfterLeaving
      <4>2. NoEntry.outcome = "NONE" /\ NoEntry.payable = 0 /\ NoEntry.recovery = 0
        BY DEF NoEntry
      <4> QED
        BY <2>2, <3>3, <4>1, <4>2 DEF EditedRow, Resolved, Outcomes
    <3> QED
      BY <3>1, <3>2, <3>3
  <2>5. \A c \in Cycles, f \in Employees : EditedRow(c, f)
    BY <2>3, <2>4 DEF EditedRow
  <2> QED
    BY <2>2, <2>5, BooksEdited
<1>4. CASE \E e \in Leavers : Reactivate(e)
  <2>1. PICK e \in Employees : Reactivate(e)
    BY <1>4, LeaversAssumption
  <2>2. /\ \A c \in Cycles : entry'[c] = IF cycleStatus[c] = "DRAFT" /\ entry[c][e].outcome = "NONE"
                                           THEN [entry[c] EXCEPT ![e] = FreshEntry]
                                           ELSE entry[c]
        /\ UNCHANGED <<cycleStatus, adj, mat, settlement, reserved, locks, txn>>
    BY <2>1 DEF Reactivate
  <2>3. ASSUME NEW c \in Cycles, NEW f \in Employees  PROVE EditedRow(c, f)
    <3>1. CASE ~(cycleStatus[c] = "DRAFT" /\ entry[c][e].outcome = "NONE") \/ f # e
      BY <1>0, <2>2, <3>1 DEF EditedRow
    <3>2. CASE cycleStatus[c] = "DRAFT" /\ entry[c][e].outcome = "NONE" /\ f = e
      <4>1. entry'[c][e] = FreshEntry
        BY <1>0, <2>2, <3>2
      <4>2. FreshEntry.outcome = "OPEN" /\ FreshEntry.payable = 0 /\ FreshEntry.recovery = 0
        BY DEF FreshEntry, NoEntry
      <4>3. \A a \in Adjustments : adj[a].employee = e => mat[a][c].status = "NONE"
        BY <3>2 DEF BooksInv, RowsLinked
      <4>4. ~RowLocked(c, e)
        <5> SUFFICES ASSUME NEW u \in Txns, txn[u].kind = "release", txn[u].pc = "consume",
                            txn[u].cycle = c, e \in txn[u].chosen
                     PROVE  FALSE
          BY DEF RowLocked
        <5>1. SweepOK(u)
          BY DEF BooksInv
        <5> QED
          BY <3>2, <5>1 DEF SweepOK
      <4> QED
        BY <3>2, <4>1, <4>2, <4>3, <4>4 DEF EditedRow, Resolved, Outcomes
    <3> QED
      BY <3>1, <3>2
  <2> QED
    BY <2>2, <2>3, BooksEdited
<1> QED
  BY <1>1, <1>2, <1>3, <1>4 DEF Edit

(* Amounts that agree wherever they count add up to the same. *)
LEMMA TotalsAgree ==
  ASSUME NEW old, NEW new, NEW e, NEW type, NEW before \in Amounts, NEW after \in Amounts,
         \A a \in Adjustments :
            (IF new[a].employee = e /\ new[a].type = type THEN after[a] ELSE 0) =
            (IF old[a].employee = e /\ old[a].type = type THEN before[a] ELSE 0)
  PROVE  TotalOf(new, e, type, after) = TotalOf(old, e, type, before)
<1> DEFINE f == Portion(old, e, type, before)
           g == Portion(new, e, type, after)
<1>1. \A a \in Adjustments : g[a] = f[a]
  BY DEF Portion
<1>2. \A a \in Adjustments : f[a] \in Int
  BY PortionType
<1> HIDE DEF f, g
<1>3. SumFunctionOnSet(g, Adjustments) = SumFunctionOnSet(f, Adjustments)
  BY <1>1, <1>2, AdjustmentsAssumption, SumSame
<1> QED
  BY <1>3 DEF TotalOf, f, g

(* What a release makes of one adjustment, in the terms the books are kept in. *)
ReleasedOne(t, a) ==
    LET c == txn[t].cycle
        n == txn[t].plan[a].amount
    IN
    \/ /\ a \in Holds(t) /\ adj[a].status # "NONE" /\ mat[a][c].status = "ACTIVE"
       /\ adj[a].employee \in txn[t].chosen
       /\ reserved'[a] = reserved[a] - mat[a][c].amount
       /\ mat'[a][c].amount = mat[a][c].amount
       /\ \A d \in Cycles : d # c => mat'[a][d] = mat[a][d] /\ settlement'[a][d] = settlement[a][d]
       /\ \/ /\ n \in 1 .. mat[a][c].amount /\ n <= adj[a].remaining
             /\ mat'[a][c].status = "CONSUMED"
             /\ adj'[a] = Reduced(adj[a], n)
             /\ settlement[a][c] = 0 /\ settlement'[a][c] = n
          \/ /\ n = 0 /\ mat'[a][c].status = "CANCELLED"
             /\ adj'[a] = adj[a] /\ settlement'[a] = settlement[a]
    \/ /\ a \notin Holds(t) /\ n = 0
       /\ settlement'[a] = settlement[a] /\ mat'[a] = mat[a] /\ reserved'[a] = reserved[a]
       /\ \/ adj'[a] = adj[a]
          \/ /\ adj[a].status = "NONE"
             /\ \E e \in RecoveryDue(t) : adj'[a] = NewRecovery(t, e)

(* What the commit of a sweep does to one balance: the balance it consumed, the       *)
(* reservation it cancelled, a recovery it created, or nothing.                       *)
LEMMA ReleaseOne ==
  ASSUME IInv, BooksInv, NEW t \in Txns, NEW origin \in [RecoveryDue(t) -> Adjustments],
         CommitRelease(t, origin), NEW a \in Adjustments
  PROVE  ReleasedOne(t, a)
<1> DEFINE c == txn[t].cycle
           n == txn[t].plan[a].amount
<1>1. /\ c \in Cycles /\ mat[a][c] \in MatRecord /\ adj[a].remaining \in Nat /\ n \in Nat
      /\ mat[a] \in [Cycles -> MatRecord] /\ settlement[a] \in [Cycles -> Nat]
      /\ reserved[a] \in Nat
  BY DEF IInv, TypeOK, TxnRecord, PlanRecord, AdjRecord
<1>2. /\ txn[t].kind = "release" /\ txn[t].pc = "consume"
  BY DEF CommitRelease
<1>3. /\ \A b \in Holds(t) : adj[b].employee \in txn[t].chosen
      /\ \A b \in Holds(t) : txn[t].plan[b].amount > 0 => settlement[b][c] = 0
      /\ n > 0 => a \in Holds(t)
  BY <1>2 DEF BooksInv, SweepOK, PlansHeld
<1>4. reserved[a] <= adj[a].remaining /\ mat[a][c].amount \in Nat
  BY <1>1 DEF IInv, RowsOK, ReservationsCovered, MatRecord
<1>5. \/ /\ a \in Consumed(t)
         /\ adj[a].status # "NONE" /\ mat[a][c].status = "ACTIVE"
         /\ n \in Nat /\ 0 < n /\ n <= mat[a][c].amount
         /\ mat[a][c].amount <= reserved[a]
         /\ adj'[a] = Reduced(adj[a], n)
         /\ settlement'[a] = [settlement[a] EXCEPT ![c] = n]
         /\ mat'[a] = [mat[a] EXCEPT ![c] = [mat[a][c] EXCEPT !.status = "CONSUMED"]]
         /\ reserved'[a] = reserved[a] - mat[a][c].amount
      \/ /\ a \in Holds(t) \ Consumed(t)
         /\ adj[a].status # "NONE" /\ mat[a][c].status = "ACTIVE"
         /\ mat[a][c].amount <= reserved[a]
         /\ adj'[a] = adj[a] /\ settlement'[a] = settlement[a]
         /\ mat'[a] = [mat[a] EXCEPT ![c] = [mat[a][c] EXCEPT !.status = "CANCELLED"]]
         /\ reserved'[a] = reserved[a] - mat[a][c].amount
      \/ /\ a \notin Holds(t) /\ adj[a].status = "NONE"
         /\ \E e \in RecoveryDue(t) : adj'[a] = NewRecovery(t, e)
         /\ settlement'[a] = settlement[a] /\ mat'[a] = mat[a] /\ reserved'[a] = reserved[a]
      \/ /\ a \notin Holds(t)
         /\ adj'[a] = adj[a] /\ settlement'[a] = settlement[a]
         /\ mat'[a] = mat[a] /\ reserved'[a] = reserved[a]
  BY ReleaseOfOne
<1>6. CASE /\ a \in Consumed(t)
           /\ adj[a].status # "NONE" /\ mat[a][c].status = "ACTIVE"
           /\ n \in Nat /\ 0 < n /\ n <= mat[a][c].amount
           /\ mat[a][c].amount <= reserved[a]
           /\ adj'[a] = Reduced(adj[a], n)
           /\ settlement'[a] = [settlement[a] EXCEPT ![c] = n]
           /\ mat'[a] = [mat[a] EXCEPT ![c] = [mat[a][c] EXCEPT !.status = "CONSUMED"]]
           /\ reserved'[a] = reserved[a] - mat[a][c].amount
  <2>1. a \in Holds(t)
    BY <1>6 DEF Consumed
  <2> DEFINE row == [mat[a][c] EXCEPT !.status = "CONSUMED"]
  <2>2. row.status = "CONSUMED" /\ row.amount = mat[a][c].amount
    BY <1>1, StatusType
  <2> HIDE DEF row, n
  <2>3. /\ mat'[a][c].status = "CONSUMED" /\ mat'[a][c].amount = mat[a][c].amount
        /\ settlement'[a][c] = n
        /\ \A d \in Cycles : d # c => mat'[a][d] = mat[a][d] /\ settlement'[a][d] = settlement[a][d]
    BY <1>1, <1>6, <2>2 DEF row
  <2>4. n <= adj[a].remaining /\ n \in 1 .. mat[a][c].amount
    BY <1>1, <1>4, <1>6
  <2>5. adj[a].employee \in txn[t].chosen /\ settlement[a][c] = 0
    BY <1>3, <1>6, <2>1 DEF n
  <2> QED
    BY <1>6, <2>1, <2>3, <2>4, <2>5 DEF ReleasedOne, n
<1>7. CASE /\ a \in Holds(t) \ Consumed(t)
           /\ adj[a].status # "NONE" /\ mat[a][c].status = "ACTIVE"
           /\ mat[a][c].amount <= reserved[a]
           /\ adj'[a] = adj[a] /\ settlement'[a] = settlement[a]
           /\ mat'[a] = [mat[a] EXCEPT ![c] = [mat[a][c] EXCEPT !.status = "CANCELLED"]]
           /\ reserved'[a] = reserved[a] - mat[a][c].amount
  <2>1. a \in Holds(t) /\ n = 0
    BY <1>1, <1>7 DEF Consumed
  <2> DEFINE row == [mat[a][c] EXCEPT !.status = "CANCELLED"]
  <2>2. row.status = "CANCELLED" /\ row.amount = mat[a][c].amount
    BY <1>1, StatusType
  <2> HIDE DEF row
  <2>3. /\ mat'[a][c].status = "CANCELLED" /\ mat'[a][c].amount = mat[a][c].amount
        /\ \A d \in Cycles : d # c => mat'[a][d] = mat[a][d] /\ settlement'[a][d] = settlement[a][d]
    BY <1>1, <1>7, <2>2 DEF row
  <2>4. adj[a].employee \in txn[t].chosen
    BY <1>3, <2>1
  <2> QED
    BY <1>7, <2>1, <2>3, <2>4 DEF ReleasedOne
<1>8. CASE a \notin Holds(t)
  <2>1. n = 0
    BY <1>1, <1>3, <1>8
  <2>2. a \notin Consumed(t)
    BY <1>8 DEF Consumed
  <2> HIDE DEF n
  <2>3. /\ settlement'[a] = settlement[a] /\ mat'[a] = mat[a] /\ reserved'[a] = reserved[a]
        /\ \/ adj'[a] = adj[a]
           \/ /\ adj[a].status = "NONE"
              /\ \E e \in RecoveryDue(t) : adj'[a] = NewRecovery(t, e)
    BY <1>5, <1>8, <2>2
  <2> QED
    BY <1>8, <2>1, <2>3 DEF ReleasedOne, n
<1> HIDE DEF n
<1> QED
  BY <1>5, <1>6, <1>7, <1>8

(* A recovery created for a negative salary is owed in full.                          *)
LEMMA RecoveryAddsUp ==
  ASSUME IInv, BooksInv, NEW t \in Txns, NEW e \in RecoveryDue(t), NEW a \in Adjustments,
         adj[a].status = "NONE", NEW row, row = NewRecovery(t, e)
  PROVE  /\ row.amount = row.remaining + row.payment + SumFunctionOnSet(settlement[a], Cycles)
         /\ row.status = "SETTLED" <=> row.status # "NONE" /\ row.remaining = 0
<1>1. -SweptNet(t, e) \in Nat \ {0} /\ e \in Employees
  <2>1. e \in Employees
    BY DEF RecoveryDue, IInv, TypeOK, TxnRecord
  <2> QED
    BY <2>1, NewRecoveryType DEF IInv
<1>2. PICK p : p = [type |-> "RECOVERY", timing |-> "NULL", installment |-> 0, amount |-> -SweptNet(t, e)]
  OBVIOUS
<1>3. p.amount \in Nat \ {0} /\ row = NewAdjustment(e, p)
  BY <1>1, <1>2 DEF NewRecovery
<1>4. PICK settled : settled = settlement[a]
  OBVIOUS
<1>5. \A c \in Cycles : settled[c] = 0
  BY <1>4, NothingRecorded
<1> QED
  BY <1>1, <1>3, <1>4, <1>5, NewBalanceAddsUp

(* The commit of a sweep consumes what it planned: reserved amounts lose what the     *)
(* consumed and cancelled rows held, every consumed row has its settlement, and       *)
(* each resolved entry bears what was taken from it, since capacity and plan          *)
(* together did not exceed it.                                                        *)
LEMMA BooksCommitRelease ==
  ASSUME IInv, IInv', BooksInv, NEW t \in Txns, NEW origin \in [RecoveryDue(t) -> Adjustments],
         CommitRelease(t, origin)
  PROVE  BooksInv' /\ History
<1> DEFINE c == txn[t].cycle
           S == txn[t].chosen
           plan == txn[t].plan
<1>1. /\ txn[t].kind = "release" /\ txn[t].pc = "consume" /\ End(t)
      /\ entry' = [entry EXCEPT ![c] = [e \in Employees |->
                     IF e \in S THEN [entry[c][e] EXCEPT !.outcome = SweptOutcome(t, e),
                                                         !.net = SweptNet(t, e)]
                     ELSE entry[c][e]]]
      /\ cycleStatus' = cycleStatus
  BY DEF CommitRelease
<1>2. /\ c \in Cycles /\ S \subseteq Employees /\ txn[t].capacity \in [Employees -> Nat]
      /\ cycleLock[c] = t
      /\ entry \in [Cycles -> [Employees -> EntryRecord]]
  BY <1>1 DEF IInv, TypeOK, TxnRecord, TransactionOK, LockedCycle
<1>3. \A e \in S : /\ ~Resolved(entry[c][e]) /\ entry[c][e].outcome # "NONE"
                   /\ txn[t].capacity[e] + Total(e, "RECOVERY", Planned(t)) <= Bearable(entry[c][e])
  BY <1>1 DEF BooksInv, SweepOK
<1>4. \A a \in Adjustments : ReleasedOne(t, a)
  BY ReleaseOne
<1>5. /\ \A e \in S : /\ entry'[c][e].outcome \in Outcomes
                      /\ entry'[c][e].earnings = entry[c][e].earnings
                      /\ entry'[c][e].payable = entry[c][e].payable
                      /\ entry'[c][e].recovery = entry[c][e].recovery
      /\ \A d \in Cycles, e \in Employees : d # c \/ e \notin S => entry'[d][e] = entry[d][e]
  <2>1. ASSUME NEW e \in S
        PROVE  /\ entry'[c][e].outcome \in Outcomes
               /\ entry'[c][e].earnings = entry[c][e].earnings
               /\ entry'[c][e].payable = entry[c][e].payable
               /\ entry'[c][e].recovery = entry[c][e].recovery
    <3>1. PICK o, v : o = SweptOutcome(t, e) /\ v = SweptNet(t, e)
      OBVIOUS
    <3>2. o \in Outcomes /\ entry[c][e] \in EntryRecord /\ e \in Employees
      BY <1>2, <3>1, SweptTypes DEF IInv
    <3>3. entry'[c][e] = [entry[c][e] EXCEPT !.outcome = o, !.net = v]
      BY <1>1, <1>2, <3>1
    <3> QED
      BY <3>2, <3>3 DEF EntryRecord
  <2>2. \A d \in Cycles, e \in Employees : d # c \/ e \notin S => entry'[d][e] = entry[d][e]
    BY <1>1, <1>2
  <2> QED
    BY <2>1, <2>2
<1> HIDE DEF S, c, plan
<1>6. /\ \A d \in Cycles, e \in Employees : (d = c /\ e \in S) \/ entry'[d][e] = entry[d][e]
      /\ \A d \in Cycles, e \in Employees :
            /\ entry'[d][e].outcome = "NONE" <=> entry[d][e].outcome = "NONE"
            /\ entry'[d][e].payable = entry[d][e].payable
            /\ entry'[d][e].recovery = entry[d][e].recovery
            /\ Bearable(entry'[d][e]) = Bearable(entry[d][e])
            /\ Resolved(entry[d][e]) => Resolved(entry'[d][e]) /\ entry'[d][e] = entry[d][e]
  <2>1. \A d \in Cycles, e \in Employees : (d = c /\ e \in S) \/ entry'[d][e] = entry[d][e]
    BY <1>5
  <2>2. ASSUME NEW d \in Cycles, NEW e \in Employees
        PROVE  /\ entry'[d][e].outcome = "NONE" <=> entry[d][e].outcome = "NONE"
               /\ entry'[d][e].payable = entry[d][e].payable
               /\ entry'[d][e].recovery = entry[d][e].recovery
               /\ Bearable(entry'[d][e]) = Bearable(entry[d][e])
               /\ Resolved(entry[d][e]) => Resolved(entry'[d][e]) /\ entry'[d][e] = entry[d][e]
    <3>1. CASE entry'[d][e] = entry[d][e]
      BY <3>1
    <3>2. CASE d = c /\ e \in S
      BY <1>3, <1>5, <3>2 DEF Bearable, Outcomes
    <3> QED
      BY <2>1, <3>1, <3>2
  <2> QED
    BY <2>1, <2>2
<1>7. \A a \in Adjustments :
         /\ adj[a].status # "NONE" =>
               /\ Continues(adj[a], adj'[a])
               /\ adj'[a].employee = adj[a].employee /\ adj'[a].type = adj[a].type
         /\ \A d \in Cycles :
               /\ mat'[a][d].amount = mat[a][d].amount
               /\ mat'[a][d].status = "NONE" <=> mat[a][d].status = "NONE"
               /\ settlement[a][d] # 0 => settlement'[a][d] = settlement[a][d]
               /\ d # c => mat'[a][d] = mat[a][d] /\ settlement'[a][d] = settlement[a][d]
  <2> SUFFICES ASSUME NEW a \in Adjustments
               PROVE  /\ adj[a].status # "NONE" =>
                            /\ Continues(adj[a], adj'[a])
                            /\ adj'[a].employee = adj[a].employee /\ adj'[a].type = adj[a].type
                      /\ \A d \in Cycles :
                            /\ mat'[a][d].amount = mat[a][d].amount
                            /\ mat'[a][d].status = "NONE" <=> mat[a][d].status = "NONE"
                            /\ settlement[a][d] # 0 => settlement'[a][d] = settlement[a][d]
                            /\ d # c => mat'[a][d] = mat[a][d] /\ settlement'[a][d] = settlement[a][d]
    OBVIOUS
  <2>1. ReleasedOne(t, a)
    BY <1>4
  <2>2. ASSUME adj[a].status # "NONE"
        PROVE  /\ Continues(adj[a], adj'[a])
               /\ adj'[a].employee = adj[a].employee /\ adj'[a].type = adj[a].type
    <3>1. CASE adj'[a] = adj[a]
      BY <3>1, SameRow DEF IInv
    <3>2. CASE \E n \in Nat : n <= adj[a].remaining /\ adj'[a] = Reduced(adj[a], n)
      <4>1. PICK n \in Nat : n <= adj[a].remaining /\ adj'[a] = Reduced(adj[a], n)
        BY <3>2
      <4>2. PICK old, new : old = adj[a] /\ new = adj'[a]
        OBVIOUS
      <4>3. old \in AdjRecord /\ old.remaining \in Nat
        BY <4>2 DEF IInv, TypeOK, AdjRecord
      <4>4. /\ new.remaining = old.remaining - n /\ new.payment = old.payment
            /\ new.type = old.type /\ new.employee = old.employee /\ new.amount = old.amount
            /\ new.timing = old.timing /\ new.installment = old.installment
        BY <4>1, <4>2, <4>3, ReducedRow
      <4> QED
        BY <4>2, <4>3, <4>4 DEF Continues
    <3> QED
      BY <2>1, <2>2, <3>1, <3>2 DEF ReleasedOne, c
  <2>3. \A d \in Cycles :
           /\ mat'[a][d].amount = mat[a][d].amount
           /\ mat'[a][d].status = "NONE" <=> mat[a][d].status = "NONE"
           /\ settlement[a][d] # 0 => settlement'[a][d] = settlement[a][d]
           /\ d # c => mat'[a][d] = mat[a][d] /\ settlement'[a][d] = settlement[a][d]
    BY <1>2, <2>1 DEF ReleasedOne, c
  <2> QED
    BY <2>2, <2>3
<1>8. OwnersKept
  BY <1>7 DEF OwnersKept
<1>9. \A a \in Adjustments, d \in Cycles :
         mat[a][d].status # "NONE" => adj[a].status # "NONE" /\ adj[a].employee \in Employees
  BY DEF IInv, RowsOK, RowsWellFounded
<1>10. RowsLinked'
  <2>1. \A d \in Cycles, e \in Employees : cycleStatus'[d] = "NONE" => entry'[d][e].outcome = "NONE"
    BY <1>1, <1>6 DEF BooksInv, RowsLinked
  <2>2. ASSUME NEW a \in Adjustments, NEW d \in Cycles
        PROVE  /\ mat'[a][d].status = "NONE" => mat'[a][d].amount = 0
               /\ mat'[a][d].status # "NONE" => entry'[d][adj'[a].employee].outcome # "NONE"
    <3>1. mat[a][d].status = "NONE" => mat[a][d].amount = 0
      BY DEF BooksInv, RowsLinked
    <3>2. ASSUME mat[a][d].status # "NONE"  PROVE entry'[d][adj'[a].employee].outcome # "NONE"
      <4>1. adj'[a].employee = adj[a].employee /\ adj[a].employee \in Employees
        BY <1>7, <1>9, <3>2
      <4>2. entry[d][adj[a].employee].outcome # "NONE"
        BY <3>2 DEF BooksInv, RowsLinked
      <4> QED
        BY <1>6, <4>1, <4>2
    <3> QED
      BY <1>7, <3>1, <3>2
  <2> QED
    BY <2>1, <2>2 DEF RowsLinked
<1>11. Conserved'
  <2> SUFFICES ASSUME NEW a \in Adjustments
               PROVE  /\ adj'[a].amount = adj'[a].remaining + adj'[a].payment
                                            + SumFunctionOnSet(settlement'[a], Cycles)
                      /\ adj'[a].status = "SETTLED" <=> adj'[a].status # "NONE" /\ adj'[a].remaining = 0
    BY DEF Conserved
  <2>1. /\ adj[a].amount = adj[a].remaining + adj[a].payment + SumFunctionOnSet(settlement[a], Cycles)
        /\ adj[a].status = "SETTLED" <=> adj[a].status # "NONE" /\ adj[a].remaining = 0
    BY DEF BooksInv, BooksAgree, Conserved
  <2>2. ReleasedOne(t, a)
    BY <1>4
  <2>3. CASE adj'[a] = adj[a] /\ settlement'[a] = settlement[a]
    BY <2>1, <2>3
  <2>4. CASE \E n \in Nat : /\ n <= adj[a].remaining /\ adj'[a] = Reduced(adj[a], n)
                            /\ settlement[a][c] = 0 /\ settlement'[a][c] = n
    <3>1. PICK n \in Nat : /\ n <= adj[a].remaining /\ adj'[a] = Reduced(adj[a], n)
                           /\ settlement[a][c] = 0 /\ settlement'[a][c] = n
      BY <2>4
    <3>2. PICK old, new, before, after :
             /\ old = adj[a] /\ new = adj'[a] /\ before = settlement[a] /\ after = settlement'[a]
      OBVIOUS
    <3>3. old \in AdjRecord /\ n <= old.remaining /\ new = Reduced(old, n)
      BY <3>1, <3>2 DEF IInv, TypeOK
    <3>4. /\ before \in [Cycles -> Nat] /\ after \in [Cycles -> Nat]
          /\ before[c] = 0 /\ after[c] = n /\ \A d \in Cycles : d # c => after[d] = before[d]
      BY <1>7, <3>1, <3>2 DEF IInv, TypeOK
    <3>5. old.amount = old.remaining + old.payment + SumFunctionOnSet(before, Cycles)
      BY <2>1, <3>2
    <3>6. new.amount = new.remaining + new.payment + SumFunctionOnSet(after, Cycles)
      BY <1>2, <3>3, <3>4, <3>5, SettlementAddsUp
    <3>7. new.status # "NONE" /\ (new.status = "SETTLED" <=> new.remaining = 0)
      BY <3>3, ReducedRow
    <3> QED
      BY <3>2, <3>6, <3>7
  <2>5. CASE /\ settlement'[a] = settlement[a] /\ adj[a].status = "NONE"
             /\ \E e \in RecoveryDue(t) : adj'[a] = NewRecovery(t, e)
    <3>1. PICK e \in RecoveryDue(t) : adj'[a] = NewRecovery(t, e)
      BY <2>5
    <3>2. PICK row : row = adj'[a]
      OBVIOUS
    <3>3. /\ row.amount = row.remaining + row.payment + SumFunctionOnSet(settlement[a], Cycles)
          /\ row.status = "SETTLED" <=> row.status # "NONE" /\ row.remaining = 0
      BY <2>5, <3>1, <3>2, RecoveryAddsUp
    <3> QED
      BY <2>5, <3>2, <3>3
  <2> QED
    BY <2>2, <2>3, <2>4, <2>5 DEF ReleasedOne, c
<1>12. DerivedColumnsAgree'
  <2>1. \A a \in Adjustments : reserved'[a] = SumFunctionOnSet(ActiveAmounts(a)', Cycles)
    <3> SUFFICES ASSUME NEW a \in Adjustments
                 PROVE  reserved'[a] = SumFunctionOnSet(ActiveAmounts(a)', Cycles)
      OBVIOUS
    <3>1. reserved[a] = SumFunctionOnSet(ActiveAmounts(a), Cycles)
      BY DEF BooksInv, BooksAgree, DerivedColumnsAgree
    <3>2. CASE mat'[a] = mat[a] /\ reserved'[a] = reserved[a]
      <4>1. ActiveAmounts(a)' = ActiveAmounts(a)
        BY <3>2 DEF ActiveAmounts
      <4> QED
        BY <3>1, <3>2, <4>1
    <3>3. CASE /\ mat[a][c].status = "ACTIVE" /\ reserved'[a] = reserved[a] - mat[a][c].amount
               /\ mat'[a][c].status # "ACTIVE"
      <4>1. PICK f, g : f = ActiveAmounts(a) /\ g = ActiveAmounts(a)'
        OBVIOUS
      <4>2. f[c] = mat[a][c].amount /\ g[c] = 0
        BY <1>2, <3>3, <4>1 DEF ActiveAmounts
      <4>3. \A d \in Cycles : d # c => g[d] = f[d]
        BY <1>7, <4>1 DEF ActiveAmounts
      <4>4. \A d \in Cycles : f[d] \in Int
        BY <4>1, ActiveType DEF IInv
      <4>5. \A d \in Cycles : g[d] \in Int
        BY <4>2, <4>3, <4>4
      <4>6. SumFunctionOnSet(g, Cycles) = SumFunctionOnSet(f, Cycles) - f[c] + g[c]
        <5>1. PICK x \in Cycles : x = c
          BY <1>2
        <5>2. \A d \in Cycles : d # x => g[d] = f[d]
          BY <4>3, <5>1
        <5>3. IsFiniteSet(Cycles)
          BY CyclesFinite
        <5>4. SumFunctionOnSet(g, Cycles) = SumFunctionOnSet(f, Cycles) - f[x] + g[x]
          <6> HIDE <3>3
          <6> QED
            BY <4>4, <4>5, <5>2, <5>3, SumChange
        <5> QED
          BY <5>1, <5>4
      <4>7. reserved[a] = SumFunctionOnSet(f, Cycles) /\ reserved[a] \in Nat /\ f[c] \in Int
        BY <1>2, <3>1, <4>1, <4>4 DEF IInv, TypeOK
      <4>8. reserved'[a] = reserved[a] - f[c]
        BY <3>3, <4>2
      <4>9. reserved'[a] = SumFunctionOnSet(g, Cycles)
        BY <4>2, <4>6, <4>7, <4>8
      <4> QED
        BY <4>1, <4>9
    <3>4. ReleasedOne(t, a)
      BY <1>4
    <3> QED
      BY <3>2, <3>3, <3>4 DEF ReleasedOne, c
  <2>2. ASSUME NEW d \in Cycles, NEW e \in Employees, entry'[d][e].outcome # "NONE"
        PROVE  /\ entry'[d][e].payable  = Total(e, "PAYABLE", Materialized(d))'
               /\ entry'[d][e].recovery = Total(e, "RECOVERY", Materialized(d))'
    <3>1. /\ Total(e, "PAYABLE", Materialized(d))' = Total(e, "PAYABLE", Materialized(d))
          /\ Total(e, "RECOVERY", Materialized(d))' = Total(e, "RECOVERY", Materialized(d))
      <4>1. \A a \in Adjustments : mat'[a][d].amount = mat[a][d].amount
        BY <1>7
      <4> QED
        BY <1>8, <4>1, MaterializedKept DEF BooksInv
    <3> QED
      BY <1>6, <2>2, <3>1 DEF BooksInv, BooksAgree, DerivedColumnsAgree
  <2> QED
    BY <2>1, <2>2 DEF DerivedColumnsAgree
<1>13. ConsumedIsSettled'
  <2> SUFFICES ASSUME NEW a \in Adjustments, NEW d \in Cycles, mat'[a][d].status = "CONSUMED"
               PROVE  /\ settlement'[a][d] \in 1 .. mat'[a][d].amount
                      /\ Resolved(entry'[d][adj'[a].employee])
    BY DEF ConsumedIsSettled
  <2>1. /\ mat[a][d].status # "NONE" /\ mat'[a][d].amount = mat[a][d].amount
        /\ adj'[a].employee = adj[a].employee /\ adj[a].employee \in Employees
    <3>1. mat[a][d].status # "NONE" /\ mat'[a][d].amount = mat[a][d].amount
      BY <1>7
    <3> QED
      BY <1>7, <1>9, <3>1
  <2>2. CASE mat[a][d].status = "CONSUMED" /\ settlement'[a][d] = settlement[a][d]
    BY <1>6, <2>1, <2>2 DEF BooksInv, BooksAgree, ConsumedIsSettled
  <2>3. CASE /\ d = c /\ adj[a].employee \in S /\ settlement'[a][d] \in 1 .. mat[a][d].amount
    BY <1>5, <2>1, <2>3 DEF Resolved
  <2>4. ReleasedOne(t, a)
    BY <1>4
  <2> QED
    BY <2>1, <2>2, <2>3, <2>4, <1>7 DEF ReleasedOne, c, S
<1>14. RecoveredWithinMeans'
  <2> SUFFICES ASSUME NEW d \in Cycles, NEW e \in Employees, Resolved(entry'[d][e])
               PROVE  Total(e, "RECOVERY", Consumption(d))' <= Bearable(entry'[d][e])
    BY DEF RecoveredWithinMeans
  <2>0. PICK before, after : before = Consumption(d) /\ after = Consumption(d)'
    OBVIOUS
  <2>1. before \in Amounts /\ after \in Amounts
    BY <2>0, AmountTypes, AmountTypesThen DEF IInv
  <2>2. \A a \in Adjustments :
           /\ before[a] = IF mat[a][d].status = "CONSUMED" THEN settlement[a][d] ELSE 0
           /\ after[a] = IF mat'[a][d].status = "CONSUMED" THEN settlement'[a][d] ELSE 0
    BY <2>0 DEF Consumption
  <2>3. CASE d # c \/ e \notin S
    <3>1. \A a \in Adjustments :
             (IF adj'[a].employee = e /\ adj'[a].type = "RECOVERY" THEN after[a] ELSE 0) =
             (IF adj[a].employee = e /\ adj[a].type = "RECOVERY" THEN before[a] ELSE 0)
      <4> SUFFICES ASSUME NEW a \in Adjustments
                   PROVE  (IF adj'[a].employee = e /\ adj'[a].type = "RECOVERY" THEN after[a] ELSE 0) =
                          (IF adj[a].employee = e /\ adj[a].type = "RECOVERY" THEN before[a] ELSE 0)
        OBVIOUS
      <4>1. CASE mat[a][d].status = "NONE"
        BY <1>7, <2>2, <4>1
      <4>2. CASE mat[a][d].status # "NONE" /\ after[a] = before[a]
        BY <1>7, <1>9, <4>2
      <4>3. CASE mat[a][d].status # "NONE" /\ d = c /\ adj[a].employee \in S
        BY <1>7, <1>9, <2>3, <4>3
      <4>4. ReleasedOne(t, a)
        BY <1>4
      <4>5. after[a] = before[a] \/ (d = c /\ adj[a].employee \in S)
        <5>1. CASE d # c
          BY <1>7, <2>2, <5>1
        <5>2. CASE a \notin Holds(t)
          <6>1. mat'[a] = mat[a] /\ settlement'[a] = settlement[a]
            BY <4>4, <5>2 DEF ReleasedOne
          <6> QED
            BY <2>2, <6>1
        <5>3. CASE d = c /\ a \in Holds(t)
          BY <4>4, <5>3 DEF ReleasedOne, S
        <5> QED
          BY <5>1, <5>2, <5>3
      <4> QED
        BY <4>1, <4>2, <4>3, <4>5
    <3>2. TotalOf(adj', e, "RECOVERY", after) = TotalOf(adj, e, "RECOVERY", before)
      BY <2>1, <3>1, TotalsAgree
    <3>3. Total(e, "RECOVERY", Consumption(d))' = Total(e, "RECOVERY", Consumption(d))
      BY <2>0, <3>2, TotalNow, TotalThen
    <3>4. entry'[d][e] = entry[d][e]
      BY <1>5, <2>3
    <3> QED
      BY <3>3, <3>4 DEF BooksInv, BooksAgree, RecoveredWithinMeans
  <2>4. CASE d = c /\ e \in S
    <3>1. PICK p : p = Planned(t)
      OBVIOUS
    <3>2. p \in Amounts /\ \A a \in Adjustments : p[a] = plan[a].amount
      BY <3>1, AmountTypes DEF IInv, Planned, plan
    <3>3. \A a \in Adjustments :
             (IF adj'[a].employee = e /\ adj'[a].type = "RECOVERY" THEN after[a] ELSE 0) =
             (IF adj[a].employee = e /\ adj[a].type = "RECOVERY" THEN p[a] ELSE 0)
      <4> SUFFICES ASSUME NEW a \in Adjustments
                   PROVE  (IF adj'[a].employee = e /\ adj'[a].type = "RECOVERY" THEN after[a] ELSE 0) =
                          (IF adj[a].employee = e /\ adj[a].type = "RECOVERY" THEN p[a] ELSE 0)
        OBVIOUS
      <4>1. ReleasedOne(t, a)
        BY <1>4
      <4>2. CASE adj[a].status # "NONE" /\ after[a] = p[a]
        BY <1>7, <4>2
      <4>3. CASE after[a] = 0 /\ p[a] = 0
        BY <4>3
      <4>4. CASE mat[a][d].status = "CONSUMED" /\ a \notin Holds(t) /\ p[a] = 0
        <5>1. adj'[a].employee = adj[a].employee /\ adj[a].employee # e
          BY <1>3, <1>7, <1>9, <2>4, <4>4 DEF BooksInv, BooksAgree, ConsumedIsSettled
        <5> QED
          BY <5>1
      <4> QED
        BY <2>2, <2>4, <3>2, <4>1, <4>2, <4>3, <4>4 DEF ReleasedOne, c, plan
    <3>4. TotalOf(adj', e, "RECOVERY", after) = TotalOf(adj, e, "RECOVERY", p)
      BY <2>1, <3>2, <3>3, TotalsAgree
    <3>5. Total(e, "RECOVERY", Consumption(d))' = Total(e, "RECOVERY", Planned(t))
      BY <2>0, <3>1, <3>4, TotalNow, TotalThen
    <3>6. PICK b, x, k : /\ b = Bearable(entry[d][e]) /\ x = Total(e, "RECOVERY", Planned(t))
                         /\ k = txn[t].capacity[e]
      OBVIOUS
    <3>7. b \in Nat /\ x \in Nat /\ k \in Nat
      <4>1. entry[d][e] \in EntryRecord
        BY <1>2
      <4>2. x = TotalOf(adj, e, "RECOVERY", p)
        BY <3>1, <3>6, TotalNow
      <4> QED
        BY <1>2, <3>2, <3>6, <4>1, <4>2, BearableType, TotalType
    <3>8. k + x <= b
      BY <1>3, <2>4, <3>6
    <3>9. x <= b
      BY <3>7, <3>8
    <3> QED
      BY <1>6, <3>5, <3>6, <3>9
  <2> QED
    BY <2>3, <2>4
<1>15. RowsAgree'
  BY <1>10, <1>11, <1>12, <1>13, <1>14 DEF RowsAgree, BooksAgree
<1>16. ASSUME NEW u \in Txns \ {t}  PROVE Spared(u)
  <2>1. txn'[u] = txn[u] /\ Holds(u)' = Holds(u)
    BY <1>1, <1>16, Ended DEF End, Becomes, LocksKept, IInv, TypeOK
  <2>2. SweepOK(u) /\ txn[u].cycle \in Cycles /\ txn[u].chosen \subseteq Employees
    BY DEF BooksInv, IInv, TypeOK, TxnRecord
  <2>3. ASSUME txn[u].kind = "release", txn[u].pc \in {"entries", "consume"}
        PROVE  entry'[txn[u].cycle] = entry[txn[u].cycle]
    <3>1. cycleLock[txn[u].cycle] = u
      BY <2>3 DEF IInv, TransactionOK, LockedCycle
    <3>2. txn[u].cycle # c
      BY <1>2, <1>16, <3>1
    <3> QED
      BY <1>1, <1>2, <2>2, <3>2
  <2>4. \A e \in txn[u].chosen : Bearable(entry[txn[u].cycle][e]) \in Nat
    <3>1. \A e \in txn[u].chosen : entry[txn[u].cycle][e] \in EntryRecord
      BY <1>2, <2>2
    <3> QED
      BY <3>1, BearableType
  <2>5. \A a \in Holds(u) : settlement'[a] = settlement[a]
    <3>1. \A a \in Holds(u) : a \in Adjustments /\ a \notin Holds(t)
      BY <1>16 DEF Holds
    <3> QED
      BY <1>4, <3>1 DEF ReleasedOne
  <2> QED
    BY <2>1, <2>2, <2>3, <2>4, <2>5 DEF Spared, SweepOK
<1>17. BooksInv'
  BY <1>1, <1>8, <1>15, <1>16, BooksEnd, BooksComposed
<1>18. History
  <2>1. LedgerStep
    <3>1. \A a \in Adjustments :
             adj[a].status # "NONE" \/ adj[a].payment # 0 => Continues(adj[a], adj'[a])
      BY <1>7, NothingRecorded
    <3> QED
      BY <1>7, <3>1, LedgerContinues DEF IInv
  <2>2. ReservationStep
    <3> SUFFICES ASSUME NEW a \in Adjustments, NEW d \in Cycles
                 PROVE  /\ mat[a][d].status # "NONE" => mat'[a][d].amount = mat[a][d].amount
                        /\ mat[a][d].status \in {"CONSUMED", "CANCELLED"} => mat'[a][d] = mat[a][d]
                        /\ mat[a][d].status = "ACTIVE" /\ mat'[a][d].status # "ACTIVE" =>
                              /\ ~Resolved(entry[d][adj[a].employee])
                              /\ Resolved(entry'[d][adj[a].employee])
      BY DEF ReservationStep
    <3>1. ReleasedOne(t, a)
      BY <1>4
    <3>2. mat[a][d].status \in {"CONSUMED", "CANCELLED"} => mat'[a][d] = mat[a][d]
      BY <1>7, <3>1 DEF ReleasedOne, c
    <3>3. mat[a][d].status = "ACTIVE" /\ mat'[a][d].status # "ACTIVE" =>
             d = c /\ adj[a].employee \in S
      BY <1>7, <3>1 DEF ReleasedOne, c, S
    <3> QED
      BY <1>3, <1>5, <1>7, <3>2, <3>3 DEF Resolved
  <2>3. ResolvedStep
    BY <1>6 DEF ResolvedStep
  <2> QED
    BY <2>1, <2>2, <2>3 DEF History
<1> QED
  BY <1>17, <1>18

-----------------------------------------------------------------------------
(* The initial state, and every step together. *)

(* The first payroll is archived and paid, the second a fresh draft, and no balance   *)
(* exists: every sum is zero.                                                         *)
LEMMA BooksInit == Init => BooksInv
<1> SUFFICES ASSUME Init PROVE BooksInv
  OBVIOUS
<1>1. TypeOK
  BY InitInvariant DEF IInv
<1>2. \A a \in Adjustments : /\ adj[a] = NoAdj /\ reserved[a] = 0
                             /\ \A c \in Cycles : mat[a][c] = NoMat /\ settlement[a][c] = 0
  BY DEF Init
<1>3. \A c \in Cycles, e \in Employees :
         /\ entry[c][e].payable = 0 /\ entry[c][e].recovery = 0
         /\ cycleStatus[c] = "NONE" => entry[c][e].outcome = "NONE"
  <2> SUFFICES ASSUME NEW c \in Cycles, NEW e \in Employees
               PROVE  /\ entry[c][e].payable = 0 /\ entry[c][e].recovery = 0
                      /\ cycleStatus[c] = "NONE" => entry[c][e].outcome = "NONE"
    OBVIOUS
  <2>1. \/ c = 0 /\ entry[c][e] = [FreshEntry EXCEPT !.outcome = "PAID"] /\ cycleStatus[c] = "ARCHIVED"
        \/ c = 1 /\ entry[c][e] = FreshEntry /\ cycleStatus[c] = "DRAFT"
        \/ entry[c][e] = NoEntry
    BY DEF Init, NoEntries
  <2>2. /\ NoEntry.outcome = "NONE" /\ NoEntry.payable = 0 /\ NoEntry.recovery = 0
        /\ FreshEntry.payable = 0 /\ FreshEntry.recovery = 0
        /\ [FreshEntry EXCEPT !.outcome = "PAID"].payable = 0
        /\ [FreshEntry EXCEPT !.outcome = "PAID"].recovery = 0
    BY DEF FreshEntry, NoEntry
  <2>3. CASE entry[c][e] = NoEntry
    BY <2>2, <2>3
  <2> QED
    BY <2>1, <2>2, <2>3
<1>4. ASSUME NEW e, NEW type, NEW amounts \in Amounts, \A a \in Adjustments : amounts[a] = 0
      PROVE  Total(e, type, amounts) = 0
  <2>1. TotalOf(adj, e, type, amounts) = 0
    BY <1>4, TotalOfNothing
  <2> QED
    BY <2>1 DEF Total, Share, TotalOf, Portion
<1>5. /\ \A c \in Cycles : /\ Materialized(c) \in Amounts /\ Consumption(c) \in Amounts
                           /\ \A a \in Adjustments : Materialized(c)[a] = 0 /\ Consumption(c)[a] = 0
      /\ \A c \in Cycles, e \in Employees, type \in {"PAYABLE", "RECOVERY"} :
            Total(e, type, Materialized(c)) = 0 /\ Total(e, type, Consumption(c)) = 0
  <2>1. \A c \in Cycles : /\ Materialized(c) \in Amounts /\ Consumption(c) \in Amounts
                          /\ \A a \in Adjustments : Materialized(c)[a] = 0 /\ Consumption(c)[a] = 0
    BY <1>1, <1>2, AmountTypes DEF Materialized, Consumption, NoMat
  <2> QED
    BY <1>4, <2>1
<1>6. RowsLinked
  BY <1>2, <1>3 DEF RowsLinked, NoMat
<1>7. Conserved
  <2> SUFFICES ASSUME NEW a \in Adjustments
               PROVE  /\ adj[a].amount = adj[a].remaining + adj[a].payment
                                          + SumFunctionOnSet(settlement[a], Cycles)
                      /\ adj[a].status = "SETTLED" <=> adj[a].status # "NONE" /\ adj[a].remaining = 0
    BY DEF Conserved
  <2>1. PICK f : f = settlement[a]
    OBVIOUS
  <2>2. \A c \in Cycles : f[c] = 0
    BY <1>2, <2>1
  <2>3. SumFunctionOnSet(f, Cycles) = 0
    BY <2>2, CyclesFinite, SumOfZeros
  <2> QED
    BY <1>2, <2>1, <2>3 DEF NoAdj
<1>8. DerivedColumnsAgree
  <2>1. ASSUME NEW a \in Adjustments PROVE reserved[a] = SumFunctionOnSet(ActiveAmounts(a), Cycles)
    <3>1. PICK f : f = ActiveAmounts(a)
      OBVIOUS
    <3>2. \A c \in Cycles : f[c] = 0
      BY <1>2, <3>1 DEF ActiveAmounts, NoMat
    <3>3. SumFunctionOnSet(f, Cycles) = 0
      BY <3>2, CyclesFinite, SumOfZeros
    <3> QED
      BY <1>2, <3>1, <3>3
  <2> QED
    BY <1>3, <1>5, <2>1 DEF DerivedColumnsAgree
<1>9. ConsumedIsSettled
  BY <1>2 DEF ConsumedIsSettled, NoMat
<1>10. RecoveredWithinMeans
  <2> SUFFICES ASSUME NEW c \in Cycles, NEW e \in Employees
               PROVE  Total(e, "RECOVERY", Consumption(c)) <= Bearable(entry[c][e])
    BY DEF RecoveredWithinMeans
  <2>1. Bearable(entry[c][e]) \in Nat
    BY <1>1, BearableType DEF TypeOK
  <2> QED
    BY <1>5, <2>1
<1>11. ASSUME NEW t \in Txns PROVE PlansHeld(t) /\ SweepOK(t) /\ CarryOK(t)
  <2>1. txn[t].kind = "none"
    BY DEF Init, Idle
  <2> QED
    BY <2>1 DEF PlansHeld, SweepOK, CarryOK
<1> QED
  BY <1>6, <1>7, <1>8, <1>9, <1>10, <1>11 DEF BooksInv, BooksAgree

(* Requests, reads and rollbacks write no row. *)
LEMMA RowsReadOnly ==
  ASSUME NEW t \in Txns,
         \/ Request(t) \/ Refuse(t) \/ AbortVictim(t) \/ Fail(t)
         \/ \E a \in Adjustments : LockToPay(t, a) \/ LockToSettle(t, a) \/ LockToReserve(t, a)
         \/ LockCycleToMaterialize(t) \/ LockCycleForCandidate(t) \/ Skip(t) \/ CountBlocking(t)
         \/ \E chosen \in SUBSET Employees : LockCycleToRelease(t, chosen)
         \/ UpdateEntries(t) \/ Archive(t)
         \/ \E a \in Adjustments : LockToConsume(t, a) \/ LockToCarry(t, a)
  PROVE  UNCHANGED rows
<1>1. CASE Request(t)
  BY <1>1 DEF Request, RequestPayment, RequestSettlement, RequestMaterialization, RequestBatch,
              RequestRelease, RequestFinalize, RequestRollover, Start
<1>2. CASE Refuse(t) \/ AbortVictim(t) \/ Fail(t)
  BY <1>2 DEF Refuse, AbortVictim, Fail, Rollback
<1>3. CASE \E a \in Adjustments : LockToPay(t, a) \/ LockToSettle(t, a) \/ LockToReserve(t, a)
  BY <1>3 DEF LockToPay, LockToSettle, LockToReserve
<1>4. CASE LockCycleToMaterialize(t) \/ LockCycleForCandidate(t) \/ Skip(t) \/ CountBlocking(t)
  BY <1>4 DEF LockCycleToMaterialize, LockCycleForCandidate, Skip, CountBlocking
<1>5. CASE \E chosen \in SUBSET Employees : LockCycleToRelease(t, chosen)
  BY <1>5 DEF LockCycleToRelease
<1>6. CASE UpdateEntries(t) \/ Archive(t)
  BY <1>6 DEF UpdateEntries, Archive
<1>7. CASE \E a \in Adjustments : LockToConsume(t, a) \/ LockToCarry(t, a)
  BY <1>7 DEF LockToConsume, LockToCarry
<1> QED
  BY <1>1, <1>2, <1>3, <1>4, <1>5, <1>6, <1>7

(* A statement of a transaction keeps the books and what is recorded. *)
LEMMA BooksStep ==
  ASSUME IInv, IInv', BooksInv, NEW t \in Txns, Step(t)
  PROVE  BooksInv' /\ History
<1>0. TypeOK
  BY DEF IInv
<1>1. CASE \/ \E a \in Adjustments : LockToPay(t, a) \/ LockToSettle(t, a) \/ LockToReserve(t, a)
           \/ LockCycleToMaterialize(t) \/ LockCycleForCandidate(t) \/ Skip(t) \/ CountBlocking(t)
  BY <1>0, <1>1, BooksRead, RowsReadOnly, QuietHistory
<1>2. CASE \E chosen \in SUBSET Employees : LockCycleToRelease(t, chosen)
  BY <1>0, <1>2, BooksLockCycleToRelease, RowsReadOnly, QuietHistory
<1>3. CASE UpdateEntries(t)
  BY <1>0, <1>3, BooksUpdateEntries, RowsReadOnly, QuietHistory
<1>4. CASE \E a \in Adjustments : LockToConsume(t, a)
  BY <1>0, <1>4, BooksLockToConsume, RowsReadOnly, QuietHistory
<1>5. CASE Archive(t)
  BY <1>0, <1>5, BooksArchive, RowsReadOnly, QuietHistory
<1>6. CASE \E a \in Adjustments : LockToCarry(t, a)
  BY <1>0, <1>6, BooksLockToCarry, RowsReadOnly, QuietHistory
<1>7. CASE \E a \in Adjustments : PayStandalone(t, a)
  BY <1>7, BooksPayStandalone
<1>8. CASE \E a \in Adjustments : Settle(t, a)
  BY <1>8, BooksSettle
<1>9. CASE \E a \in Adjustments : Reserve(t, a)
  BY <1>9, BooksReserve
<1>10. CASE \E origin \in [RecoveryDue(t) -> Adjustments] : CommitRelease(t, origin)
  BY <1>10, BooksCommitRelease
<1>11. CASE Finalize(t)
  BY <1>11, BooksFinalize
<1>12. CASE StartNextCycle(t)
  BY <1>12, BooksStartNextCycle
<1> QED
  BY <1>1, <1>2, <1>3, <1>4, <1>5, <1>6, <1>7, <1>8, <1>9, <1>10, <1>11, <1>12 DEF Step

(* Every step of the system does. *)
LEMMA BooksNext ==
  ASSUME IInv, IInv', BooksInv, [Next]_vars
  PROVE  BooksInv' /\ History
<1>0. TypeOK
  BY DEF IInv
<1>1. CASE \E t \in Txns : Request(t)
  BY <1>0, <1>1, BooksRequest, RowsReadOnly, QuietHistory
<1>2. CASE \E t \in Txns : Step(t)
  BY <1>2, BooksStep
<1>3. CASE \E t \in Txns : Refuse(t) \/ AbortVictim(t) \/ Fail(t)
  <2>1. PICK t \in Txns : Refuse(t) \/ AbortVictim(t) \/ Fail(t)
    BY <1>3
  <2>2. Rollback(t)
    BY <2>1 DEF Refuse, AbortVictim, Fail
  <2> QED
    BY <1>0, <2>1, <2>2, BooksRollback, RowsReadOnly, QuietHistory
<1>4. CASE Edit
  BY <1>4, BooksEdit
<1>5. CASE UNCHANGED vars
  <2>1. /\ UNCHANGED <<cycleStatus, adj, mat, settlement, reserved, locks, txn>>
        /\ entry' = entry
    BY <1>5 DEF vars, rows
  <2> QED
    BY <2>1, BooksEdited DEF EditedRow
<1> QED
  BY <1>1, <1>2, <1>3, <1>4, <1>5 DEF Next

-----------------------------------------------------------------------------
(* The inductive invariant of the books holds of every reachable state: beside the    *)
(* books themselves, what every sweep and rollover has planned fits the entries and   *)
(* balances it will write.                                                            *)
THEOREM BooksInvariantHolds == Spec => []BooksInv
<1>1. IInv /\ IInv' /\ BooksInv /\ [Next]_vars => BooksInv'
  BY BooksNext
<1> QED
  BY <1>1, BooksInit, InvariantHolds, PTL DEF Spec

(* However the settlements, reservations, releases, rollovers and edits of any number *)
(* of employees and months interleave: every rupee of a balance is owed or recorded   *)
(* exactly once, the reserved amounts and the correction columns of the payroll are   *)
(* the sums they stand for, every consumed reservation has its settlement, and no     *)
(* release takes more from an entry than it earned.                                   *)
THEOREM BooksAlwaysAgree == Spec => []BooksAgree
<1>1. BooksInv => BooksAgree
  BY DEF BooksInv
<1> QED
  BY <1>1, BooksInvariantHolds, PTL

(* No step rewrites what is recorded: a payment or settlement row, the subject of a   *)
(* balance, a reservation that was consumed or cancelled, or a released entry.        *)
THEOREM RecordedIsFinal == Spec => HistoryIsFinal
<1>1. IInv /\ IInv' /\ BooksInv /\ [Next]_vars => [LedgerStep /\ ReservationStep /\ ResolvedStep]_vars
  BY BooksNext DEF History
<1> QED
  BY <1>1, InvariantHolds, BooksInvariantHolds, PTL DEF Spec, HistoryIsFinal
====
