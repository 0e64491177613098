--------------------------- MODULE CorrectionLedger ---------------------------
(***************************************************************************)
(* Balance adjustments (what a correction leaves the company or the        *)
(* employee owing), their reservation into a draft payroll cycle, and      *)
(* every transaction that settles, reserves, consumes or carries them:     *)
(* standalone payment, manual settlement, manual and batch                 *)
(* materialization, unit release, cycle finalization and rollover.         *)
(*                                                                         *)
(* A request runs as one PostgreSQL transaction at READ COMMITTED. What it *)
(* reads between two lock acquisitions is kept in txn[t]; its writes take  *)
(* effect, together, in the action that commits it. cycleLock is the       *)
(* exclusive row lock of a PayrollCycle (SELECT ... FOR UPDATE, or the     *)
(* rollover's own UPDATE), adjLock the transaction-scoped advisory lock of *)
(* a BalanceAdjustment; both are released by commit and by rollback.       *)
(***************************************************************************)
EXTENDS CorrectionMath, FiniteSetsExt

CONSTANTS
    Employees,       \* employees of the one site the model looks at
    Adjustments,     \* ids of BalanceAdjustment rows that may come to exist
    LastCycle,       \* bound: the last payroll cycle a rollover may create
    Txns,            \* requests that may run at the same time
    Earnings,        \* bound: figures an entry can be edited to (net of all but corrections)
    FreshEarnings,   \* the figure of an entry with no attendance entered yet
    LegacyFigure,    \* each figure as the LEGACY_V1 arithmetic rounds it
    Proposals,       \* bound: balances an approved correction can leave
    ManualAmounts,   \* bound: amounts a manual settlement can propose
    Leavers,         \* bound: the employees who may leave and come back
    Requests,        \* the kinds of request a run allows
    None             \* no holder

Cycles     == 0 .. LastCycle
Kinds      == {"payment", "settle", "materialize", "batch", "release", "finalize", "rollover"}
Outcomes   == {"PAID", "NO_PAY_DUE", "RECOVERY_DUE"}

ASSUME AdjustmentsAssumption == Adjustments \subseteq Nat /\ IsFiniteSet(Adjustments)
ASSUME LastCycleAssumption   == LastCycle \in Nat \ {0}
ASSUME EarningsAssumption    == Earnings \subseteq Int /\ FreshEarnings \in Earnings
ASSUME LegacyAssumption      == LegacyFigure \in [Earnings -> Int]
ASSUME ProposalsAssumption   ==
    Proposals \subseteq [type : {"PAYABLE", "RECOVERY"}, timing : {"IMMEDIATE", "DEFERRED", "NULL"},
                         installment : Nat, amount : Nat \ {0}]
ASSUME AmountsAssumption     == ManualAmounts \subseteq Nat \ {0}
ASSUME LeaversAssumption     == Leavers \subseteq Employees
ASSUME RequestsAssumption    == Requests \subseteq Kinds
ASSUME NoneAssumption        == None \notin Txns

VARIABLES
    cycleStatus,     \* PayrollCycle.status, "NONE" before the row exists
    entry,           \* PayrollEntry by cycle and employee
    departed,        \* employees with a dateOfLeaving
    adj,             \* BalanceAdjustment (and its CorrectionPayment) by id
    mat,             \* BalanceAdjustmentMaterialization, one per adjustment and cycle
    settlement,      \* BalanceAdjustmentSettlement.amountApplied, 0 where there is no row
    reserved,        \* sum of the ACTIVE materializations of an adjustment (a query in the code)
    cycleLock, adjLock,
    txn              \* the request each transaction slot is running

rows  == <<cycleStatus, entry, departed, adj, mat, settlement, reserved>>
locks == <<cycleLock, adjLock>>
vars  == <<rows, locks, txn>>

-----------------------------------------------------------------------------
(* Rows. *)

EntryRecord == [outcome : {"NONE", "OPEN"} \cup Outcomes, hold : BOOLEAN, earnings : Earnings,
                payable : Nat, recovery : Nat, net : Int]
AdjRecord   == [status : {"NONE", "PENDING", "SETTLED"}, type : {"PAYABLE", "RECOVERY"},
                timing : {"IMMEDIATE", "DEFERRED", "NULL"}, installment : Nat,
                employee : Employees \cup {None}, amount : Nat, remaining : Nat, payment : Nat]
MatRecord   == [status : {"NONE", "ACTIVE", "CONSUMED", "CANCELLED"}, amount : Nat]
PlanRecord  == [amount : Nat, remaining : Nat]

NoEntry    == [outcome |-> "NONE", hold |-> FALSE, earnings |-> FreshEarnings,
               payable |-> 0, recovery |-> 0, net |-> 0]
FreshEntry == [NoEntry EXCEPT !.outcome = "OPEN"]
NoEntries  == [e \in Employees |-> NoEntry]
NoAdj      == [status |-> "NONE", type |-> "PAYABLE", timing |-> "NULL", installment |-> 0,
               employee |-> None, amount |-> 0, remaining |-> 0, payment |-> 0]
NoMat      == [status |-> "NONE", amount |-> 0]
NoPlan     == [a \in Adjustments |-> [amount |-> 0, remaining |-> 0]]
Idle       == [kind |-> "none", pc |-> "idle", cycle |-> 0, amount |-> 0, read |-> NoEntries,
               chosen |-> {}, todo |-> {}, plan |-> NoPlan,
               capacity |-> [e \in Employees |-> 0]]

Resolved(row) == row.outcome \in Outcomes
Net(row)      == NetSalary(row.earnings, row.payable, row.recovery)

(* computeEntryCalc of a row already marked resolved and read without its snapshot. *)
LegacyNet(row) == NetSalary(LegacyFigure[row.earnings], row.payable, row.recovery)

(* recomputeAndPersistEntryAggregates: rows are never deleted and never change   *)
(* their amount, so the recomputed column is the old one plus the new row.       *)
AddAggregate(row, type, amount) ==
    IF type = "PAYABLE" THEN [row EXCEPT !.payable  = @ + amount]
                        ELSE [row EXCEPT !.recovery = @ + amount]

(* A new PENDING balance of employee e. *)
NewAdjustment(e, p) ==
    [status |-> "PENDING", type |-> p.type, timing |-> p.timing, installment |-> p.installment,
     employee |-> e, amount |-> p.amount, remaining |-> p.amount, payment |-> 0]

(* updateBalanceAdjustmentAfterSettlement, once its WHERE clause matches; the      *)
(* first form, for comparison, forgets what was settled before.                   *)
ReducedFromAmount(row, amount) ==
    [row EXCEPT !.remaining = row.amount - amount, !.status = StatusAfter(row.amount - amount)]
Reduced(row, amount) ==
    [row EXCEPT !.remaining = @ - amount, !.status = StatusAfter(row.remaining - amount)]
Unchanged(row, plan) == row.status = "PENDING" /\ row.remaining = plan.remaining

-----------------------------------------------------------------------------
Init ==
    /\ cycleStatus = [c \in Cycles |->
                        CASE c = 0 -> "ARCHIVED" [] c = 1 -> "DRAFT" [] OTHER -> "NONE"]
    /\ entry = [c \in Cycles |->
                  CASE c = 0 -> [e \in Employees |-> [FreshEntry EXCEPT !.outcome = "PAID"]]
                    [] c = 1 -> [e \in Employees |-> FreshEntry]
                    [] OTHER -> NoEntries]
    /\ departed = {}
    /\ adj = [a \in Adjustments |-> NoAdj]
    /\ mat = [a \in Adjustments |-> [c \in Cycles |-> NoMat]]
    /\ settlement = [a \in Adjustments |-> [c \in Cycles |-> 0]]
    /\ reserved = [a \in Adjustments |-> 0]
    /\ cycleLock = [c \in Cycles |-> None]
    /\ adjLock = [a \in Adjustments |-> None]
    /\ txn = [t \in Txns |-> Idle]

-----------------------------------------------------------------------------
(* Starting a request, taking locks, ending a transaction. *)

Becomes(t, request) == txn' = [txn EXCEPT ![t] = request]

Start(t, request) ==
    /\ txn[t].pc = "idle"
    /\ request.kind \in Requests
    /\ Becomes(t, request)
    /\ UNCHANGED <<rows, locks>>

(* lockPayrollCycleForUpdate; the first form, for comparison, is the same SELECT   *)
(* without FOR UPDATE.                                                             *)
ReadCycle(t, c) ==
    /\ cycleLock[c] = None
    /\ cycleLock' = cycleLock
TakeCycle(t, c) ==
    /\ cycleLock[c] = None
    /\ cycleLock' = [cycleLock EXCEPT ![c] = t]

(* acquireBalanceAdjustmentLock waits until the lock is free. *)
TakeAdjustment(t, a) ==
    /\ adjLock[a] = None
    /\ adjLock' = [adjLock EXCEPT ![a] = t]

(* Commit or rollback ends every lock the transaction holds. *)
ReleaseLocks(t) ==
    /\ cycleLock' = [c \in Cycles |-> IF cycleLock[c] = t THEN None ELSE cycleLock[c]]
    /\ adjLock'   = [a \in Adjustments |-> IF adjLock[a] = t THEN None ELSE adjLock[a]]

End(t) == ReleaseLocks(t) /\ Becomes(t, Idle)

Holds(t) == {a \in Adjustments : adjLock[a] = t}

(* A row of the cycle is updated but not yet committed by a release. *)
RowLocked(c, e) ==
    \E t \in Txns : txn[t].kind = "release" /\ txn[t].pc = "consume"
                    /\ txn[t].cycle = c /\ e \in txn[t].chosen

(* Another transaction holds the cycle row FOR UPDATE: inserting a row that      *)
(* references it waits. The rollover's UPDATE of the status does not block that. *)
ForeignKeyWaits(t, c) ==
    cycleLock[c] \notin {None, t} /\ txn[cycleLock[c]].kind # "rollover"

-----------------------------------------------------------------------------
(* Standalone payment: recordCorrectionPayment. *)

RequestPayment(t, a) ==
    /\ adj[a].status # "NONE"
    /\ Start(t, [Idle EXCEPT !.kind = "payment", !.pc = "adjustment", !.todo = {a}])

(* What the transaction does once it has read, under the lock, whether the amount is *)
(* accepted: it goes on to write, or it goes where the code says otherwise.          *)
Decide(t, a, accepted, amount, otherwise) ==
    Becomes(t, [txn[t] EXCEPT
        !.pc   = IF accepted THEN "write" ELSE otherwise,
        !.todo = @ \ {a},
        !.plan = IF accepted
                   THEN [@ EXCEPT ![a] = [amount |-> amount, remaining |-> adj[a].remaining]]
                   ELSE @])

LockToPay(t, a) ==
    /\ txn[t].kind = "payment" /\ txn[t].pc = "adjustment" /\ a \in txn[t].todo
    /\ TakeAdjustment(t, a)
    /\ Decide(t, a,
              /\ adj[a].type = "PAYABLE"
              /\ StandalonePaymentAccepted(adj[a].status, adj[a].remaining, reserved[a]),
              adj[a].remaining, "rejected")
    /\ UNCHANGED <<rows, cycleLock>>

PayStandalone(t, a) ==
    LET plan == txn[t].plan[a] IN
    /\ txn[t].kind = "payment" /\ txn[t].pc = "write" /\ a \in Holds(t)
    /\ adj[a].payment = 0
    /\ Unchanged(adj[a], plan)
    /\ adj' = [adj EXCEPT ![a] = [Reduced(adj[a], plan.amount) EXCEPT !.payment = plan.amount]]
    /\ End(t)
    /\ UNCHANGED <<cycleStatus, entry, departed, mat, settlement, reserved>>

-----------------------------------------------------------------------------
(* Manual settlement against any existing cycle: recordBalanceAdjustmentSettlement. *)

RequestSettlement(t, a, c, amount) ==
    /\ adj[a].status # "NONE"
    /\ Start(t, [Idle EXCEPT !.kind = "settle", !.pc = "adjustment", !.todo = {a},
                             !.cycle = c, !.amount = amount])

LockToSettle(t, a) ==
    /\ txn[t].kind = "settle" /\ txn[t].pc = "adjustment" /\ a \in txn[t].todo
    /\ TakeAdjustment(t, a)
    /\ Decide(t, a,
              /\ ~(adj[a].type = "RECOVERY" /\ adj[a].employee \in departed)
              /\ cycleStatus[txn[t].cycle] # "NONE"
              /\ SettlementAccepted(adj[a].status, adj[a].remaining, reserved[a], txn[t].amount),
              txn[t].amount, "rejected")
    /\ UNCHANGED <<rows, cycleLock>>

Settle(t, a) ==
    LET plan == txn[t].plan[a]
        c    == txn[t].cycle
    IN
    /\ txn[t].kind = "settle" /\ txn[t].pc = "write" /\ a \in Holds(t)
    /\ ~ForeignKeyWaits(t, c)
    /\ settlement[a][c] = 0
    /\ Unchanged(adj[a], plan)
    /\ settlement' = [settlement EXCEPT ![a][c] = plan.amount]
    /\ adj' = [adj EXCEPT ![a] = Reduced(adj[a], plan.amount)]
    /\ End(t)
    /\ UNCHANGED <<cycleStatus, entry, departed, mat, reserved>>

-----------------------------------------------------------------------------
(* Materialization by an operator: one adjustment, or every candidate of a cycle. *)

(* materializeBalanceAdjustment: the entries are read under the cycle lock. *)
RequestMaterialization(t, a, c) ==
    /\ adj[a].status # "NONE" /\ cycleStatus[c] # "NONE"
    /\ Start(t, [Idle EXCEPT !.kind = "materialize", !.pc = "cycle", !.todo = {a}, !.cycle = c])

LockCycleToMaterialize(t) ==
    LET c == txn[t].cycle IN
    /\ txn[t].kind = "materialize" /\ txn[t].pc = "cycle"
    /\ TakeCycle(t, c)
    /\ Becomes(t, [txn[t] EXCEPT !.pc = "adjustment", !.read = entry[c]])
    /\ UNCHANGED <<rows, adjLock>>

(* listMaterializableAdjustments for the employees with an entry among "read". *)
Candidates(read) ==
    {a \in Adjustments :
        /\ adj[a].status = "PENDING"
        /\ MaterializableType(adj[a].type, adj[a].timing)
        /\ adj[a].employee \in {e \in Employees : read[e].outcome # "NONE"}}

(* materializeEligibleAdjustmentsForCycle: entries and candidates are read once,  *)
(* before any lock; every candidate then gets a transaction of its own.           *)
RequestBatch(t, c) ==
    /\ cycleStatus[c] # "NONE"
    /\ Candidates(entry[c]) # {}
    /\ Start(t, [Idle EXCEPT !.kind = "batch", !.pc = "cycle", !.cycle = c,
                             !.read = entry[c], !.todo = Candidates(entry[c])])

LockCycleForCandidate(t) ==
    /\ txn[t].kind = "batch" /\ txn[t].pc = "cycle"
    /\ TakeCycle(t, txn[t].cycle)
    /\ Becomes(t, [txn[t] EXCEPT !.pc = "adjustment"])
    /\ UNCHANGED <<rows, adjLock>>

(* materializeOneAdjustmentLocked up to determineMaterialization's decision. *)
LockToReserve(t, a) ==
    LET c   == txn[t].cycle
        row == txn[t].read[adj[a].employee]
        eligible == Eligible(adj[a], reserved[a], adj[a].employee \in departed, cycleStatus[c],
                             mat[a][c].status # "NONE", row.outcome # "NONE",
                             row.outcome = "PAID")
    IN
    /\ txn[t].kind \in {"materialize", "batch"} /\ txn[t].pc = "adjustment" /\ a \in txn[t].todo
    /\ TakeAdjustment(t, a)
    /\ Decide(t, a, eligible, ReservationAmount(adj[a], reserved[a]), "skip")
    /\ UNCHANGED <<rows, cycleLock>>

(* Commit one candidate's transaction; a batch goes on with what it has left (the   *)
(* first form, for comparison, does not see that it has nothing left).              *)
NextCandidateAlways(t) ==
    /\ ReleaseLocks(t)
    /\ Becomes(t, [txn[t] EXCEPT !.pc = "cycle", !.plan = NoPlan])
NextCandidate(t) ==
    /\ ReleaseLocks(t)
    /\ Becomes(t, IF txn[t].todo = {} THEN Idle
                  ELSE [txn[t] EXCEPT !.pc = "cycle", !.plan = NoPlan])

Skip(t) ==
    /\ txn[t].pc = "skip"
    /\ NextCandidate(t)
    /\ UNCHANGED rows

(* ... and from the insert on: the row, and the entry's two correction columns. *)
Reserve(t, a) ==
    LET c    == txn[t].cycle
        e    == adj[a].employee
        plan == txn[t].plan[a]
    IN
    /\ txn[t].kind \in {"materialize", "batch"} /\ txn[t].pc = "write" /\ a \in Holds(t)
    /\ mat[a][c].status = "NONE"
    /\ entry[c][e].outcome # "NONE"
    /\ mat' = [mat EXCEPT ![a][c] = [status |-> "ACTIVE", amount |-> plan.amount]]
    /\ reserved' = [reserved EXCEPT ![a] = @ + plan.amount]
    /\ entry' = [entry EXCEPT ![c][e] = AddAggregate(@, adj[a].type, plan.amount)]
    /\ NextCandidate(t)
    /\ UNCHANGED <<cycleStatus, departed, adj, settlement>>

-----------------------------------------------------------------------------
(* Releasing a project unit: releaseProjectUnit. *)

RequestRelease(t, c) ==
    /\ cycleStatus[c] = "DRAFT"
    /\ Start(t, [Idle EXCEPT !.kind = "release", !.pc = "cycle", !.cycle = c])

(* What blocks neither a sweep nor a finalization is open and not held. *)
Releasable(c) == {e \in Employees : entry[c][e].outcome = "OPEN" /\ ~entry[c][e].hold}

(* Under the cycle lock, the sweep reads the entries of its unit that nothing     *)
(* blocks; chosen stands for the unit, the multi-unit wait and the readiness gate. *)
LockCycleToRelease(t, chosen) ==
    LET c == txn[t].cycle IN
    /\ txn[t].kind = "release" /\ txn[t].pc = "cycle"
    /\ TakeCycle(t, c)
    /\ cycleStatus[c] = "DRAFT"
    /\ chosen # {} /\ chosen \subseteq Releasable(c)
    /\ Becomes(t, [txn[t] EXCEPT
          !.pc     = "entries",
          !.chosen = chosen,
          !.read   = [e \in Employees |-> IF e \in chosen THEN entry[c][e] ELSE NoEntry]])
    /\ UNCHANGED <<rows, adjLock>>

ActiveOn(c, chosen) ==
    {a \in Adjustments : mat[a][c].status = "ACTIVE" /\ adj[a].employee \in chosen}

(* The updates by id, guarded by neither version nor hold, lock the rows; what    *)
(* consumption then reads of them is the row as updated, not the row as swept,    *)
(* and without the snapshot, so its capacity comes from the LEGACY_V1 arithmetic. *)
UpdateEntries(t) ==
    LET c == txn[t].cycle IN
    /\ txn[t].kind = "release" /\ txn[t].pc = "entries"
    /\ \A e \in txn[t].chosen : entry[c][e].outcome # "NONE"
    /\ Becomes(t, [txn[t] EXCEPT
          !.pc       = "consume",
          !.todo     = ActiveOn(c, txn[t].chosen),
          !.capacity = [e \in Employees |->
                          IF e \in txn[t].chosen
                            THEN CappedRecovery(LegacyNet(entry[c][e]), entry[c][e].recovery)
                            ELSE 0]])
    /\ UNCHANGED <<rows, locks>>

(* What is left of an entry's capacity after one of its reservations took "taken"; *)
(* the first form, for comparison, gives every reservation the whole of it.        *)
SharedCapacity(capacity, type, taken) == capacity
CapacityLeft(capacity, type, taken) == IF type = "RECOVERY" THEN capacity - taken ELSE capacity

(* One round of consumeMaterializationsForReleasedEntries, in ascending id order: *)
(* a recovery takes no more than the capacity its entry has left.                 *)
LockToConsume(t, a) ==
    LET c        == txn[t].cycle
        e        == adj[a].employee
        full     == mat[a][c].amount
        bearable == IF adj[a].type = "RECOVERY" THEN Lesser(full, txn[t].capacity[e]) ELSE full
        accepted == /\ SettlementAccepted(adj[a].status, adj[a].remaining,
                                          reserved[a] - full, bearable)
                    /\ settlement[a][c] = 0
    IN
    /\ txn[t].kind = "release" /\ txn[t].pc = "consume"
    /\ a \in txn[t].todo /\ \A b \in txn[t].todo : a <= b
    /\ TakeAdjustment(t, a)
    /\ Becomes(t, [txn[t] EXCEPT
          !.pc       = IF bearable = 0 \/ accepted THEN "consume" ELSE "rejected",
          !.todo     = @ \ {a},
          !.plan     = [@ EXCEPT ![a] = [amount |-> bearable, remaining |-> adj[a].remaining]],
          !.capacity = [@ EXCEPT ![e] = CapacityLeft(txn[t].capacity[e], adj[a].type, bearable)]])
    /\ UNCHANGED <<rows, cycleLock>>

(* What the sweep decided from the rows it read. *)
SweptNet(t, e)     == AdjustedNet(Net(txn[t].read[e]), txn[t].read[e].recovery)
SweptOutcome(t, e) == PayoutOutcome(SweptNet(t, e))
RecoveryDue(t)     == {e \in txn[t].chosen : SweptOutcome(t, e) = "RECOVERY_DUE"}

(* createNegativePayrollRecoveryAdjustment *)
NewRecovery(t, e) ==
    NewAdjustment(e, [type |-> "RECOVERY", timing |-> "NULL", installment |-> 0,
                      amount |-> -SweptNet(t, e)])

(* A reservation that takes nothing is cancelled, not consumed.                     *)
Consumed(t) == {a \in Holds(t) : txn[t].plan[a].amount > 0}

CommitRelease(t, origin) ==
    LET c == txn[t].cycle
        OriginOf(a) == CHOOSE e \in RecoveryDue(t) : origin[e] = a
    IN
    /\ txn[t].kind = "release" /\ txn[t].pc = "consume" /\ txn[t].todo = {}
    /\ \A a \in Consumed(t) : Unchanged(adj[a], txn[t].plan[a])
    /\ \A a \in Holds(t) : mat[a][c].status = "ACTIVE"
    /\ \A e \in RecoveryDue(t) : adj[origin[e]].status = "NONE"
    /\ \A e, f \in RecoveryDue(t) : origin[e] = origin[f] => e = f
    /\ entry' = [entry EXCEPT ![c] = [e \in Employees |->
                    IF e \in txn[t].chosen
                      THEN [entry[c][e] EXCEPT !.outcome = SweptOutcome(t, e),
                                               !.net     = SweptNet(t, e)]
                      ELSE entry[c][e]]]
    /\ adj' = [a \in Adjustments |->
                 IF a \in Consumed(t) THEN Reduced(adj[a], txn[t].plan[a].amount)
                 ELSE IF \E e \in RecoveryDue(t) : origin[e] = a THEN NewRecovery(t, OriginOf(a))
                 ELSE adj[a]]
    /\ settlement' = [a \in Adjustments |->
                        IF a \in Consumed(t)
                          THEN [settlement[a] EXCEPT ![c] = txn[t].plan[a].amount]
                          ELSE settlement[a]]
    /\ mat' = [a \in Adjustments |->
                 IF a \in Holds(t)
                   THEN [mat[a] EXCEPT ![c] = [@ EXCEPT
                            !.status = IF a \in Consumed(t) THEN "CONSUMED" ELSE "CANCELLED"]]
                   ELSE mat[a]]
    /\ reserved' = [a \in Adjustments |->
                      IF a \in Holds(t) THEN reserved[a] - mat[a][c].amount ELSE reserved[a]]
    /\ End(t)
    /\ UNCHANGED <<cycleStatus, departed>>

-----------------------------------------------------------------------------
(* Finalizing a cycle: finalizePayrollCycle. *)

RequestFinalize(t, c) ==
    /\ cycleStatus[c] = "DRAFT"
    /\ Start(t, [Idle EXCEPT !.kind = "finalize", !.pc = "count", !.cycle = c])

(* The blocking count reads the entries without locking anything. *)
CountBlocking(t) ==
    /\ txn[t].kind = "finalize" /\ txn[t].pc = "count"
    /\ Releasable(txn[t].cycle) = {}
    /\ Becomes(t, [txn[t] EXCEPT !.pc = "write"])
    /\ UNCHANGED <<rows, locks>>

Finalize(t) ==
    LET c == txn[t].cycle IN
    /\ txn[t].kind = "finalize" /\ txn[t].pc = "write"
    /\ cycleLock[c] = None
    /\ cycleStatus[c] = "DRAFT"
    /\ cycleStatus' = [cycleStatus EXCEPT ![c] = "RELEASED"]
    /\ End(t)
    /\ UNCHANGED <<entry, departed, adj, mat, settlement, reserved>>

-----------------------------------------------------------------------------
(* Archiving a cycle and creating the next: archiveAndCreateNextPayrollCycle. *)

(* The active employees are read before the transaction begins. *)
RequestRollover(t, c) ==
    /\ c + 1 \in Cycles
    /\ cycleStatus[c] = "RELEASED" /\ cycleStatus[c + 1] = "NONE"
    /\ Start(t, [Idle EXCEPT !.kind = "rollover", !.pc = "archive", !.cycle = c,
                             !.chosen = Employees \ departed])

(* The guarded archive, then the next cycle's entries; "read" holds them until commit. *)
Archive(t) ==
    LET fresh == [e \in Employees |-> IF e \in txn[t].chosen THEN FreshEntry ELSE NoEntry] IN
    /\ txn[t].kind = "rollover" /\ txn[t].pc = "archive"
    /\ TakeCycle(t, txn[t].cycle)
    /\ cycleStatus[txn[t].cycle] = "RELEASED"
    /\ Becomes(t, [txn[t] EXCEPT !.pc = "carry", !.read = fresh, !.todo = Candidates(fresh)])
    /\ UNCHANGED <<rows, adjLock>>

(* materializeCorrectionObligationsForNewCycle, one candidate, in no fixed order. *)
LockToCarry(t, a) ==
    LET e        == adj[a].employee
        amount   == ReservationAmount(adj[a], reserved[a])
        eligible == Eligible(adj[a], reserved[a], e \in departed, "DRAFT", FALSE, TRUE, FALSE)
    IN
    /\ txn[t].kind = "rollover" /\ txn[t].pc = "carry" /\ a \in txn[t].todo
    /\ TakeAdjustment(t, a)
    /\ Becomes(t, [txn[t] EXCEPT
          !.todo = @ \ {a},
          !.plan = [@ EXCEPT ![a] = [amount |-> IF eligible THEN amount ELSE 0,
                                     remaining |-> adj[a].remaining]],
          !.read = IF eligible
                     THEN [@ EXCEPT ![e] = AddAggregate(txn[t].read[e], adj[a].type, amount)]
                     ELSE @])
    /\ UNCHANGED <<rows, cycleLock>>

StartNextCycle(t) ==
    LET next == txn[t].cycle + 1
        Carried == {a \in Holds(t) : txn[t].plan[a].amount > 0}
    IN
    /\ txn[t].kind = "rollover" /\ txn[t].pc = "carry" /\ txn[t].todo = {}
    /\ cycleStatus[next] = "NONE"
    /\ cycleStatus' = [cycleStatus EXCEPT ![txn[t].cycle] = "ARCHIVED", ![next] = "DRAFT"]
    /\ entry' = [entry EXCEPT ![next] = txn[t].read]
    /\ mat' = [a \in Adjustments |->
                 IF a \in Carried
                   THEN [mat[a] EXCEPT ![next] =
                            [status |-> "ACTIVE", amount |-> txn[t].plan[a].amount]]
                   ELSE mat[a]]
    /\ reserved' = [a \in Adjustments |->
                      IF a \in Carried THEN reserved[a] + txn[t].plan[a].amount ELSE reserved[a]]
    /\ End(t)
    /\ UNCHANGED <<departed, adj, settlement>>

-----------------------------------------------------------------------------
(* Requests of other modules that touch the same rows, each one atomic here. *)

(* approveCorrectionRequest on a released entry leaves a balance; a request is      *)
(* approved once.                                                                   *)
ApproveCorrection(e, a, p) ==
    /\ \E c \in Cycles : entry[c][e].outcome = "PAID"
    /\ adj[a].status = "NONE"
    /\ adj' = [adj EXCEPT ![a] = NewAdjustment(e, p)]
    /\ UNCHANGED <<cycleStatus, entry, departed, mat, settlement, reserved, locks, txn>>

(* assertEntryEditable, and the row not locked by a release in progress; the first *)
(* form, for comparison, looks at the released flag only.                          *)
EditableUnlessPaid(c, e) ==
    /\ entry[c][e].outcome \notin {"NONE", "PAID"}
    /\ cycleStatus[c] # "ARCHIVED"
    /\ ~RowLocked(c, e)

Editable(c, e) ==
    /\ entry[c][e].outcome = "OPEN"
    /\ cycleStatus[c] # "ARCHIVED"
    /\ ~RowLocked(c, e)

(* updatePayrollEntry, of a figure or of the hold flag: the read and the write are one step, for  *)
(* the write asks for the version read. bulkUpdatePayrollEntries does not, and writes by id the   *)
(* entries it read unresolved (payroll-entry.service.ts:1580), released since or not: it is no    *)
(* action here but RequestBulk, Match and CommitBulk of PayrollEntryEditing.                      *)
EditEarnings(c, e, value) ==
    /\ Editable(c, e)
    /\ entry[c][e].earnings # value
    /\ entry' = [entry EXCEPT ![c][e].earnings = value]
    /\ UNCHANGED <<cycleStatus, departed, adj, mat, settlement, reserved, locks, txn>>

ToggleHold(c, e) ==
    /\ Editable(c, e)
    /\ entry' = [entry EXCEPT ![c][e].hold = ~@]
    /\ UNCHANGED <<cycleStatus, departed, adj, mat, settlement, reserved, locks, txn>>

(* markEmployeeLeft with removeEmployeeFromCurrentDraftCycle: an open draft entry *)
(* goes, unless a materialization row refers to it; then it is held.              *)
AfterLeaving(c, e) ==
    IF cycleStatus[c] # "DRAFT" \/ entry[c][e].outcome # "OPEN" THEN entry[c][e]
    ELSE IF \E a \in Adjustments : adj[a].employee = e /\ mat[a][c].status # "NONE"
           THEN [entry[c][e] EXCEPT !.hold = TRUE]
           ELSE NoEntry

MarkLeft(e) ==
    /\ e \notin departed
    /\ \A c \in Cycles : ~RowLocked(c, e)
    /\ departed' = departed \cup {e}
    /\ entry' = [c \in Cycles |-> [entry[c] EXCEPT ![e] = AfterLeaving(c, e)]]
    /\ UNCHANGED <<cycleStatus, adj, mat, settlement, reserved, locks, txn>>

(* reactivateEmployee with syncEmployeeIntoCurrentDraftCycle, whose insert waits  *)
(* for the cycle row while another transaction has it FOR UPDATE.                 *)
Reactivate(e) ==
    /\ e \in departed
    /\ \A c \in Cycles : cycleStatus[c] = "DRAFT" /\ entry[c][e].outcome = "NONE"
                            => cycleLock[c] = None
    /\ departed' = departed \ {e}
    /\ entry' = [c \in Cycles |->
                   IF cycleStatus[c] = "DRAFT" /\ entry[c][e].outcome = "NONE"
                     THEN [entry[c] EXCEPT ![e] = FreshEntry]
                     ELSE entry[c]]
    /\ UNCHANGED <<cycleStatus, adj, mat, settlement, reserved, locks, txn>>

-----------------------------------------------------------------------------
(* Rollback: refused by the program, a deadlock's victim, or at any moment a     *)
(* timeout or a lost connection.                                                 *)

Rollback(t) == End(t) /\ UNCHANGED rows

(* The next statement of t throws, whatever the others do. *)
Refused(t) ==
    LET c == txn[t].cycle IN
    \/ txn[t].pc = "rejected"
    \/ /\ txn[t].pc = "write" /\ txn[t].kind \in {"payment", "settle"}
       /\ \E a \in Holds(t) : \/ ~Unchanged(adj[a], txn[t].plan[a])
                              \/ txn[t].kind = "payment" /\ adj[a].payment # 0
                              \/ txn[t].kind = "settle" /\ settlement[a][c] # 0
    \/ /\ txn[t].pc = "write" /\ txn[t].kind \in {"materialize", "batch"}
       /\ \E a \in Holds(t) : \/ mat[a][c].status # "NONE"
                              \/ entry[c][adj[a].employee].outcome = "NONE"
    \/ /\ txn[t].pc = "cycle" /\ txn[t].kind = "release" /\ cycleLock[c] = None
       /\ cycleStatus[c] # "DRAFT" \/ Releasable(c) = {}
    \/ txn[t].pc = "entries" /\ \E e \in txn[t].chosen : entry[c][e].outcome = "NONE"
    \/ txn[t].pc = "count" /\ Releasable(c) # {}
    \/ txn[t].pc = "write" /\ txn[t].kind = "finalize" /\ cycleStatus[c] # "DRAFT"
    \/ txn[t].pc = "archive" /\ cycleStatus[c] # "RELEASED"
    \/ txn[t].pc = "carry" /\ cycleStatus[c + 1] # "NONE"

(* The adjustment locks the next statement of t could go on with. *)
NextLocks(t) ==
    IF txn[t].pc = "consume" THEN {a \in txn[t].todo : \A b \in txn[t].todo : a <= b}
    ELSE IF txn[t].pc \in {"adjustment", "carry"} THEN txn[t].todo
    ELSE {}

WaitsFor(t, u) ==
    LET c == txn[t].cycle IN
    /\ t # u
    /\ \/ /\ \/ txn[t].pc \in {"cycle", "archive"}
             \/ txn[t].pc = "write" /\ txn[t].kind = "finalize"
          /\ cycleLock[c] = u
       \/ /\ \A a \in NextLocks(t) : adjLock[a] # None
          /\ \E a \in NextLocks(t) : adjLock[a] = u
       \/ /\ txn[t].pc = "write" /\ txn[t].kind = "settle"
          /\ ForeignKeyWaits(t, c) /\ cycleLock[c] = u

Deadlocked(t) == \E u \in Txns : WaitsFor(t, u) /\ WaitsFor(u, t)

Refuse(t)      == Refused(t) /\ Rollback(t)
AbortVictim(t) == Deadlocked(t) /\ Rollback(t)
Fail(t)        == txn[t].pc # "idle" /\ Rollback(t)

-----------------------------------------------------------------------------
Request(t) ==
    \/ \E a \in Adjustments : RequestPayment(t, a)
    \/ \E a \in Adjustments, c \in Cycles, m \in ManualAmounts : RequestSettlement(t, a, c, m)
    \/ \E a \in Adjustments, c \in Cycles : RequestMaterialization(t, a, c)
    \/ \E c \in Cycles : RequestBatch(t, c) \/ RequestRelease(t, c)
    \/ \E c \in Cycles : RequestFinalize(t, c) \/ RequestRollover(t, c)

Step(t) ==
    \/ \E a \in Adjustments : LockToPay(t, a) \/ PayStandalone(t, a)
    \/ \E a \in Adjustments : LockToSettle(t, a) \/ Settle(t, a)
    \/ LockCycleToMaterialize(t)
    \/ LockCycleForCandidate(t)
    \/ \E a \in Adjustments : LockToReserve(t, a) \/ Reserve(t, a)
    \/ Skip(t)
    \/ \E chosen \in SUBSET Employees : LockCycleToRelease(t, chosen)
    \/ UpdateEntries(t)
    \/ \E a \in Adjustments : LockToConsume(t, a)
    \/ \E origin \in [RecoveryDue(t) -> Adjustments] : CommitRelease(t, origin)
    \/ CountBlocking(t)
    \/ Finalize(t)
    \/ Archive(t)
    \/ \E a \in Adjustments : LockToCarry(t, a)
    \/ StartNextCycle(t)

Edit ==
    \/ \E e \in Employees, a \in Adjustments, p \in Proposals : ApproveCorrection(e, a, p)
    \/ \E c \in Cycles, e \in Employees, v \in Earnings : EditEarnings(c, e, v)
    \/ \E c \in Cycles, e \in Employees : ToggleHold(c, e)
    \/ \E e \in Leavers : MarkLeft(e) \/ Reactivate(e)

Next ==
    \/ \E t \in Txns : Request(t) \/ Step(t) \/ Refuse(t) \/ AbortVictim(t) \/ Fail(t)
    \/ Edit

Spec == Init /\ [][Next]_vars

(* The next statement of a transaction runs, or throws and rolls back; a lock     *)
(* wait ends when the lock keeps coming free (PostgreSQL's queues are first come  *)
(* first served); and the deadlock detector aborts a victim. Nothing obliges a    *)
(* user to send a request or an edit, or a transaction to fail.                   *)
Fairness == \A t \in Txns : SF_vars(Step(t) \/ Refuse(t)) /\ WF_vars(AbortVictim(t))

FairSpec == Spec /\ Fairness

-----------------------------------------------------------------------------
(* Properties. *)

TxnRecord ==
    [kind : Kinds \cup {"none"},
     pc : {"idle", "cycle", "adjustment", "write", "skip", "rejected", "entries", "consume",
           "count", "archive", "carry"},
     cycle : Cycles, amount : Nat, read : [Employees -> EntryRecord], chosen : SUBSET Employees,
     todo : SUBSET Adjustments, plan : [Adjustments -> PlanRecord], capacity : [Employees -> Nat]]

(* The shape of every row, lock and running request. *)
TypeOK ==
    /\ cycleStatus \in [Cycles -> {"NONE", "DRAFT", "RELEASED", "ARCHIVED"}]
    /\ entry \in [Cycles -> [Employees -> EntryRecord]]
    /\ departed \in SUBSET Employees
    /\ adj \in [Adjustments -> AdjRecord]
    /\ mat \in [Adjustments -> [Cycles -> MatRecord]]
    /\ settlement \in [Adjustments -> [Cycles -> Nat]]
    /\ reserved \in [Adjustments -> Nat]
    /\ cycleLock \in [Cycles -> Txns \cup {None}]
    /\ adjLock \in [Adjustments -> Txns \cup {None}]
    /\ txn \in [Txns -> TxnRecord]

(* Every rupee of a balance is either still owed or recorded once, as a standalone  *)
(* payment or as a cycle's settlement, and a balance is SETTLED exactly at zero:    *)
(* no interleaving of the four settlement paths pays or deducts an amount twice.    *)
Conserved ==
    \A a \in Adjustments :
        /\ adj[a].amount = adj[a].remaining + adj[a].payment + SumFunctionOnSet(settlement[a], Cycles)
        /\ adj[a].status = "SETTLED" <=> adj[a].status # "NONE" /\ adj[a].remaining = 0

(* What draft payrolls have already promised to pay or deduct is still owed: a      *)
(* settlement never takes an amount that a cycle's release is going to take again.  *)
ReservationsCovered == \A a \in Adjustments : reserved[a] <= adj[a].remaining

ActiveAmounts(a) == [c \in Cycles |-> IF mat[a][c].status = "ACTIVE" THEN mat[a][c].amount ELSE 0]
(* What the adjustments of one employee and type add up to, of an amount for each. *)
Share(e, type, amounts) ==
    [a \in Adjustments |-> IF adj[a].employee = e /\ adj[a].type = type THEN amounts[a] ELSE 0]
Total(e, type, amounts) == SumFunctionOnSet(Share(e, type, amounts), Adjustments)
Materialized(c) == [a \in Adjustments |-> mat[a][c].amount]

(* The reserved amount every path reads is the sum of the rows still to be consumed *)
(* (getActiveReservedAmount), and an entry's two correction columns are the sums of *)
(* the rows that refer to it (recomputeAndPersistEntryAggregates).                  *)
DerivedColumnsAgree ==
    /\ \A a \in Adjustments : reserved[a] = SumFunctionOnSet(ActiveAmounts(a), Cycles)
    /\ \A c \in Cycles, e \in Employees :
          entry[c][e].outcome # "NONE" =>
             /\ entry[c][e].payable  = Total(e, "PAYABLE", Materialized(c))
             /\ entry[c][e].recovery = Total(e, "RECOVERY", Materialized(c))

(* A consumed reservation is backed by the settlement of its own cycle, for no more *)
(* than was reserved, on an entry that a release has resolved.                      *)
ConsumedIsSettled ==
    \A a \in Adjustments, c \in Cycles :
        mat[a][c].status = "CONSUMED" =>
            /\ settlement[a][c] \in 1 .. mat[a][c].amount
            /\ Resolved(entry[c][adj[a].employee])

Bearable(row)  == Greater(0, LegacyFigure[row.earnings] + row.payable)
Consumption(c) ==
    [a \in Adjustments |-> IF mat[a][c].status = "CONSUMED" THEN settlement[a][c] ELSE 0]

(* Across all the recoveries consumed by one entry, a release settles no more than  *)
(* the entry earned (by the arithmetic consumption uses), even when its figures     *)
(* change between the sweep's read and its writes                                   *)
(* (remainingRecoveryCapacityByEntryId).                                            *)
RecoveredWithinMeans ==
    \A c \in Cycles, e \in Employees :
        Resolved(entry[c][e]) => Total(e, "RECOVERY", Consumption(c)) <= Bearable(entry[c][e])

(* The books agree: of balances, of entries, and of what a release took from each.  *)
BooksAgree == Conserved /\ DerivedColumnsAgree /\ ConsumedIsSettled /\ RecoveredWithinMeans

(* The ledger is append-only: a payment or settlement row never changes, a balance  *)
(* never grows, and what a balance is about never changes once it exists.           *)
LedgerStep ==
    \A a \in Adjustments :
        /\ \A c \in Cycles : settlement[a][c] # 0 => settlement'[a][c] = settlement[a][c]
        /\ adj[a].payment # 0 => adj'[a].payment = adj[a].payment
        /\ adj[a].status # "NONE" =>
              /\ adj'[a].remaining <= adj[a].remaining
              /\ \A f \in {"type", "timing", "installment", "employee", "amount"} :
                    adj'[a][f] = adj[a][f]

(* A reservation keeps its amount for ever, leaves ACTIVE only in the step that     *)
(* resolves its entry, and is then final.                                           *)
ReservationStep ==
    \A a \in Adjustments, c \in Cycles :
        /\ mat[a][c].status # "NONE" => mat'[a][c].amount = mat[a][c].amount
        /\ mat[a][c].status \in {"CONSUMED", "CANCELLED"} => mat'[a][c] = mat[a][c]
        /\ mat[a][c].status = "ACTIVE" /\ mat'[a][c].status # "ACTIVE" =>
              LET e == adj[a].employee IN ~Resolved(entry[c][e]) /\ Resolved(entry'[c][e])

(* Released payroll is immutable (Principle 9): once a sweep resolves an entry, no  *)
(* request of this module, single edit, departure or rollover changes its outcome,  *)
(* figure or snapshot. A bulk update may (see EditEarnings).                        *)
ResolvedStep ==
    \A c \in Cycles, e \in Employees :
        Resolved(entry[c][e]) =>
            \A f \in {"outcome", "earnings", "net"} : entry'[c][e][f] = entry[c][e][f]

(* What is recorded is final: the rows of the ledger, what becomes of a reservation, *)
(* and what a sweep has resolved.                                                    *)
HistoryIsFinal == [][LedgerStep /\ ReservationStep /\ ResolvedStep]_vars

(* Every request that began ends: it commits, is refused, or is a deadlock's victim. *)
RequestsEnd == \A t \in Txns : txn[t].pc # "idle" ~> txn[t].pc = "idle"

=============================================================================
