------------------------------- MODULE Advances -------------------------------
(***************************************************************************)
(* Advances (loans to an employee, at most one open per employee and type) *)
(* and the payroll deductions that repay them: recording, editing,         *)
(* cancelling and deferring an advance, the deduction a new cycle takes    *)
(* for every advance due in it, and settlement when the entry is released. *)
(*                                                                         *)
(* A request reads rows, then commits; READ COMMITTED lets others commit   *)
(* in between. What a transaction wrote last is all at its commit here:    *)
(* its row locks are held from the write on, so a guard that held at the   *)
(* write still holds then. PayrollEntry.version is represented by what it  *)
(* is for: txn[t].valid says no write has bumped the version of the row t  *)
(* read. A cycle is named by its month, 1 .. LastMonth.                    *)
(***************************************************************************)
EXTENDS Integers, FiniteSets, FiniteSetsExt, Functions

CONSTANTS
    Employees,       \* employees of one site
    Advances,        \* ids of Advance rows that may come to exist
    Types,           \* Advance.type: each has its own pair of columns in an entry
    LastMonth,       \* bound: the last month a cycle or a period may be created for
    Terms,           \* bound: what a new advance can be: repayment, installment (0: none set), total
    Totals,          \* bound: totals an edit can propose
    Figures,         \* bound: what a released entry may have earned before the deductions
    ManualAmounts,   \* bound: deductions typed into an entry that carries no advance
    Leavers,         \* bound: the employees who may leave and come back
    Txns,            \* requests that may run at the same time
    Requests,        \* the kinds of request a run allows
    Alone,           \* kinds that, in a run, never overlap another request
    None             \* no row

Months   == 1 .. LastMonth
Kinds    == {"create", "edit", "cancel", "defer", "release", "rollover", "delete"}
Resolutions == {"PAID", "NO_PAY_DUE", "RECOVERY_DUE"}
TermRecord  == [repayment : {"FULL_DEDUCTION", "INSTALLMENT"}, installment : Nat, total : Nat \ {0}]

ASSUME AdvancesAssumption  == Advances \subseteq Nat
ASSUME TypesAssumption     == IsFiniteSet(Types)
ASSUME LastMonthAssumption == LastMonth \in Nat \ {0}
ASSUME TermsAssumption     == Terms \subseteq TermRecord
ASSUME AmountsAssumption   == Totals \subseteq Nat \ {0} /\ ManualAmounts \subseteq Nat /\ Figures \subseteq Int
ASSUME LeaversAssumption   == Leavers \subseteq Employees
ASSUME RequestsAssumption  == Requests \subseteq Kinds /\ Alone \subseteq Kinds
ASSUME NoneAssumption      == None \notin Advances \cup Txns

VARIABLES
    advance,         \* Advance by id
    entry,           \* PayrollEntry by cycle and employee
    cycleStatus,     \* PayrollCycle.status, "NONE" before the row exists
    period,          \* ScheduledPayrollPeriod: "NONE", "PENDING" or "RESOLVED" by a cycle
    departed,        \* employees with a dateOfLeaving
    cycleLock,       \* the row lock of a cycle a sweep or a rollover holds
    txn              \* the request each transaction slot is running

vars == <<advance, entry, cycleStatus, period, departed, cycleLock, txn>>

-----------------------------------------------------------------------------
(* Rows. Of a released entry, withheld is what its snapshot says was withheld; of (for   *)
(* which advances) and stale (the columns that were no longer so in the row when the     *)
(* sweep wrote it) are auxiliary: no action reads them.                                  *)

Slots         == Months \X Employees
AdvanceRecord == [status : {"NONE", "ACTIVE", "RESERVED", "PAID_OFF", "CANCELLED"},
                  employee : Employees \cup {None}, type : Types \cup {None},
                  terms : TermRecord \cup {None}, total : Nat, outstanding : Nat, period : 0 .. LastMonth + 1]
EntryRecord   == [outcome : {"NONE", "OPEN"} \cup Resolutions, hold : BOOLEAN, deferred : BOOLEAN,
                  link : [Types -> Advances \cup {None}], deduction : [Types -> Nat],
                  withheld : [Types -> Nat], of : [Types -> Advances \cup {None}], stale : SUBSET Types]

NoAdvance  == [status |-> "NONE", employee |-> None, type |-> None, terms |-> None,
               total |-> 0, outstanding |-> 0, period |-> 0]
NoEntry    == [outcome |-> "NONE", hold |-> FALSE, deferred |-> FALSE,
               link |-> [y \in Types |-> None], deduction |-> [y \in Types |-> 0],
               withheld |-> [y \in Types |-> 0], of |-> [y \in Types |-> None], stale |-> {}]
FreshEntry == [NoEntry EXCEPT !.outcome = "OPEN"]
NoSlot     == <<0, None>>
Idle       == [kind |-> "none", pc |-> "idle", id |-> None, row |-> NoAdvance, at |-> NoSlot,
               valid |-> FALSE, month |-> 0, amount |-> 0, roster |-> {}, held |-> {}, due |-> {},
               rows |-> [a \in Advances |-> NoAdvance], read |-> [e \in Employees |-> NoEntry]]

At(slot)       == entry[slot[1]][slot[2]]
Open(row)      == row.status \in {"ACTIVE", "RESERVED"}
Drafts         == {c \in Months : cycleStatus[c] = "DRAFT"}
(* assertEntryEditable *)
Editable(slot) == At(slot).outcome = "OPEN" /\ cycleStatus[slot[1]] # "ARCHIVED"
(* The entries that carry an advance, and those of them that are not released; the   *)
(* first form of an operator given two, for comparison, is a bug the runs catch.     *)
Carriers(a, outcomes) == {s \in Slots : At(s).outcome \in outcomes /\ \E y \in Types : At(s).link[y] = a}
LiveEntries(a) == Carriers(a, {"OPEN", "NO_PAY_DUE", "RECOVERY_DUE"})

(* Writing a row bumps its version: an edit, cancel or defer that read it has lost.  *)
(* Deleting it makes every update by its id fail, a creation's or a sweep's too.     *)
Guarded == {"edit", "cancel", "defer"}
Swept(request) == IF request.kind = "release" THEN {request.month} \X request.roster ELSE {}
Bumped(slots, requests) ==
    [t \in Txns |-> [requests[t] EXCEPT !.valid = @ /\ ~(requests[t].kind \in Guarded /\ requests[t].at \in slots)]]
Deleted(slot, requests) ==
    [t \in Txns |-> [requests[t] EXCEPT !.valid = @ /\ slot # requests[t].at /\ slot \notin Swept(requests[t])]]

(* The two CHECKs and the partial unique index on the Advance table. *)
InBounds(row)  == 0 <= row.outstanding /\ row.outstanding <= row.total
OnePerType(rows) ==
    \A a, b \in Advances : Open(rows[a]) /\ Open(rows[b]) /\ a # b
                             => <<rows[a].employee, rows[a].type>> # <<rows[b].employee, rows[b].type>>

-----------------------------------------------------------------------------
(* materializeOneAdvanceDeduction. *)

Standing(row)  == row.terms.repayment = "FULL_DEDUCTION" \/ row.terms.installment > 0
Due(row)       == IF row.terms.repayment = "FULL_DEDUCTION" THEN row.outstanding
                  ELSE Min({row.terms.installment, row.outstanding})

(* What is written to the advance: it waits for the release when nothing is left to  *)
(* deduct, and for the next month's cycle otherwise.                                 *)
Deducted(row, c) ==
    LET rest == row.outstanding - Due(row) IN
    [row EXCEPT !.outstanding = rest,
                !.status = IF rest <= 0 THEN "RESERVED" ELSE "ACTIVE",
                !.period = IF rest <= 0 THEN 0 ELSE c + 1]
(* What is written to the entry, whatever its columns held before. *)
Carrying(line, a, row) == [line EXCEPT !.link[row.type] = a, !.deduction[row.type] = Due(row)]
Cleared(line, y)       == [line EXCEPT !.link[y] = None, !.deduction[y] = 0]
(* findOrCreateScheduledPayrollPeriod of the months an action points advances at. *)
WithPeriods(months) == [p \in DOMAIN period |-> IF p \in months /\ period[p] = "NONE" THEN "PENDING" ELSE period[p]]
PointedAt(row)      == {row.period} \ {0}

-----------------------------------------------------------------------------
Init ==
    /\ advance = [a \in Advances |-> NoAdvance]
    /\ cycleStatus = [c \in Months |-> IF c = 1 THEN "DRAFT" ELSE "NONE"]
    /\ entry = [c \in Months |-> [e \in Employees |-> IF c = 1 THEN FreshEntry ELSE NoEntry]]
    /\ period = [p \in 1 .. LastMonth + 1 |-> "NONE"]
    /\ departed = {}
    /\ cycleLock = [c \in Months |-> None]
    /\ txn = [t \in Txns |-> Idle]

Start(t, request) ==
    /\ txn[t] = Idle
    /\ request.kind \in Requests
    /\ \A u \in Txns : txn[u] = Idle \/ (request.kind \notin Alone /\ txn[u].kind \notin Alone)
    /\ txn' = [txn EXCEPT ![t] = request]
Becomes(t, request) == txn' = [txn EXCEPT ![t] = request]
Ended(t)            == [txn EXCEPT ![t] = Idle]
Unlocked(t)         == [c \in Months |-> IF cycleLock[c] = t THEN None ELSE cycleLock[c]]

(* A request ends without a trace: refused by a guard, a constraint, or the database. *)
Abort(t) ==
    /\ txn[t] # Idle
    /\ txn' = Ended(t)
    /\ cycleLock' = Unlocked(t)
    /\ UNCHANGED <<advance, entry, cycleStatus, period, departed>>

-----------------------------------------------------------------------------
(* createAdvance. *)

(* resolveEarliestEligiblePeriodKey and its floor: the draft's month, or the calendar's, *)
(* which no cycle follows, so that any month may be at or after it.                      *)
RequestCreate(t, e, y, terms, p) ==
    /\ \A c \in Drafts : p >= c
    /\ Start(t, [Idle EXCEPT !.kind = "create", !.pc = "target",
                   !.row = [status |-> "ACTIVE", employee |-> e, type |-> y, terms |-> terms,
                            total |-> terms.total, outstanding |-> terms.total, period |-> p]])
    /\ UNCHANGED <<advance, entry, cycleStatus, period, departed, cycleLock>>

(* The draft is read again, and its entry: one not released takes the deduction now. *)
ReadTarget(t) ==
    LET slot == <<txn[t].row.period, txn[t].row.employee>> IN
    /\ txn[t].kind = "create" /\ txn[t].pc = "target"
    /\ Becomes(t, IF slot[1] \in Drafts /\ At(slot).outcome \notin {"NONE", "PAID"}
                    THEN [txn[t] EXCEPT !.pc = "commit", !.at = slot, !.valid = TRUE]
                    ELSE [txn[t] EXCEPT !.pc = "commit"])
    /\ UNCHANGED <<advance, entry, cycleStatus, period, departed, cycleLock>>

(* The index stands in for the earlier query for an open advance of the same type too. *)
CommitCreate(t, a) ==
    LET row   == txn[t].row
        slot  == txn[t].at
        now   == slot # NoSlot /\ Standing(row)
        final == IF now THEN Deducted(row, slot[1]) ELSE row
    IN
    /\ txn[t].kind = "create" /\ txn[t].pc = "commit"
    /\ advance[a].status = "NONE"
    /\ slot # NoSlot => txn[t].valid
    /\ advance' = [advance EXCEPT ![a] = final]
    /\ OnePerType(advance')
    /\ entry' = IF now THEN [entry EXCEPT ![slot[1]][slot[2]] = Carrying(@, a, row)] ELSE entry
    /\ txn' = IF now THEN Bumped({slot}, Ended(t)) ELSE Ended(t)
    /\ period' = WithPeriods({row.period} \cup PointedAt(final))
    /\ UNCHANGED <<cycleStatus, departed, cycleLock>>

-----------------------------------------------------------------------------
(* updateAdvance (its total), cancelAdvance and deferAdvanceSchedule. *)

(* The advance is read before the transaction; only a deferral takes it in any status. *)
RequestChange(t, kind, a, amount, month) ==
    /\ advance[a].status # "NONE"
    /\ kind \in {"edit", "cancel"} => Open(advance[a])
    /\ Start(t, [Idle EXCEPT !.kind = kind, !.pc = "entry", !.id = a, !.row = advance[a],
                             !.amount = amount, !.month = month])
    /\ UNCHANGED <<advance, entry, cycleStatus, period, departed, cycleLock>>

(* findFirst of the unreleased entries that carry it, in no stated order. An edit that *)
(* leaves the total as it is looks for none; an entry that cannot be edited refuses.   *)
ReadLiveEntry(t) ==
    LET live == IF txn[t].kind = "edit" /\ txn[t].amount = txn[t].row.total THEN {}
                ELSE LiveEntries(txn[t].id)
    IN
    /\ txn[t].kind \in {"edit", "cancel"} /\ txn[t].pc = "entry"
    /\ \/ /\ live = {}
          /\ Becomes(t, [txn[t] EXCEPT !.pc = "commit"])
       \/ \E slot \in live :
            /\ Editable(slot)
            /\ Becomes(t, [txn[t] EXCEPT !.pc = "commit", !.at = slot, !.valid = TRUE])
    /\ UNCHANGED <<advance, entry, cycleStatus, period, departed, cycleLock>>

ReadCarrier(t, slot) ==
    /\ txn[t].kind = "defer" /\ txn[t].pc = "entry"
    /\ Editable(slot)
    /\ At(slot).link[txn[t].row.type] = txn[t].id
    /\ At(slot).deduction[txn[t].row.type] > 0
    /\ txn[t].month > slot[1]
    /\ cycleStatus[txn[t].month] \in {"NONE", "DRAFT"}
    /\ Becomes(t, [txn[t] EXCEPT !.pc = "commit", !.at = slot, !.valid = TRUE])
    /\ UNCHANGED <<advance, entry, cycleStatus, period, departed, cycleLock>>

(* What the entry that was read deducts, given back to the balance that was read. *)
Reversal(t) == IF txn[t].at = NoSlot THEN 0 ELSE At(txn[t].at).deduction[txn[t].row.type]
RestoredOnly(t) == txn[t].row.outstanding
Restored(t) == txn[t].row.outstanding + Reversal(t)
(* The guarded write of the entry, when there is a deduction to reverse. *)
EntryUnchanged(t) == Reversal(t) > 0 => txn[t].valid
(* The guarded write of the advance compares the columns its arithmetic read. *)
StillThere(t) == advance[txn[t].id].status # "NONE"
SameStatusAndBalance(t) ==
    /\ advance[txn[t].id].status = txn[t].row.status
    /\ advance[txn[t].id].outstanding = txn[t].row.outstanding

CommitEdit(t) ==
    LET a       == txn[t].id
        slot    == txn[t].at
        repaid  == txn[t].row.total - Restored(t)
        updated == [advance[a] EXCEPT !.total = txn[t].amount, !.outstanding = txn[t].amount - repaid]
        again   == Reversal(t) > 0
        final   == IF again THEN Deducted(updated, slot[1]) ELSE updated
    IN
    /\ txn[t].kind = "edit" /\ txn[t].pc = "commit"
    /\ EntryUnchanged(t)
    /\ txn[t].amount >= repaid
    /\ InBounds(updated)
    /\ SameStatusAndBalance(t) /\ advance[a].total = txn[t].row.total
    /\ advance' = [advance EXCEPT ![a] = final]
    /\ entry' = IF again THEN [entry EXCEPT ![slot[1]][slot[2]] = Carrying(@, a, updated)] ELSE entry
    /\ txn' = IF again THEN Bumped({slot}, Ended(t)) ELSE Ended(t)
    /\ period' = WithPeriods(PointedAt(final))
    /\ UNCHANGED <<cycleStatus, departed, cycleLock>>

CommitCancel(t) ==
    LET a     == txn[t].id
        slot  == txn[t].at
        final == [advance[a] EXCEPT !.status = "CANCELLED", !.outstanding = Restored(t), !.period = 0]
    IN
    /\ txn[t].kind = "cancel" /\ txn[t].pc = "commit"
    /\ EntryUnchanged(t)
    /\ InBounds([txn[t].row EXCEPT !.outstanding = Restored(t)])
    /\ InBounds(final)
    /\ SameStatusAndBalance(t)
    /\ advance' = [advance EXCEPT ![a] = final]
    /\ entry' = IF Reversal(t) > 0
                  THEN [entry EXCEPT ![slot[1]][slot[2]] = Cleared(@, txn[t].row.type)] ELSE entry
    /\ txn' = IF Reversal(t) > 0 THEN Bumped({slot}, Ended(t)) ELSE Ended(t)
    /\ UNCHANGED <<cycleStatus, period, departed, cycleLock>>

CommitDefer(t) ==
    LET a     == txn[t].id
        slot  == txn[t].at
        final == [advance[a] EXCEPT !.status = "ACTIVE", !.outstanding = Restored(t), !.period = txn[t].month]
    IN
    /\ txn[t].kind = "defer" /\ txn[t].pc = "commit"
    /\ txn[t].valid
    /\ InBounds([txn[t].row EXCEPT !.outstanding = Restored(t)])
    /\ SameStatusAndBalance(t)
    /\ advance' = [advance EXCEPT ![a] = final]
    /\ InBounds(final) /\ OnePerType(advance')
    /\ entry' = [entry EXCEPT ![slot[1]][slot[2]] = [Cleared(@, txn[t].row.type) EXCEPT !.deferred = TRUE]]
    /\ txn' = Bumped({slot}, Ended(t))
    /\ period' = WithPeriods({slot[1], txn[t].month})
    /\ UNCHANGED <<cycleStatus, departed, cycleLock>>

-----------------------------------------------------------------------------
(* releaseProjectUnit: which entries a unit offers is SalaryRelease's question. *)

RequestRelease(t, c, chosen) ==
    /\ cycleStatus[c] = "DRAFT" /\ cycleLock[c] = None
    /\ chosen \subseteq {e \in Employees : entry[c][e].outcome = "OPEN" /\ ~entry[c][e].hold}
    /\ chosen # {}
    /\ Start(t, [Idle EXCEPT !.kind = "release", !.pc = "commit", !.month = c,
                             !.roster = chosen, !.valid = TRUE, !.read = entry[c]])
    /\ cycleLock' = [cycleLock EXCEPT ![c] = t]
    /\ UNCHANGED <<advance, entry, cycleStatus, period, departed>>

Withheld(line)   == SumFunction(line.deduction)
OutcomeOf(net)   == CASE net > 0 -> "PAID" [] net = 0 -> "NO_PAY_DUE" [] net < 0 -> "RECOVERY_DUE"
(* settleAdvancesForReleasedEntries: the advances it finds RESERVED.                  *)
CarriedBy(c, S)  == {a \in Advances : \E e \in S : \E y \in Types : entry[c][e].link[y] = a}
Settled(c, S)    == {a \in CarriedBy(c, S) : advance[a].status = "RESERVED"}

(* The outcome and the snapshot come from the rows read under the lock; the rows are *)
(* written by id.                                                                    *)
CommitRelease(t, figure) ==
    LET c == txn[t].month
        S == txn[t].roster
        read == txn[t].read
        overtaken(e) == {y \in Types : \/ read[e].link[y] # entry[c][e].link[y]
                                       \/ read[e].deduction[y] # entry[c][e].deduction[y]}
        resolved(e) == [entry[c][e] EXCEPT !.outcome = OutcomeOf(figure[e] - Withheld(read[e])),
                                           !.withheld = read[e].deduction, !.of = read[e].link,
                                           !.stale = overtaken(e)]
    IN
    /\ txn[t].kind = "release" /\ txn[t].pc = "commit" /\ txn[t].valid
    /\ entry' = [entry EXCEPT ![c] = [e \in Employees |-> IF e \in S THEN resolved(e) ELSE @[e]]]
    /\ advance' = [a \in Advances |->
                     IF a \in Settled(c, S) THEN [advance[a] EXCEPT !.status = "PAID_OFF"] ELSE advance[a]]
    /\ txn' = Bumped({c} \X S, Ended(t))
    /\ cycleLock' = Unlocked(t)
    /\ UNCHANGED <<cycleStatus, period, departed>>

-----------------------------------------------------------------------------
(* finalizePayrollCycle and archiveAndCreateNextPayrollCycle. *)

(* Its count of unresolved entries and its write are one step here; CorrectionLedger *)
(* separates them.                                                                   *)
Finalize(c) ==
    /\ cycleStatus[c] = "DRAFT" /\ cycleLock[c] = None
    /\ \A e \in Employees : entry[c][e].outcome = "OPEN" => entry[c][e].hold
    /\ cycleStatus' = [cycleStatus EXCEPT ![c] = "RELEASED"]
    /\ UNCHANGED <<advance, entry, period, departed, cycleLock, txn>>

(* Read before the transaction: the active employees, and the departed ones who have *)
(* an advance due in the next month.                                                 *)
NobodyDeparted(c) == {}
DepartedWithDue(c) ==
    {e \in departed : \E a \in Advances : /\ advance[a].employee = e
                                        /\ advance[a].status = "ACTIVE" /\ advance[a].period = c}
RequestRollover(t, c) ==
    /\ cycleStatus[c] = "RELEASED"
    /\ c + 1 \in Months /\ cycleStatus[c + 1] = "NONE"
    /\ Start(t, [Idle EXCEPT !.kind = "rollover", !.pc = "archive", !.month = c,
          !.roster = Employees \ departed,
          !.held = DepartedWithDue(c + 1)])
    /\ UNCHANGED <<advance, entry, cycleStatus, period, departed, cycleLock>>

(* The guarded archive, the resolution of the next month's period and the query for  *)
(* the advances due in it; nobody sees the writes before the commit.                 *)
ArchiveAndFindDue(t) ==
    LET c == txn[t].month IN
    /\ txn[t].kind = "rollover" /\ txn[t].pc = "archive"
    /\ cycleStatus[c] = "RELEASED" /\ cycleLock[c] = None
    /\ cycleLock' = [cycleLock EXCEPT ![c] = t]
    /\ Becomes(t, [txn[t] EXCEPT !.pc = "commit", !.rows = advance,
          !.due = IF period[c + 1] = "PENDING"
                    THEN {a \in Advances : advance[a].status = "ACTIVE" /\ advance[a].period = c + 1}
                    ELSE {}])
    /\ UNCHANGED <<advance, entry, cycleStatus, period, departed>>

(* materializeScheduledAdvanceDeductions writes each advance by id, from the row the *)
(* query returned.                                                                   *)
CommitRollover(t) ==
    LET c      == txn[t].month
        row    == txn[t].rows
        taking == {a \in txn[t].due : row[a].employee \in txn[t].roster \cup txn[t].held /\ Standing(row[a])}
        final  == [a \in taking |-> Deducted(row[a], c + 1)]
        bootstrapped(e) == IF e \in txn[t].roster THEN FreshEntry
                           ELSE IF e \in txn[t].held THEN [FreshEntry EXCEPT !.hold = TRUE] ELSE NoEntry
        of(e, y) == {a \in taking : row[a].employee = e /\ row[a].type = y}
    IN
    /\ txn[t].kind = "rollover" /\ txn[t].pc = "commit"
    /\ cycleStatus' = [cycleStatus EXCEPT ![c] = "ARCHIVED", ![c + 1] = "DRAFT"]
    /\ advance' = [a \in Advances |-> IF a \notin taking THEN advance[a]
                     ELSE [advance[a] EXCEPT !.outstanding = final[a].outstanding,
                                             !.status = final[a].status, !.period = final[a].period]]
    /\ OnePerType(advance') /\ \A a \in taking : InBounds(advance'[a])
    /\ entry' = [entry EXCEPT ![c + 1] = [e \in Employees |->
                   [bootstrapped(e) EXCEPT
                      !.link      = [y \in Types |-> IF of(e, y) = {} THEN None ELSE Max(of(e, y))],
                      !.deduction = [y \in Types |-> IF of(e, y) = {} THEN 0 ELSE Due(row[Max(of(e, y))])]]]]
    /\ period' = [WithPeriods(UNION {PointedAt(final[a]) : a \in taking}) EXCEPT
                    ![c + 1] = IF @ = "PENDING" THEN "RESOLVED" ELSE @]
    /\ txn' = Ended(t)
    /\ cycleLock' = Unlocked(t)
    /\ UNCHANGED departed

-----------------------------------------------------------------------------
(* The payroll entry's own edits, and the roster of the draft cycle. *)

(* updatePayrollEntry: the hold flag, and a deduction that no advance owns. *)
ToggleHold(slot) ==
    /\ Editable(slot)
    /\ entry' = [entry EXCEPT ![slot[1]][slot[2]].hold = ~@]
    /\ txn' = Bumped({slot}, txn)
    /\ UNCHANGED <<advance, cycleStatus, period, departed, cycleLock>>

TypeDeduction(slot, y, amount) ==
    /\ Editable(slot)
    /\ At(slot).link[y] = None /\ At(slot).deduction[y] # amount
    /\ entry' = [entry EXCEPT ![slot[1]][slot[2]].deduction[y] = amount]
    /\ txn' = Bumped({slot}, txn)
    /\ UNCHANGED <<advance, cycleStatus, period, departed, cycleLock>>

(* deletePayrollEntry; the foreign key of a schedule change keeps a deferred entry. *)
DeleteEntry(slot) ==
    /\ "delete" \in Requests
    /\ Editable(slot) /\ ~At(slot).deferred
    /\ entry' = [entry EXCEPT ![slot[1]][slot[2]] = NoEntry]
    /\ txn' = Deleted(slot, txn)
    /\ UNCHANGED <<advance, cycleStatus, period, departed, cycleLock>>

(* removeEmployeeFromCurrentDraftCycle: an open entry is deleted, or held if a schedule *)
(* change refers to it.                                                                *)
Leave(e) ==
    LET open     == {<<c, e>> : c \in Drafts} \cap {s \in Slots : At(s).outcome = "OPEN"}
        deferred == {s \in open : At(s).deferred}
    IN
    /\ e \in Leavers \ departed
    /\ departed' = departed \cup {e}
    /\ entry' = [c \in Months |-> [x \in Employees |->
                   CASE <<c, x>> \in deferred        -> [entry[c][x] EXCEPT !.hold = TRUE]
                     [] <<c, x>> \in open \ deferred -> NoEntry
                     [] OTHER                        -> entry[c][x]]]
    /\ txn' = IF open = {} THEN txn
              ELSE LET slot == CHOOSE s \in open : TRUE IN
                   IF slot \notin deferred THEN Deleted(slot, txn)
                   ELSE IF At(slot).hold THEN txn ELSE Bumped({slot}, txn)
    /\ UNCHANGED <<advance, cycleStatus, period, cycleLock>>

(* syncEmployeeIntoCurrentDraftCycle *)
Return(e) ==
    /\ e \in departed
    /\ departed' = departed \ {e}
    /\ entry' = [c \in Months |-> [x \in Employees |->
                   IF c \in Drafts /\ x = e /\ entry[c][x].outcome = "NONE" THEN FreshEntry ELSE entry[c][x]]]
    /\ UNCHANGED <<advance, cycleStatus, period, cycleLock, txn>>

-----------------------------------------------------------------------------
Step(t) ==
    \/ \E e \in Employees, y \in Types, terms \in Terms, p \in Months : RequestCreate(t, e, y, terms, p)
    \/ ReadTarget(t)
    \/ \E a \in Advances : CommitCreate(t, a)
    \/ \E a \in Advances, amount \in Totals : RequestChange(t, "edit", a, amount, 0)
    \/ \E a \in Advances : RequestChange(t, "cancel", a, 0, 0)
    \/ \E a \in Advances, month \in Months : RequestChange(t, "defer", a, 0, month)
    \/ ReadLiveEntry(t)
    \/ \E slot \in Slots : ReadCarrier(t, slot)
    \/ CommitEdit(t) \/ CommitCancel(t) \/ CommitDefer(t)
    \/ \E c \in Months, chosen \in SUBSET Employees : RequestRelease(t, c, chosen)
    \/ \E figure \in [Employees -> Figures] : CommitRelease(t, figure)
    \/ \E c \in Months : RequestRollover(t, c)
    \/ ArchiveAndFindDue(t) \/ CommitRollover(t)
    \/ Abort(t)

Office ==
    \/ \E c \in Months : Finalize(c)
    \/ \E slot \in Slots : ToggleHold(slot) \/ DeleteEntry(slot)
    \/ \E slot \in Slots, y \in Types, amount \in ManualAmounts : TypeDeduction(slot, y, amount)
    \/ \E e \in Employees : Leave(e) \/ Return(e)

Next == Office \/ \E t \in Txns : Step(t)
Spec == Init /\ [][Next]_vars

-----------------------------------------------------------------------------
(* Invariants. *)

TypeOK ==
    /\ advance \in [Advances -> AdvanceRecord]
    /\ entry \in [Months -> [Employees -> EntryRecord]]
    /\ cycleStatus \in [Months -> {"NONE", "DRAFT", "RELEASED", "ARCHIVED"}]
    /\ period \in [1 .. LastMonth + 1 -> {"NONE", "PENDING", "RESOLVED"}]
    /\ departed \subseteq Leavers
    /\ cycleLock \in [Months -> Txns \cup {None}]
    /\ \A t \in Txns : txn[t].id \in Advances \cup {None} /\ txn[t].at \in Slots \cup {NoSlot}

CarriedAmount(a) ==
    LET e == advance[a].employee
        y == advance[a].type
    IN SumFunctionOnSet([c \in DOMAIN entry |->
          IF entry[c][e].link[y] = a THEN entry[c][e].deduction[y] ELSE 0], DOMAIN entry)

(* Nothing lent is forgotten or repaid twice: what an advance still owes and what the   *)
(* entries linked to it deduct always add up to its total, whatever edits, cancels,     *)
(* deferrals, sweeps and rollovers did with it (assertOutstandingBalanceWithinBounds is *)
(* only the backstop of this).                                                          *)
Conserved ==
    \A a \in Advances : advance[a].status # "NONE" => advance[a].outstanding + CarriedAmount(a) = advance[a].total

(* A reservation waits for the release of an entry that exists: an advance is RESERVED  *)
(* only while an entry no sweep has resolved deducts its last part.                     *)
ReservedHasCarrier ==
    \A a \in Advances : advance[a].status = "RESERVED" => Carriers(a, {"OPEN"}) # {}

(* An entry that can still be edited or released deducts only for an advance that is    *)
(* open: cancelAdvance leaves no dangling deduction, and no entry collects for an       *)
(* advance that is settled.                                                             *)
NoDanglingDeduction ==
    \A a \in Advances, s \in Slots, y \in Types :
        Editable(s) /\ At(s).link[y] = a /\ At(s).deduction[y] > 0 => Open(advance[a])

(* What has been collected of an advance: what the releases withheld for it (the        *)
(* snapshots, not the rows, say so) and what the entries not released deduct for it.    *)
Share(line, y, a) ==
    IF line.outcome \in Resolutions THEN (IF line.of[y] = a THEN line.withheld[y] ELSE 0)
    ELSE (IF line.link[y] = a THEN line.deduction[y] ELSE 0)
Collected(a) ==
    SumFunctionOnSet([c \in DOMAIN entry |-> Share(entry[c][advance[a].employee], advance[a].type, a)], DOMAIN entry)
(* A sweep withheld something for it that was cancelled, edited or deferred between the *)
(* sweep's read and its write.                                                          *)
Overtaken(a) ==
    \E c \in DOMAIN entry, e \in Employees, y \in Types :
        entry[c][e].outcome \in Resolutions /\ y \in entry[c][e].stale /\ entry[c][e].of[y] = a

(* Nothing lent is collected twice, whatever happens to the entries in between: what an *)
(* advance owes, what releases withheld for it and what open entries are to withhold    *)
(* are together never more than its total, unless a cancellation, an edit or a deferral *)
(* was committed between a sweep's read and its write (the sweep withholds what it      *)
(* read, the balance has been given it back: payroll-release.service.ts:507). An entry  *)
(* carries an advance of its own employee in the columns of its type, and nobody has    *)
(* two open advances of one type.                                                       *)
CollectedOnce ==
    /\ \A s \in Slots, y \in Types, a \in Advances :
          At(s).link[y] = a => advance[a].employee = s[2] /\ advance[a].type = y
    /\ \A a \in DOMAIN advance : advance[a].status # "NONE" =>
          /\ 0 <= advance[a].outstanding
          /\ advance[a].outstanding + CarriedAmount(a) <= advance[a].total
          /\ Overtaken(a) \/ advance[a].outstanding + Collected(a) <= advance[a].total
    /\ OnePerType(advance)
    /\ NoDanglingDeduction

(* Once paid off or cancelled an advance never changes again.                           *)
ClosedStep ==
    \A a \in Advances : advance[a].status \in {"PAID_OFF", "CANCELLED"} => advance'[a] = advance[a]

(* An entry that a release paid, its deduction included, is never written again         *)
(* (Principle 9), where a creation overlaps with nothing: it writes an entry it read.   *)
PaidStep ==
    "create" \in Alone => \A s \in Slots : At(s).outcome = "PAID" => entry'[s[1]][s[2]] = At(s)

(* What is settled stays so, the advance and the entry it was withheld from.            *)
ClosedStays == [][ClosedStep /\ PaidStep]_vars

(* An advance is paid off only by the release of an entry that carries it: a step that  *)
(* pays it off resolves such an entry, and withholds its deduction.                     *)
PayOffStep ==
    \A a \in Advances : advance[a].status # "PAID_OFF" /\ advance'[a].status = "PAID_OFF"
      => \E c \in DOMAIN entry, e \in Employees, y \in Types :
           /\ entry[c][e].outcome = "OPEN" /\ entry[c][e].link[y] = a
           /\ entry'[c][e].outcome \in Resolutions

(* No deduction is missed by a rollover: when a month's cycle opens, every active       *)
(* advance scheduled for that month has been taken in it, departed employees included.  *)
OpeningStep ==
    \A c \in Months, a \in Advances :
      /\ cycleStatus[c] = "NONE" /\ cycleStatus'[c] = "DRAFT"
      /\ advance[a].status = "ACTIVE" /\ advance[a].period = c /\ Standing(advance[a])
      => At(<<c, advance[a].employee>>)'.link[advance[a].type] = a

(* What was taken off the balance of an advance that nothing collects.                  *)
Missing(a) == advance[a].total - advance[a].outstanding - Collected(a)

(* What is taken off a balance is deducted by an entry, and what an entry deducts for   *)
(* an advance is withheld by its release or given back to the balance. It is missing in *)
(* three ways only. The open entry is deleted, by hand or by a departure, which drop    *)
(* exactly what it deducted (payroll-processing.service.ts:445), or a sweep that read   *)
(* it before the advance was in it resolves it, which drops as much. A sweep withholds  *)
(* for an advance what the row no longer deducts for it. Or the advance is recorded     *)
(* into an entry that is resolved already, and its first deduction is collected by none.*)
Keeps(a) ==
    \/ Missing(a)' = IF advance[a].status = "NONE" THEN 0 ELSE Missing(a)
    \/ \E c \in DOMAIN entry, e \in Employees, y \in Types :
         LET line == entry[c][e]
             new  == entry'[c][e]
         IN
         \/ /\ advance[a].status # "NONE"
            /\ line.outcome = "OPEN" /\ line.link[y] = a
            /\ new.outcome = "NONE" \/ (new.outcome \in Resolutions /\ y \in new.stale /\ new.of[y] # a)
            /\ Missing(a)' = Missing(a) + line.deduction[y]
         \/ /\ line.outcome = "OPEN" /\ new.outcome \in Resolutions
            /\ y \in new.stale /\ new.of[y] = a
         \/ /\ advance[a].status = "NONE"
            /\ line.outcome \in Resolutions /\ new.link[y] = a
            /\ Missing(a)' = new.deduction[y]
KeptStep == \A a \in DOMAIN advance : advance'[a].status # "NONE" => Keeps(a)

(* A sweep pays off what it withholds, a rollover takes what is due, and no step loses  *)
(* what is to be withheld, with the exceptions KeptStep names.                          *)
DeductionsSettle == [][PayOffStep /\ OpeningStep /\ KeptStep]_vars
=============================================================================
