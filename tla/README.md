# Formal verification of the payroll management system

TLA+ models of the program in `src/`, checked with TLC, and proofs checked with
TLAPS. Paths below are relative to the repository; `modules/` stands for
`src/backend/src/modules/`. `PROJECT.json` maps every definition to the lines it
models and lists the hazards of the code at their lines.

## 1. The system and its parts

A REST backend (Express, Prisma, PostgreSQL) computes monthly salaries. Every request
is one or a few database transactions at READ COMMITTED; nothing else synchronizes two
requests, or two processes. The frontend edits payroll entries with autosave.

| Component | State | Operations | What makes it correct |
|---|---|---|---|
| Correction balances (`modules/corrections`, settlement and materialization) | `BalanceAdjustment` and its remaining amount; `CorrectionPayment`; `BalanceAdjustmentSettlement`; `BalanceAdjustmentMaterialization`; two cached columns of `PayrollEntry` | pay standalone, settle by hand, reserve one or all for a cycle, consume at release, carry over at rollover | every rupee is owed or recorded once; what is promised to a payroll stays owed; a reservation ends with its entry |
| Correction requests (`modules/corrections/corrections.service.ts`) | `CorrectionRequest`, `Correction` | request, approve, reject | decided once; the balances add up to what the corrections change |
| Payroll release (`modules/payroll-release`) | released flag, outcome and snapshot of an entry; units | release a unit, late or not; release all | an entry is resolved once, when all its units are released, as the operator saw it |
| Payroll cycles (`modules/payroll-processing`) | `PayrollCycle.status`, scheduled periods | create, finalize, archive and create the next, reconcile the roster | one cycle is current; the archived ones lead to it |
| Backup packages (`modules/backup-packages`) | `BackupPackage` and its files in storage | reserve, assemble, store, commit, fail, recover | a ready package is whole and final; an archived cycle has one |
| Payroll entries (`modules/payroll-entry`) | `PayrollEntry`, work lines, version | edit, lines, assignment, delete, bulk update, EOBI | no edit of a resolved entry; no lost edit; days, lines and site fit together |
| Employees (`modules/employees`) | employee, transfers, date of leaving | create, update, leave, come back, import | the row is coherent; the draft's roster follows |
| Advances (`modules/advances`) | `Advance`, its schedule and outstanding balance | give, edit, cancel, defer, deduct, settle at release | nothing lent is collected twice or forgotten; closed is closed |
| Roles, users, sessions (`modules/roles`, `modules/users`, `modules/auth`) | roles, permission rows, users, session rows | edit, deactivate, sign in, revoke | an administrator remains; a session follows its user's role |
| Tasks (`modules/tasks`) | `Task`, `TaskNotification` | assign, complete, cancel, reopen, delete | who has a task was told; dates agree with states |
| Frontend entry editor (`src/frontend/src/hooks/use-payroll-entry-editor.ts`) | drafts, known version, timers, gate, status store | type, save, retry, reload, lines, scroll | the last edit is kept; what is unsaved is shown |
| Reports, dashboard, statements, payslips, bank sheets, cash receiving | none of their own | read | agree with the resolved entries |
| Reference data (sites, units, banks, adjustment types, settings, logo), audit log, storage, PDF | single rows, files | single statements | - |

Interactions: a **release** locks its cycle row, reads entries, decides, writes them by
id, consumes their correction reservations (locking each balance), settles their
advances and may create a new recovery, all in one transaction. **Rollover** archives a
cycle with a fresh backup, creates the next one's entries, deducts the scheduled
advances and reserves the pending corrections into it. **Leaving** and **coming back**
edit the current cycle. **Approving a correction** creates the balance that the others
then settle. The **editor** and the entry service meet in an entry's version. All else
meets only in the rows, indexes and locks of the database.

The hard part is therefore concurrency at READ COMMITTED: a value read before a lock,
or before another statement, may be stale when it is used; locks of three kinds (cycle
rows, advisory locks, and the row locks that foreign keys take) are acquired in
different orders; and a transaction may end by refusal, deadlock, timeout or a lost
connection at any statement.

## 2. What is modelled

In every module an action is what a request does from one read or lock to the next.
Nobody reads uncommitted rows, so a transaction's writes take effect together in its
last action; what it has read and decided so far is in a variable of the request
(`txn`, `call`, `asked`, `review`). A request can end at every point by an error
(`Fail`, `Abort`, `Refuse`). Definitions keep the code's names where they have one;
those marked "for comparison" are plausible errors that no action uses, and the run's
properties reject each of them.

| Module | Component | Requests and their actions |
|---|---|---|
| `CorrectionMath` | corrections, release | the rules `calculateSettlement`, `determineMaterialization`, `computeReleaseRecoveryAdjustment`, the last sum of `calcNet`, the outcome |
| `CorrectionLedger` | correction balances, with all that moves them | see below |
| `Obligation` | abstract | what a balance promises: settled at most once, what is promised stays owed |
| `CorrectionRequests` | correction requests | `CreateRequest`; `Begin`, `Lock`, then `Approve`, `Reject` or `Refuse` (`approveCorrectionRequest`, `rejectCorrectionRequest`); the replay of approved corrections is `Effective` |
| `SalaryRelease` | release, units | `OpenPage`; `StartSweep`, `CommitSweep` or `FailSweep` (`releaseProjectUnit`); `StartAll`, `SweepNext`, `PassOver`, `AnswerAll` (`releaseAllEligible`); edits of entries; `Finalize` |
| `Advances` | advances | `RequestCreate`, `CommitCreate`; `RequestChange`, `ReadTarget`, `ReadLiveEntry`, `ReadCarrier`, then `CommitEdit`, `CommitCancel`, `CommitDefer`; `RequestRelease`, `CommitRelease` (settlement); `RequestRollover`, `ArchiveAndFindDue`, `CommitRollover`; `Leave`, `Return`, `DeleteEntry`, `TypeDeduction`, `ToggleHold`, `Finalize` |
| `CycleLifecycle` | cycles, backups | `RequestCreate`, `CommitCreate`; `Finalize`; `RequestGenerate` or `RequestRollover`, `FindStale`, `Recover` (a package each), `Summarize`, `CountVersions`, `Reserve`, `Assemble`, `Store` (a file each), `CommitGenerate` or `CommitRollover`, `Fail`, `CleanUp`; `GrowOld`, `Crash`, `Restart`; edits |
| `PayrollEntryEditing` | payroll entries | `RequestEdit`, `RequestAdd`, `RequestUpdate`, `RequestRemove`, `RequestAssign`, `RequestDelete`, `RequestBulk` with their reads (`CountLines`, `ReadFresh`, `Match`) and commits; `Release`, `Transfer`, `Archive` |
| `EmployeeRegistry` | employees, the roster | `RequestCreate`, `RequestUpdate`, `RequestLeave`, `RequestReactivate`, `RequestImport`, `RequestManual`, `RequestReconcile`, `RequestRollover`, each with `Begin`/`Open`/`Seed` and its commit; `EditEobi`, `Release`, `Finalize`, ... |
| `EntryAutosave` | the row editor | `Type`, `Debounced`, `Commit`, `Retry`, `RetryNow`, `AddLine`, `DeleteLine`, `ScrollOut`, `ScrollIn`, `Render`, `Reload`; the network and server: `Handle`, `Deliver`, `GiveUp`, `HandleLate`, `Foreign` |
| `Administration` | roles, users, sessions | `UpdateUser`, `CreateUser`, `UpdateRole`, `CreateRole`, `DuplicateRole`, `DeleteRole`, `ResetPassword`: checks, then commits; `Replace` (the two statements that replace permissions); `Revoke`; `Verify`, then `SaveSession` or `SignInFails` (a sign-in); `SignOut`, `Dropped` |
| `PayrollMonth`, `StaffedCycles` | compositions | `Advances` with an instance `Release` of `SalaryRelease`; `CycleLifecycle` with an instance `Staff` of `EmployeeRegistry`. Each adds the other component's state, under names of its own, and the properties that runs and theorems share |
| `TaskLifecycle` | tasks | `CreateTask`, `UpdateTask`, `CompleteTask`, `CancelTask`, `ReopenTask`, `DeleteTask`: checks, then commits; `GetTask`, `ReadAll` |

`CorrectionLedger`, the core, in detail:

| Request | Code | Actions |
|---|---|---|
| standalone payment | `recordCorrectionPayment` | `RequestPayment`, `LockToPay`, `PayStandalone` |
| manual settlement | `recordBalanceAdjustmentSettlement` | `RequestSettlement`, `LockToSettle`, `Settle` |
| manual materialization | `materializeBalanceAdjustment` | `RequestMaterialization`, `LockCycleToMaterialize`, `LockToReserve`, `Reserve` or `Skip` |
| batch materialization | `materializeEligibleAdjustmentsForCycle` | `RequestBatch`, then per candidate `LockCycleForCandidate`, `LockToReserve`, `Reserve` or `Skip` |
| release of a unit | `releaseProjectUnit`, `consumeMaterializationsForReleasedEntries` | `RequestRelease`, `LockCycleToRelease`, `UpdateEntries`, `LockToConsume` (one per reservation, by id), `CommitRelease` |
| finalization | `finalizePayrollCycle` | `RequestFinalize`, `CountBlocking`, `Finalize` |
| rollover | `archiveAndCreateNextPayrollCycle`, `materializeCorrectionObligationsForNewCycle` | `RequestRollover`, `Archive`, `LockToCarry`, `StartNextCycle` |
| any of them | rollback | `Refuse` (the program throws), `AbortVictim` (deadlock), `Fail` (timeout, lost connection) |
| other modules | `approveCorrectionRequest`, `updatePayrollEntry`, `markEmployeeLeft`, `reactivateEmployee` | `ApproveCorrection`, `EditEarnings`, `ToggleHold`, `MarkLeft`, `Reactivate`, each atomic. A bulk update (`bulkUpdatePayrollEntries`) is not among them: it writes by id without a version, and is a request of `PayrollEntryEditing` only |

Locks follow PostgreSQL: `cycleLock` is held by `SELECT ... FOR UPDATE` and by the
rollover's own UPDATE; `adjLock` is the transaction-scoped advisory lock. Inserting a
row with a foreign key to a cycle waits while the row is held FOR UPDATE
(`ForeignKeyWaits`) but not while a rollover updates its status. An edit waits while
a release that has updated the entry is not committed (`RowLocked`).

The modules overlap where components share a table, and each abstracts what another one
models: `chosen` in `CorrectionLedger` stands for who a sweep of `SalaryRelease` takes;
`Advances` and `SalaryRelease` reduce an entry's figures to what decides its outcome;
`EntryAutosave` uses the contract of `PayrollEntryEditing` (a request is applied when
its version is the entry's). No specification lets two of them move in one behaviour: the
product would be out of TLC's reach, and no property spans more than the rows of one of
them. `PayrollMonth` and `StaffedCycles` only put the state of two side by side.

Abstractions, and why they are sound for the properties:

* `earnings` is an entry's net before the two correction columns; attendance, overtime,
  deductions and rounding are choices of that figure. `LegacyFigure` is the same figure
  as the LEGACY_V1 arithmetic rounds it, any function at all: consumption re-reads an
  entry that is already marked, without its snapshot, and `resolveEntryCalcVersion` then
  answers LEGACY_V1.
* `reserved` and the two columns of an entry are kept incrementally where the code sums
  rows; `BooksAgree` says that they are those sums.
* Adjustments of type NONE never enter any of the paths. An entry deleted and created
  again is the same row of the ledger.
* In `Advances`, `txn[t].valid` stands for the comparison of an entry's version: no
  write has bumped it since `t` read the row.
* In `CycleLifecycle` a cycle's rows are the count of their edits, and a file of a
  backup holds the count it was assembled from.
* `Net` of `CorrectionRequests` is any function of the fields; the instance multiplies
  two of them, so that a correction's effect depends on the others.
* A correction's approval time is the default of its column, the start of its
  transaction, as PostgreSQL's `CURRENT_TIMESTAMP` is.

## 3. What TLC checks

Small instances of one or several modules stand side by side in an MC module: the
variable `scenario` says which one a behaviour is of, and only that one moves. An
invariant of a run is the conjunction, named for what it says, of what each instance has
to keep; a type invariant is among the conjuncts. Instances of one module share its
variables where the same properties are asked of them; a property of `EmployeeRegistry`
names the conditions under which it holds, so an instance that does not meet them passes
it idly in that part. What an instance leaves out to stay small ("EOBI rests",
"one operator at a time") restricts its steps in the MC module, never in the model.

| Run | Instances and bounds | Properties |
|---|---|---|
| `ledger` | *races*: two requests of every kind but rollover on one balance of 2, cycles 0 and 1. *lifetime*: one request of any kind at a time over one balance, cycles 0 to 2, LEGACY_V1 rounding. *means*: two balances of one entry, figures negative, zero and rounded | `IInv`, `ReservationsCovered`, `BooksInv`, `BooksAgree`, `HistoryIsFinal`, `ImplementsObligation` (races); `BooksAgreeElsewhere` |
| `ends` | six instances of two requests each, under fairness | `RequestsEnd`, `WaitingEnds` |
| `month` | advances: *races* (two requests, two months), *lifetime* (one advance in installments, three months), *roster* (two advances, departures, figures that do not cover them). Release: *all units* (three units of two sites, one entry split), *waits* (two units of one site, two callers), *page* (every kind of edit between page and sweep, one operator at a time) | `CollectedOnce`, `AdvanceBooksAgree`, `ClosedStays`, `DeductionsSettle`; `SweepMatchesUnits`, `AllReleased` (all three instances of the release), `SweptAsShown` (page) |
| `cycles` | registry: *alone* (every field; creations, and other requests that overlap with nothing), *places* (three units, two sites; EOBI rests), *banks* (EOBI rests), *eobi* (holds rest), *leaving* (two cycles; EOBI rests). Cycles: two months, two versions of a backup, a crash; requests that overlap are about one month | `EmployeeIsCoherent`, `EntryFollowsEmployee`, `LeaversUnpaid`, `ResolvedOutlives` (registry, all instances); `OneCurrentCycle`, `BackupsAreWhole`, `PackagesAreFinal` (cycles) |
| `entries` | *days* (two lines and units, days up to 2, two bases; bulk updates overlap with nothing), *edits* (two lines, three units, two sites), *bulk* (two rates; bulk updates overlap with every other edit, and nothing is released meanwhile) | `EntryIsWhole`, `WorkIsKept`, `NothingOverwritten` (all three) |
| `autosave` | *edits* (two fields, two edits, two mountings, a foreign edit, a lost answer), *again* (one field, five edits, two mountings, a foreign edit), *texts* (an amount of the entry and the text `cycleDays` of a line, four edits, a foreign edit), *shown* (lines that come and go, values unfinished or refused) | `LastEditIsKept` (the first three), `PendingShown` (shown) |
| `requests` | *overlaps* (three requests about one entry, two reviewers), *alone* (two entries, one split; two fields) | `RequestsSettle`, `DecisionsAreFinal` |
| `admin` | *roles* (three roles that are created, renamed, changed, deleted), *users* (two users who change each other, and what their roles permit). Transactions do not overlap; sign-ins, revocations and failures fall in between | `AdministratorRemains`, `NamesDiffer`, `SessionFollowsRole` (both) |
| `tasks` | three users, two of them managers, one task; requests that overlap, and one at a time | `AssigneeWasTold`, `DatedIsCompleted`, `EveryoneTold` (one at a time); `OverlapsTold` |
| `claim_*` | the smallest instance with the counterexample | one each, found violated |

What they say, in short:

* **The books agree.** `BooksAgree`: what a balance still owes and what payments and
  settlements recorded add up to its amount; reserved amounts and an entry's columns are
  the sums they stand for; a consumed reservation has its settlement, of the amount
  that was taken; no release takes more than the entry earned. `CollectedOnce` is the same
  of advances: what one still owes, what the snapshots of releases withheld for it and
  what open entries are to withhold are never more than its total, unless a change was
  committed between a sweep's read and its write (`Overtaken`); `AdvanceBooksAgree` says
  that they are exactly the total, where every release can bear its deduction.
  `RequestsSettle` says that a request is
  approved with one correction or has none, and that the balances of an entry's
  corrections add up to the change of its net unless two are inverted.
* **What is recorded is final.** `HistoryIsFinal`, `ClosedStays`, `PackagesAreFinal`,
  `DecisionsAreFinal`, `ResolvedOutlives`.
* **What is to be withheld is.** `DeductionsSettle`: an advance is paid off by the release
  of an entry that carries it, a rollover takes every scheduled deduction, and no step
  leaves a part of the balance that nobody owes and nothing collects, but in the three ways
  that `KeptStep` names with their amounts (section 4). `LeaversUnpaid`: who has left is
  not put up for payment, unless somebody takes the hold off by hand.
* **An interleaving loses nothing.** `ReservationsCovered`, `NothingOverwritten`,
  `WorkIsKept`, `SweptAsShown`, `LastEditIsKept`, `EmployeeIsCoherent`.
* **Something is always done.** `RequestsEnd`, `WaitingEnds`, `AllReleased` (whoever was eligible when Release All began, and was not edited since, is
  resolved when it answers).

**Bounds.** Two requests are enough for the races: a balance has one advisory lock, a
cycle one row lock and every other guard is on one row, so an interleaving that breaks a
property needs one transaction that has read and another that commits in between. One
employee suffices where employees share only the cycle. A balance of 2 with installments or
settlements of 1 reaches partial and full settlement, and figures below, at and above it
reach every branch of the cap. An advance of 3 in installments of 2 has a last part
smaller than the others. Two months reach a rollover, three the carried entry of a month
before. Two versions of a backup reach one that follows a failed one. Every bound is a
CONSTANT marked "bound". A run takes between seconds and three minutes and reaches between
a thousand and two million states; where an instance of several requests is too large
(two editors, three requests about one advance, three months of backups), the proofs of section 5 speak for it.

**Flags.** Where a property holds only because two requests do not meet, the module has
a constant that says so, and section 4 says what happens otherwise: `Alone` (kinds of
request that overlap no other: `Advances`, `SalaryRelease`, `EmployeeRegistry`),
`Overlap` (`CorrectionRequests`, `Administration`, `TaskLifecycle`), `BulkOverlaps`
(`PayrollEntryEditing`), `Careful` (`EntryAutosave`: "line" and "scroll", lines change, or
the row scrolls out, only when nothing is unsaved; "reload", nothing is typed while a reload
is on its way; "cycleDays", that text is not changed between the start of a flush and its own
request), `FormResubmits` (`EmployeeRegistry`), `CreatesOverlap`, `SlowGeneration`,
`LostCommits` (`CycleLifecycle`). The exceptions that a formula names instead are `Overtaken`
and `KeptStep` (`Advances`), `escaped` (`Administration`), `Inverted` (`CorrectionRequests`)
and `LiftedByHand` (`EmployeeRegistry`).

**Fairness.** Only `ends` assumes any: that a transaction's next statement runs (weak
fairness); that a lock wait ends if the lock keeps coming free (strong fairness:
PostgreSQL's lock queues are first come first served); that the deadlock detector aborts
a victim; that a browser's timers fire, its requests are answered or time out, and React
renders. No user is obliged to act and no failure to happen, with two exceptions that
are stated: somebody keeps opening the page of the draft, which reconciles the roster
(a strong fairness on one caller in *registry*, since nothing else ever adds an absent
employee), and backups go on being asked for (the antecedent of `WaitingEnds`, since only
the next backup recovers an abandoned one).

**Deadlock** is checked except in `ends`, `autosave`, `requests` and `admin`, whose
instances stop when a bounded clock, number of edits or number of requests is used up.
The deadlock of `claim_no_deadlock` is one of row locks, which the model resolves like
PostgreSQL by aborting a victim.

## 4. Known divergences

Three statements of the repository are runs whose counterexample is expected, as
findings in `PROJECT.json`:

* `NoDeadlock`: a manual settlement holds the balance and then needs the cycle row for a
  foreign key, while a release holds the row and waits for the balance. The comment says
  the lock order makes that impossible. The deadlock ends (`RequestsEnd`).
* `SnapshotAgrees`: a sweep writes its entries by id; an edit, a hold or a new line
  committed after its read survives in the released entry.
* `AdministratorSurvivesRaces`: the other administrators are counted without a lock, so
  two requests that each remove the other's administrator both pass.

The others were found the same way while the modules were written: each has a
behaviour of the model, or was read in code that is not modelled. The properties above
say what holds in spite of them, under the flag named in brackets.

**Corrections.** Materialization asks only whether the target entry is released, so it
reserves into an entry resolved as NO_PAY_DUE or RECOVERY_DUE, where no release will ever
consume the reservation (`corrections.materialization.ts:45`). The batch decides from
entries read before the cycle lock (`corrections.materialization.service.ts:275`). A held
entry is archived with its reservation, which counts against the balance for good
(`payroll-processing.service.ts:748`). A manual settlement against the draft cycle takes
the unique row that consumption inserts, and every release of that unit rolls back
(`corrections.materialization.service.ts:498`). Consumption rounds by LEGACY_V1 what the
sweep rounded by the current arithmetic (`:449`). Two reviews of one field may commit in the
opposite order of their approval times; the replay then takes the older for the newer, and the
next correction starts from the wrong value (`corrections.calculation.ts:213`;
`BalancesAddUp` speaks of the other cases). [`Overlap`]

**Advances.** `updateAdvance` renews a deduction only when the live one is above zero:
lowering the total to what is repaid and raising it again leaves RESERVED with a balance
(`advances.service.ts:556`). After a held entry is archived, `findFirst` may take it for the
live one and refuse every edit (`:727`). The rollover writes advances by id from rows read
earlier, so it overwrites, or reopens, what an edit or cancellation changed meanwhile
(`:246`) [`Alone`]. A creation writes the entry by id: into one released in between, into one
resolved without pay, and over the link of a paid-off advance (`:230`, `:451`). Leaving and
deleting an entry drop its deduction, and the balance stays reduced
(`payroll-processing.service.ts:445`), as does a creation into an entry already resolved
(`KeptStep`). A cancellation, edit or deferral between the sweep's read and its write gives back
what the snapshot still withholds, which is then collected twice
(`payroll-release.service.ts:507`; `Overtaken`). Between
finalization and rollover the period's floor may be the released month (`:174`). The last
installment pays the advance off even if an earlier one sits in an archived held entry (`:316`).

**Release.** Sweeps release an entry put on hold, or given a line of another unit, after they
read it (`payroll-release.service.ts:507`); a candidate that is not among the versions sent is
released too (`:334`); Release All counts the held once (`:830`) and never runs a late sweep
(`:848`) [`Alone`]. Reports compute the rows of entries not yet released from the stored gross
pay, while the grid (`payroll-entry.service.ts:283`) and the release (`:435`) use the live one.

**Cycles and backups.** Finalization counts blocking entries and then updates the cycle
(`payroll-processing.service.ts:735`). Two requests for different months may both create a
first cycle: the index on DRAFT is not unique (`:616`) [`CreatesOverlap`]. The rollover
assembles its package before it archives, and edits of held entries may come in between
(`:895`). A generation slower than the threshold is marked FAILED after it became READY
(`backup-packages.service.ts:545`) [`SlowGeneration`]. When a commit succeeds and its answer is
lost, the catch block deletes the files of a READY package
(`payroll-processing.service.ts:1065`) [`LostCommits`].

**Entries.** An edit reads the cycle's status before its transaction and commits into an
archived cycle (`payroll-entry.service.ts:847`). Bulk updates write by id rows read earlier:
over a release (`:1580`), over an edit, with a wrong previous value (`:1573`), and past the
cycle days (`:1610`) [`BulkOverlaps`].

**Employees.** EOBI synchronization writes by id an entry read as open (`eobi-sync.service.ts:122`);
reactivation does not synchronize the entry that was held (`employees.service.ts:878`). A
reconciliation seeds entries for who leaves meanwhile (`payroll-processing.service.ts:527`).
Whether an update is a transfer is decided on a stale row, so a form that sends every field,
which the page's does (`employee-form-modal.tsx:155`), undoes a concurrent transfer silently
(`employees.service.ts:578`) [`FormResubmits`]. The hold of a leaver who owes something may be
taken off by an edit, which does not ask whether the employee has left
(`payroll-entry.service.ts:839`); the entry is then paid (`LiftedByHand`). The
import writes account and IBAN with a Cash bank (`employees-import-export.service.ts:1015`), sets
and clears the date of leaving without the departure's or the return's workflow (`:1069`),
does not synchronize EOBI to the draft, takes inactive banks, does not fall back to the code
for a row with a CNIC, and creates rows with neither again each time [`Alone`].

**Frontend editor.** The flush that follows a save sends the version the row's own previous
request used, and is refused as a conflict (`use-payroll-entry-editor.ts:290`). Text typed
between a flush's start and the line's own request is dropped (`:305`) ["cycleDays" of
`Careful`]. `deleteLine` cancels every
timer of the row and reports "saved" (`:468`). The store has one record per entry, and an editor
scrolled back removes the record of the earlier one's failed draft
(`payroll-entry-save-status-store.ts:79`) [`Careful`]. What was saved is told from what was
typed since by its value (`use-payroll-entry-editor.ts:207`): when a conflict is reloaded while
a request is under way, and the field is then set back to the value that request carries,
its answer drops the newer edit ["reload"]. Without the two restrictions TLC finds both
behaviours in *again* and *texts*.

**Administration.** Role names have no unique index (`roles.service.ts:97`); two replacements of
permissions leave both sets (`:355`); a user may get a role just deactivated
(`users.service.ts:241`) [`Overlap`]. Sessions are deleted after the commit, by another
connection: if that fails or the process stops in between they go on, and repeating the request
does not revoke them (`:288`). A sign-in whose password was verified before a change of role, and
whose session is stored after the revocation, goes on too (`auth.routes.ts:80`). Both are the
`escaped` of `SessionFollowsRole`.

**Tasks.** A cancellation overtakes a completion and keeps its date (`tasks.service.ts:357`;
`DatedIsCompleted` names it), an
edit form takes a task back from whom it was just given to (`:250`), and a completion notifies
the delegator it read before (`:332`) [`Overlap`].

**Not modelled, seen while reading.** `bank-sheets.service.ts:58` says that the account title is the frozen
name of the entry, and the code takes the employee's current one (`:123`); the combined sheet skips entries of deactivated banks,
and a bank deactivated during a backup fails it; a bank's code lock counts and then updates;
`pdf-worker.entry.ts:184` says that a window is removed which two starters that both find a dead
socket file, and unlink it, still open; overlapping logo uploads leave an orphaned file;
statements take the first released entry for the one that paid an advance off, and sort an
advance after the deductions of its month.

## 5. What is proved

For every value of the constants that meets the named assumptions: any sets of
employees, balances, advances, requests, users and roles, any number of cycles, any
amounts. The assumptions say that identifiers are natural numbers where they are ordered,
amounts are integers, the sets that are summed over are finite, and `None`, `Keep` and
`Nobody` are no members. What the constants of the two instances have to be is
`Release!ReleaseConstants` (units are numbers) and `Staff!RegistryConstants` (rows the code
could have written, and kinds of request it has), hypotheses that TLC finds true of every
instance of the runs. Other hypotheses of a theorem are named below.

| Theorem | Module | States |
|---|---|---|
| `TypeCorrect` | `CorrectionLedgerProofs` | `Spec => []TypeOK`: `Nat` as the range of remaining, reserved and payable amounts says that none becomes negative |
| `InvariantHolds`, `ReservationsAlwaysCovered` | `CorrectionLedgerProofs` | `IInv`; what draft payrolls have been promised is still owed |
| `ShortfallCountedOnce` | `CorrectionLedgerProofs` | what a release withholds and what it leaves as a new recovery do not overlap |
| `BooksInvariantHolds`, `BooksAlwaysAgree` | `CorrectionLedgerProofs` | every sum of the ledger (`BooksAgree`) |
| `RecordedIsFinal` | `CorrectionLedgerProofs` | `HistoryIsFinal`: no step rewrites what is recorded |
| `LedgerImplementsObligation` | `CorrectionLedgerProofs` | the refinement of `Obligation`, for every balance |
| `NothingCollectedTwice` | `AdvancesProofs` | `CollectedOnce`, if a rollover overlaps no other request (`"rollover" \in Alone`): every other request may overlap, and what a sweep withheld is what its snapshot says |
| `ClosedNeverChanges` | `AdvancesProofs` | `ClosedStays`, likewise: an advance paid off or cancelled never changes, nor, where creations overlap nothing (`"create" \in Alone`), an entry that was paid |
| `DeductionsAlwaysSettle` | `AdvancesProofs` | `DeductionsSettle`, likewise: an advance is paid off only with an open entry that carries it, a rollover misses no scheduled deduction, and nothing is dropped but as `KeptStep` says |
| `EveryoneReleased` | `AdvancesProofs` | `AllReleased` of the release, however sweeps and edits overlap |
| `SweepsMatchUnits` | `AdvancesProofs` | `SweepMatchesUnits`, if no line is added or moved under a sweep (`LinesWait`) |
| `SweptAlwaysAsShown` | `AdvancesProofs` | `Release!SweptAsShown`, if no edit falls into a sweep (`EditsWait`) |
| `RequestsAlwaysSettle` | `CorrectionRequestsProofs` | `RequestsSettle`, however reviews overlap |
| `DecisionsAlwaysFinal` | `CorrectionRequestsProofs` | `DecisionsAreFinal`, however reviews overlap |
| `BalancesAlwaysAddUp` | `CorrectionRequestsProofs` | the balances of an entry add up to its corrections without exception, if reviews do not overlap (`Overlap = FALSE`) |
| `AdministratorAlwaysRemains` | `AdministrationProofs` | `AdministratorRemains`, if transactions do not overlap; each of them may fail, and the process may stop anywhere |
| `SessionsAlwaysFollow` | `AdministrationProofs` | `SessionFollowsRole`, however requests, sign-ins and failures overlap |
| `DatesAlwaysKept`, `AssigneeAlwaysTold` | `TaskLifecycleProofs` | `DatedIsCompleted`, `AssigneeWasTold`, however requests overlap |
| `EveryoneAlwaysTold` | `TaskLifecycleProofs` | `EveryoneTold`, if requests do not overlap |
| `EntryStaysWhole` | `PayrollEntryEditingProofs` | `EntryIsWhole`: a line, one site, however requests overlap; days that fit, if bulk updates overlap with nothing |
| `NothingIsOverwritten` | `PayrollEntryEditingProofs` | `NothingOverwritten`, however requests overlap |
| `WorkIsAlwaysKept` | `PayrollEntryEditingProofs` | `WorkIsKept`: worked days stay with their unit, however requests overlap; resolved entries stay, if bulk updates overlap with nothing |
| `OneAlwaysCurrent` | `CycleLifecycleProofs` | `OneCurrentCycle`, if requests that create the first cycle do not overlap |
| `ReadyAlwaysWhole` | `CycleLifecycleProofs` | `ReadyIsWhole`, if no commit is reported as failed; generations may be slow |
| `BackupsAlwaysWhole`, `PackagesAlwaysFinal` | `CycleLifecycleProofs` | `BackupsAreWhole` and `PackagesAreFinal`, if moreover no generation outlives the stale threshold |
| `EmployeesCoherent` | `CycleLifecycleProofs` | `EmployeeIsCoherent` of the registry: unit and site fit, however requests overlap; transfers lead to the employee's unit, without imports and forms that resubmit; bank and account fit, if moreover updates and returns do not overlap |
| `EntriesFollow` | `CycleLifecycleProofs` | `EntryFollowsEmployee`: EOBI agrees within a cycle, however updates, departures and edits overlap |
| `LeaversStayUnpaid` | `CycleLifecycleProofs` | `LeaversUnpaid`, if departures and rosters overlap with nothing and nobody is imported or added by hand |
| `ResolvedAlwaysOutlives` | `CycleLifecycleProofs` | `ResolvedOutlives`, however requests overlap, imports included |

The hypotheses are needed: section 4 has the behaviour that breaks each statement
without it, and the runs show that states which meet them are many.

**The ledger.** `ReservationsCovered` is not inductive: a step that commits uses figures
read earlier. `IInv` adds, for the rows, that there is one current cycle, that rows which
do not exist hold no money, and that a reservation of a draft cycle is part of the
reserved amount; and, for each transaction, the locks it holds at each point, the status
of the cycle it locked, and `LockedFigures`: what it decided for a balance whose lock it
holds is still within the balance's figures. Only the holder of a balance's lock changes
its figures, so the other transactions' `LockedFigures` are kept; that is the lemma
`QuietStep` for steps that write nothing and `ComposedStep` for those that do, and each
action is then one lemma. Batch and rollover transactions work although they read without
locks, because they recompute under them.

**The books.** `BooksInv` adds to `BooksAgree` what every sweep and rollover has planned:
a plan is for the rows it will write, at the amounts they have, and the locks keep it so
until the commit. `BooksNext` has one lemma per action that writes. The sums are folds over
sets, about which the library states nothing that could be used here (its induction takes
an operator), so `SumProofs` proves what is needed by least counterexample: a
sum over a set without an element, over two sets that differ in one, of two functions that
agree, of one that is pointwise below another, of zeros.

**The refinement** takes each committing action and shows, balance by balance, which
abstract step it is; all other steps stutter.

**Advances.** `AdvancesInv` has three parts: the types (`Typed`); what the rows are
(`RowsOK`: one current month, entries carry advances of their employee in the columns of
the type, an advance's total covers what it owes and what its entries deduct, one open
advance of a type); and what each request still knows of the rows it has read
(`RequestOK`: for instance that an edit whose advance still has the status and balance
read, and whose entry is still valid, may write the difference). Each committing action is
split in two: it keeps `RowsOK`, and it *spares* every other request, that is, either
leaves the rows it relies on or makes its guard (`SameStatusAndBalance`, `EntryUnchanged`)
fail. TLC checked `AdvancesInv` on *races* and on a wider instance of 3.3 million states
before it was proved.

**Deductions.** `SchedulesInv` adds to `AdvancesInv` what lies between a read and the write
that relies on it. A sweep holds the lock of its month while it is under way, so the cycle
stays a draft, and as long as it is valid each entry it chose is open: hence an advance that
becomes PAID_OFF does so with an open entry. A rollover has read a roster and the held
entries that together cover everyone with an active advance scheduled for the month it opens,
and when it commits they are all among those it found due; nothing changes them meanwhile,
because it overlaps with nothing. `PeriodsOK` says that what a schedule points at exists.
`CollectInv` is about `Missing`, what was taken off a balance that nothing collects: every
entry and every row a sweep has read carries advances of its own employee, in the columns of
their type, so a step changes `Missing` only of the advances it is about, and each of them by
as much as `KeptStep` says. Since no step makes it negative but one that makes the advance
`Overtaken`, and that stays, nothing is collected twice; this is the proof of `CollectedOnce`.
Another invariant, `CreatesApart`, is about paid entries. A creation writes the entry it
read by its id, whatever its version, so only where nothing overlaps with it is that entry
still unpaid when it is written. No step but a sweep makes an entry paid, and every other
write is of an open one.

**Release.** The loop of Release All reads units one by one, so "everyone is released" needs
what it still owes: `ReleaseInv` says of an entry due to a loop without failures that it is
resolved or `Owed`, which is open, neither held nor blocked, all of its units released or
pending, and one pending: another one than the sweep at work unless that sweep takes it.
A sweep of another request may release a unit or resolve the entry in between; either keeps
`Owed`. The rest of `ReleaseInv` is that a sweep under way holds the lock of an open cycle
and that an open entry has a line. `SplitsOK` and `SeenOK` add what is true of the entries
a sweep has taken while edits wait for it.

**Registry.** `RegistryInv` says what each request carries (`Carries`: the columns it will
write fit the row it read), that a transaction about to write an employee will leave the
unit in the site (`HoldsRow`), that no two hold the same row (`OneHolder`), and that what a
request of a kind that overlaps nothing has read is still so (`StillSo`). Coherence
then needs no strengthening but these. `EobiInv` adds what an update that found no open
entry relies on: none has appeared since (`Settled`), which is why rosters must not overlap
with updates.

**Edits of entries.** `EditingInv` says of the rows that they are whole (`RowsOK`), and of
each request what it knows (`RequestOK`): as long as its entry has the version it read, the
entry and its lines are as it read them (`Knows`), and what its checks found out of them
still holds (`Checked`, `Counted`). A write of an entry raises its version, so that every
other request on it knows nothing any more; this is `Steady`, the one thing that each of the
seven writes has to show for the sake of the others (`OthersKeep`). A bulk update has no
version: `BulkAlone` says what it knows where nothing overlaps with it. Of the folds only
their independence of the lines' units is used.

**Cycles and backups.** `CyclesInv` adds to `OneCurrentCycle` that an archived month is
not the last, and that while a request to create the first cycle runs there is none.
`BackupsInv` says of a request at work on a package that nobody else works on it
(`Exclusive`: the version was free when it was reserved, and no row is ever deleted), that
it is not ready yet, still GENERATING and not old, and that every file the request has
written is in storage (`WorkerOK`); and of a package that a recovery is about to fail, that
it is old (`StaleOK`), hence nobody's. What would not hold with slow generations or lost
commits is stated under those hypotheses, in one invariant. Most steps are `Quiet`: they
begin no work and write no file, and `BackupsKept` says what they have to leave. TLC
checked both invariants with each of the three flags set.

**Correction requests.** `RequestsInv` says of a review that has read the corrections of its
entry that it holds the entry's lock (`LockHeld`), so that what it read is current
(`BaseIsCurrent`) until it commits, whatever other reviews commit; and of decided requests
that each approved one has one correction (`OneForEach`), which the status read again under
the lock keeps so. A new correction has the highest number, so unless it is inverted it has
the latest time too, the replay takes its value, and its balance is the change it makes.
`InOrder` says that without overlaps the latest number always has the latest time.

**Roles and tasks.**
`AdminInv` adds that what is asked is still safe to commit. `SessionInv` says that a user has
not both a session and a sign-in under way, which is why a revocation that finds no session and
a sign-in of a former role leaves the user among the escaped.
`TaskInv` adds that an update under way has read the assignee it will replace, who was
told; `AloneInv` that the row a request has read is still the row.

## 6. What is only model-checked

* Liveness under fairness (`RequestsEnd`, `WaitingEnds`): out of the prover's reach.
* Exact agreement of the books of advances (`AdvanceBooksAgree`): it holds only where
  every release can bear its deduction, and no departure drops one. The inequality of
  `CollectedOnce` and the steps of `DeductionsSettle`, which are proved, are what holds always.
* `NamesDiffer`: with overlaps it is false (section 4), and without them it says little more
  than that the check is made.
* `LastEditIsKept` and `PendingShown` of the editor: they hold within the bounds and under
  the flag of the run, and not in general (section 4).
* `BooksAgreeElsewhere` and `OverlapsTold`, which put properties that are proved to instances
  with other constants.
* The findings, which are counterexamples.

## 7. Not modelled

Reports, dashboard, statements, payslips, bank sheets and cash receiving read and render.
Reference data, settings, the logo and the audit log are single statements. Storage, images
and PDF rendering are input and output. Authorization is a stateless check before each
handler, modelled where the check races with what it checks. Of attendance and overtime
arithmetic only the last sum is modelled. The import and export of files are modelled as
the changes their rows make. The frontend beyond the entry editor is presentation.
`PROJECT.json` lists every component with its status.
