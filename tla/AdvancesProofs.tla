---------------------------- MODULE AdvancesProofs ----------------------------
(***************************************************************************)
(* Two developments about what happens within months.                      *)
(*                                                                         *)
(* Advances: for every set of employees, advances, types and requests,     *)
(* every number of months and every amount, nothing lent is collected      *)
(* twice, a closed advance never changes again, no rollover misses a       *)
(* deduction and nothing taken off a balance is lost but in the ways       *)
(* KeptStep names, while a rollover overlaps no other request.             *)
(*                                                                         *)
(* The inductive invariant says what the rows are (at most one current     *)
(* month; whose advances entries carry; what an advance owes and has       *)
(* deducted) and what each request still knows of what it read. A step is  *)
(* split in two: what it leaves of the rows (RowsOK), and that it leaves   *)
(* each of the other requests what it relies on (Spares). On top of it     *)
(* come what sweeps and rollovers know (SchedulesInv) and what releases    *)
(* withheld and open entries deduct (CollectInv, BooksOK).                 *)
(*                                                                         *)
(* Salary release: for any employees, units, callers and kinds of edit,    *)
(* Release All leaves nobody behind (EveryoneReleased), split entries wait *)
(* for all their units (SweepsMatchUnits) and what is swept is what was    *)
(* shown (SweptAlwaysAsShown). ReleaseInv is inductive: it says of each    *)
(* loop of Release All where the entries it still owes will be met.        *)
(***************************************************************************)
EXTENDS PayrollMonth, SumProofs

-----------------------------------------------------------------------------
(* The inductive invariant. *)

Requesting ==
    [kind : Kinds \cup {"none"}, pc : {"idle", "target", "entry", "commit", "archive"},
     id : Advances \cup {None}, row : AdvanceRecord, at : Slots \cup {NoSlot}, valid : BOOLEAN,
     month : 0 .. LastMonth, amount : Nat, roster : SUBSET Employees, held : SUBSET Employees,
     due : SUBSET Advances, rows : [Advances -> AdvanceRecord], read : [Employees -> EntryRecord]]

(* The shape of the rows and of the requests. *)
Typed ==
    /\ advance \in [Advances -> AdvanceRecord]
    /\ entry \in [Months -> [Employees -> EntryRecord]]
    /\ cycleStatus \in [Months -> {"NONE", "DRAFT", "RELEASED", "ARCHIVED"}]
    /\ departed \subseteq Employees
    /\ txn \in [Txns -> Requesting]

(* The month that is open, or finalized and not yet archived: at most one is. *)
Current(c) == cycleStatus[c] \in {"DRAFT", "RELEASED"}
MonthsOK ==
    /\ \A c, d \in Months : Current(c) /\ Current(d) => c = d
    /\ \A c \in Months, e \in Employees : cycleStatus[c] = "NONE" =>
          entry[c][e].outcome = "NONE" /\ \A y \in Types : entry[c][e].link[y] = None

(* An advance that exists was made to somebody, of a type, on terms. *)
Made(row) == /\ row.status # "NONE" /\ row.employee \in Employees /\ row.type \in Types
             /\ row.terms \in TermRecord
SameAdvance(row, other) ==
    row.employee = other.employee /\ row.type = other.type /\ row.terms = other.terms

(* Entries carry advances that exist, of their employee and in the columns of its type; *)
(* an entry that can still be edited or released deducts for open ones only.            *)
LinksOK ==
    \A c \in Months, e \in Employees, y \in Types, a \in Advances :
        entry[c][e].link[y] = a =>
            /\ Made(advance[a]) /\ advance[a].employee = e /\ advance[a].type = y
            /\ entry[c][e].outcome = "OPEN" /\ Current(c) /\ entry[c][e].deduction[y] > 0
                  => Open(advance[a])

(* What one advance has deducted in each month. *)
Deductions(a) ==
    [c \in Months |-> IF entry[c][advance[a].employee].link[advance[a].type] = a
                        THEN entry[c][advance[a].employee].deduction[advance[a].type] ELSE 0]
BalancesOK ==
    /\ OnePerType(advance)
    /\ \A a \in Advances : advance[a].status # "NONE" =>
          /\ Made(advance[a])
          /\ advance[a].outstanding + SumFunctionOnSet(Deductions(a), Months) <= advance[a].total

RowsOK == MonthsOK /\ LinksOK /\ BalancesOK

(* What a request has read and still holds when it commits: an edit, a cancellation or a *)
(* deferral knows whose advance it changes, and the entry it read, unless its version    *)
(* was bumped, still carries it in the current month.                                    *)
ChangeOK(q) ==
    q.kind \in Guarded =>
        /\ q.id \in Advances /\ Made(advance[q.id]) /\ SameAdvance(q.row, advance[q.id])
        /\ q.kind \in {"edit", "cancel"} => Open(q.row)
        /\ q.pc = "entry" => q.at = NoSlot
        /\ q.pc = "commit" /\ q.at # NoSlot =>
             /\ q.at \in Slots /\ Current(q.at[1]) /\ q.at[2] = q.row.employee
             /\ q.valid => /\ At(q.at).outcome = "OPEN" /\ At(q.at).link[q.row.type] = q.id
                           /\ q.kind = "defer" => At(q.at).deduction[q.row.type] > 0
        /\ q.pc = "commit" /\ q.at = NoSlot =>
             /\ q.kind # "defer"
             /\ q.kind = "cancel" =>
                  \A c \in Months, e \in Employees, y \in Types :
                     entry[c][e].link[y] = q.id => entry[c][e].outcome # "OPEN"

CreateOK(q) ==
    q.kind = "create" =>
        /\ Made(q.row) /\ q.row.status = "ACTIVE" /\ q.row.outstanding = q.row.total
        /\ q.pc = "target" => q.at = NoSlot
        /\ q.at # NoSlot => q.at \in Slots /\ q.at[2] = q.row.employee /\ cycleStatus[q.at[1]] # "NONE"

ReleaseOK(q) == q.kind = "release" => q.month \in Months /\ Current(q.month)

(* A rollover overlaps no other request: what it read of the advances it takes is what   *)
(* they are.                                                                             *)
RolloverOK(t) ==
    LET q == txn[t] IN
    q.kind = "rollover" =>
        /\ q.month \in Months /\ q.month + 1 \in Months
        /\ cycleStatus[q.month] = "RELEASED" /\ cycleStatus[q.month + 1] = "NONE"
        /\ \A u \in Txns \ {t} : txn[u] = Idle
        /\ q.pc = "commit" => \A a \in q.due : q.rows[a] = advance[a] /\ advance[a].status = "ACTIVE"

RequestOK(t) == ChangeOK(txn[t]) /\ CreateOK(txn[t]) /\ ReleaseOK(txn[t]) /\ RolloverOK(t)

AdvancesInv == Typed /\ RowsOK /\ \A t \in Txns : RequestOK(t)

-----------------------------------------------------------------------------
(* Types. *)

(* The rows of a request that has not begun. *)
LEMMA EmptyRows ==
  /\ NoAdvance \in AdvanceRecord /\ NoEntry \in EntryRecord /\ FreshEntry \in EntryRecord
  /\ NoEntry.outcome = "NONE" /\ FreshEntry.outcome = "OPEN"
  /\ \A y \in Types : NoEntry.link[y] = None /\ FreshEntry.link[y] = None
                      /\ NoEntry.deduction[y] = 0 /\ FreshEntry.deduction[y] = 0
                      /\ NoEntry.of[y] = None /\ FreshEntry.of[y] = None
<1>1. NoAdvance \in AdvanceRecord
  BY LastMonthAssumption DEF NoAdvance, AdvanceRecord
<1>2. NoEntry \in EntryRecord
  BY DEF NoEntry, EntryRecord
<1>3. /\ FreshEntry = [NoEntry EXCEPT !.outcome = "OPEN"] /\ NoEntry.outcome = "NONE"
      /\ \A y \in Types : NoEntry.link[y] = None /\ NoEntry.deduction[y] = 0 /\ NoEntry.of[y] = None
  BY DEF FreshEntry, NoEntry
<1>4. FreshEntry \in EntryRecord /\ FreshEntry.outcome = "OPEN"
      /\ FreshEntry.link = NoEntry.link /\ FreshEntry.deduction = NoEntry.deduction
      /\ FreshEntry.of = NoEntry.of
  BY <1>2, <1>3 DEF EntryRecord
<1> QED
  BY <1>1, <1>2, <1>3, <1>4

(* A slot that runs nothing holds no request of the six kinds. *)
LEMMA IdleRequest == Idle \in Requesting /\ Idle.kind = "none" /\ Idle.at = NoSlot
<1>1. Idle.read \in [Employees -> EntryRecord] /\ Idle.rows \in [Advances -> AdvanceRecord]
  BY EmptyRows DEF Idle
<1>2. NoAdvance \in AdvanceRecord
  BY EmptyRows
<1> QED
  BY <1>1, <1>2, LastMonthAssumption DEF Idle, Requesting

(* The smaller of two numbers. *)
LEMMA Smaller ==
  ASSUME NEW m \in Int, NEW n \in Int
  PROVE  Min({m, n}) = IF m <= n THEN m ELSE n
  BY DEF Min

(* A deduction takes no more than is owed, leaves the rest outstanding, and the advance *)
(* open.                                                                                *)
LEMMA DeductedRow ==
  ASSUME NEW row \in AdvanceRecord, Made(row), NEW c \in 0 .. LastMonth, NEW new, new = Deducted(row, c)
  PROVE  /\ Due(row) \in Nat /\ Due(row) <= row.outstanding
         /\ new \in AdvanceRecord /\ Open(new) /\ SameAdvance(new, row)
         /\ new.outstanding = row.outstanding - Due(row) /\ new.total = row.total
<1>1. /\ row.outstanding \in Nat /\ row.terms.installment \in Nat
      /\ row.terms.repayment \in {"FULL_DEDUCTION", "INSTALLMENT"}
  BY DEF AdvanceRecord, Made, TermRecord
<1>2. Due(row) \in Nat /\ Due(row) <= row.outstanding
  BY <1>1, Smaller DEF Due
<1>3. PICK rest : rest = row.outstanding - Due(row)
  OBVIOUS
<1>4. rest \in Nat
  BY <1>1, <1>2, <1>3
<1>5. new = [row EXCEPT !.outstanding = rest, !.status = IF rest <= 0 THEN "RESERVED" ELSE "ACTIVE",
                        !.period = IF rest <= 0 THEN 0 ELSE c + 1]
  BY <1>3 DEF Deducted
<1>6. c + 1 \in 0 .. LastMonth + 1 /\ 0 \in 0 .. LastMonth + 1
  BY LastMonthAssumption
<1>7. /\ new \in AdvanceRecord /\ Open(new) /\ SameAdvance(new, row)
      /\ new.outstanding = rest /\ new.total = row.total
  BY <1>4, <1>5, <1>6, Zenon DEF AdvanceRecord, Open, SameAdvance
<1> QED
  BY <1>2, <1>3, <1>7

-----------------------------------------------------------------------------
(* What an advance has deducted. *)

(* The deductions of one advance are naturals. *)
LEMMA DeductionTypes ==
  ASSUME Typed, NEW a \in Advances, Made(advance[a])
  PROVE  \A c \in Months : Deductions(a)[c] \in Nat
  BY DEF Typed, EntryRecord, Deductions, Made

(* The months are finitely many, so that what they deduct can be added up. *)
LEMMA MonthsFinite == IsFiniteSet(Months)
  BY LastMonthAssumption, FS_Interval DEF Months

(* What was deducted does not grow while no entry of the employee deducts more for it. *)
LEMMA DeductionsShrink ==
  ASSUME Typed, Typed', NEW a \in Advances, Made(advance[a]),
         advance'[a].employee = advance[a].employee, advance'[a].type = advance[a].type,
         \A c \in Months, e \in Employees, y \in Types :
            entry'[c][e].link[y] = a =>
               entry[c][e].link[y] = a /\ entry'[c][e].deduction[y] = entry[c][e].deduction[y]
  PROVE  /\ SumFunctionOnSet(Deductions(a), Months)' <= SumFunctionOnSet(Deductions(a), Months)
         /\ SumFunctionOnSet(Deductions(a), Months)' \in Nat /\ SumFunctionOnSet(Deductions(a), Months) \in Nat
<1>1. PICK e \in Employees, y \in Types : e = advance[a].employee /\ y = advance[a].type
  BY DEF Made
<1>2. PICK f, g : f = Deductions(a) /\ g = Deductions(a)'
  OBVIOUS
<1>3. \A c \in Months : f[c] = IF entry[c][e].link[y] = a THEN entry[c][e].deduction[y] ELSE 0
  BY <1>1, <1>2 DEF Deductions
<1>4. \A c \in Months : g[c] = IF entry'[c][e].link[y] = a THEN entry'[c][e].deduction[y] ELSE 0
  BY <1>1, <1>2 DEF Deductions
<1>5. \A c \in Months : entry[c][e].deduction[y] \in Nat /\ entry'[c][e].deduction[y] \in Nat
  BY DEF Typed, EntryRecord
<1>6. \A c \in Months : f[c] \in Nat /\ g[c] \in Nat /\ f[c] \in Int /\ g[c] \in Int /\ g[c] <= f[c]
  BY <1>1, <1>3, <1>4, <1>5
<1>7. SumFunctionOnSet(g, Months) <= SumFunctionOnSet(f, Months)
  <2> HIDE <1>1, <1>3, <1>4, <1>5
  <2> QED
    BY <1>6, MonthsFinite, SumMonotone
<1>8. SumFunctionOnSet(f, Months) \in Nat /\ SumFunctionOnSet(g, Months) \in Nat
  <2> HIDE <1>1, <1>3, <1>4, <1>5
  <2> QED
    BY <1>6, MonthsFinite, SumOfNaturals
<1> QED
  BY <1>2, <1>7, <1>8

(* It changes by what one entry deducts otherwise. *)
LEMMA DeductionsChange ==
  ASSUME Typed, Typed', NEW a \in Advances, Made(advance[a]),
         advance'[a].employee = advance[a].employee, advance'[a].type = advance[a].type,
         NEW m \in Months, NEW before \in Nat, NEW after \in Nat,
         before = Deductions(a)[m], after = (Deductions(a)')[m],
         \A c \in Months, e \in Employees : c # m => entry'[c][e] = entry[c][e]
  PROVE  /\ SumFunctionOnSet(Deductions(a), Months)' =
              SumFunctionOnSet(Deductions(a), Months) - before + after
         /\ SumFunctionOnSet(Deductions(a), Months) \in Nat
<1>1. advance[a].employee \in Employees
  BY DEF Made
<1>2. PICK f, g : f = Deductions(a) /\ g = Deductions(a)'
  OBVIOUS
<1>3. \A c \in Months : c # m => g[c] = f[c]
  BY <1>1, <1>2 DEF Deductions
<1>4. f[m] = before /\ g[m] = after
  BY <1>2
<1>5. \A c \in Months : f[c] \in Nat
  BY <1>2, DeductionTypes
<1>6. \A c \in Months : f[c] \in Int
  BY <1>5
<1>7. \A c \in Months : g[c] \in Int
  BY <1>3, <1>4, <1>6
<1>8. IsFiniteSet(Months)
  BY MonthsFinite
<1>9. SumFunctionOnSet(g, Months) = SumFunctionOnSet(f, Months) - f[m] + g[m]
  BY <1>3, <1>6, <1>7, <1>8, SumChange
<1>10. SumFunctionOnSet(f, Months) \in Nat
  BY <1>5, <1>8, SumOfNaturals
<1> QED
  BY <1>2, <1>4, <1>9, <1>10

-----------------------------------------------------------------------------
(* What a step leaves of the things the other requests rely on. *)

(* A request only loses the validity of what it read. *)
Held(q, p) ==
    /\ q.kind = p.kind /\ q.pc = p.pc /\ q.id = p.id /\ q.row = p.row /\ q.at = p.at
    /\ q.month = p.month /\ q.due = p.due /\ q.rows = p.rows
    /\ q.roster = p.roster /\ q.held = p.held /\ q.read = p.read
    /\ q.valid => p.valid
SameLine(line, other) ==
    /\ line.outcome = other.outcome /\ line.link = other.link /\ line.deduction = other.deduction
    /\ line.withheld = other.withheld /\ line.of = other.of /\ line.stale = other.stale
AdvancesKept ==
    \A a \in Advances : Made(advance[a]) => Made(advance'[a]) /\ SameAdvance(advance'[a], advance[a])
MonthsKept ==
    \A c \in Months : /\ Current(c) => Current(c)'
                      /\ cycleStatus[c] # "NONE" => cycleStatus'[c] # "NONE"
NoNewLinks ==
    \A c \in Months, e \in Employees, y \in Types, a \in Advances :
        Made(advance[a]) /\ entry'[c][e].link[y] = a /\ entry'[c][e].outcome = "OPEN"
          => entry[c][e].link[y] = a /\ entry[c][e].outcome = "OPEN"
LineKept(u) ==
    txn[u].kind \in Guarded /\ txn[u].pc = "commit" /\ txn'[u].valid /\ txn[u].at \in Slots
      => SameLine(At(txn[u].at)', At(txn[u].at))
RolloverKept(u) ==
    txn[u].kind = "rollover" =>
        /\ advance' = advance
        /\ cycleStatus'[txn[u].month] = cycleStatus[txn[u].month]
        /\ cycleStatus'[txn[u].month + 1] = cycleStatus[txn[u].month + 1]
        /\ \A v \in Txns : txn[v] = Idle => txn'[v] = Idle
Spares(u) ==
    Held(txn'[u], txn[u]) /\ AdvancesKept /\ MonthsKept /\ NoNewLinks /\ LineKept(u) /\ RolloverKept(u)

(* An edit, a cancellation or a deferral that a step spares keeps what it knows. *)
LEMMA ChangeKept ==
  ASSUME Typed, Typed', NEW u \in Txns, ChangeOK(txn[u]), Spares(u)
  PROVE  ChangeOK(txn[u])'
<1>1. PICK q, p : q = txn'[u] /\ p = txn[u]
  OBVIOUS
<1>2. Held(q, p) /\ ChangeOK(p)
  BY <1>1 DEF Spares
<1>3. SUFFICES ASSUME q.kind \in Guarded
      PROVE  /\ q.id \in Advances /\ Made(advance'[q.id]) /\ SameAdvance(q.row, advance'[q.id])
             /\ q.kind \in {"edit", "cancel"} => Open(q.row)
             /\ q.pc = "entry" => q.at = NoSlot
             /\ q.pc = "commit" /\ q.at # NoSlot =>
                  /\ q.at \in Slots /\ Current(q.at[1])' /\ q.at[2] = q.row.employee
                  /\ q.valid => /\ At(q.at)'.outcome = "OPEN" /\ At(q.at)'.link[q.row.type] = q.id
                                /\ q.kind = "defer" => At(q.at)'.deduction[q.row.type] > 0
             /\ q.pc = "commit" /\ q.at = NoSlot =>
                  /\ q.kind # "defer"
                  /\ q.kind = "cancel" =>
                       \A c \in Months, e \in Employees, y \in Types :
                          entry'[c][e].link[y] = q.id => entry'[c][e].outcome # "OPEN"
  BY <1>1, Zenon DEF ChangeOK, At
<1>4. q.id \in Advances /\ Made(advance[q.id]) /\ SameAdvance(q.row, advance[q.id])
      /\ (q.kind \in {"edit", "cancel"} => Open(q.row))
      /\ (q.pc = "entry" => q.at = NoSlot)
  BY <1>2, <1>3 DEF ChangeOK, Held
<1>5. Made(advance'[q.id]) /\ SameAdvance(q.row, advance'[q.id])
  BY <1>4 DEF Spares, AdvancesKept, SameAdvance
<1>6. ASSUME q.pc = "commit", q.at # NoSlot
      PROVE  /\ q.at \in Slots /\ Current(q.at[1])' /\ q.at[2] = q.row.employee
             /\ q.valid => /\ At(q.at)'.outcome = "OPEN" /\ At(q.at)'.link[q.row.type] = q.id
                           /\ q.kind = "defer" => At(q.at)'.deduction[q.row.type] > 0
  <2>1. /\ q.at \in Slots /\ Current(q.at[1]) /\ q.at[2] = q.row.employee
        /\ q.valid => /\ At(q.at).outcome = "OPEN" /\ At(q.at).link[q.row.type] = q.id
                      /\ q.kind = "defer" => At(q.at).deduction[q.row.type] > 0
    BY <1>2, <1>3, <1>6 DEF ChangeOK, Held
  <2>2. q.at[1] \in Months
    BY <2>1 DEF Slots
  <2>3. Current(q.at[1])'
    BY <2>1, <2>2 DEF Spares, MonthsKept
  <2>4. q.valid => SameLine(At(q.at)', At(q.at))
    BY <1>1, <1>2, <1>3, <1>6, <2>1 DEF Spares, LineKept, Held
  <2> QED
    BY <2>1, <2>3, <2>4 DEF SameLine
<1>7. ASSUME q.pc = "commit", q.at = NoSlot
      PROVE  /\ q.kind # "defer"
             /\ q.kind = "cancel" =>
                  \A c \in Months, e \in Employees, y \in Types :
                     entry'[c][e].link[y] = q.id => entry'[c][e].outcome # "OPEN"
  <2>1. /\ q.kind # "defer"
        /\ q.kind = "cancel" =>
             \A c \in Months, e \in Employees, y \in Types :
                entry[c][e].link[y] = q.id => entry[c][e].outcome # "OPEN"
    BY <1>2, <1>3, <1>7 DEF ChangeOK, Held
  <2> QED
    BY <2>1, <1>4 DEF Spares, NoNewLinks
<1> QED
  BY <1>4, <1>5, <1>6, <1>7

(* So does every request. *)
LEMMA RequestKept ==
  ASSUME Typed, Typed', NEW u \in Txns, RequestOK(u), Spares(u)
  PROVE  RequestOK(u)'
<1>1. ChangeOK(txn[u])'
  BY ChangeKept DEF RequestOK
<1>2. PICK q, p : q = txn'[u] /\ p = txn[u]
  OBVIOUS
<1>3. Held(q, p) /\ MonthsKept
  BY <1>2 DEF Spares
<1>4. CreateOK(txn[u])'
  <2>1. SUFFICES ASSUME q.kind = "create"
        PROVE  /\ Made(q.row) /\ q.row.status = "ACTIVE" /\ q.row.outstanding = q.row.total
               /\ q.pc = "target" => q.at = NoSlot
               /\ q.at # NoSlot => q.at \in Slots /\ q.at[2] = q.row.employee /\ cycleStatus'[q.at[1]] # "NONE"
    BY <1>2 DEF CreateOK
  <2>2. /\ Made(q.row) /\ q.row.status = "ACTIVE" /\ q.row.outstanding = q.row.total
        /\ q.pc = "target" => q.at = NoSlot
        /\ q.at # NoSlot => q.at \in Slots /\ q.at[2] = q.row.employee /\ cycleStatus[q.at[1]] # "NONE"
    BY <1>2, <1>3, <2>1 DEF RequestOK, CreateOK, Held
  <2>3. q.at # NoSlot => q.at[1] \in Months
    BY <2>2 DEF Slots
  <2> QED
    BY <1>3, <2>2, <2>3 DEF MonthsKept
<1>5. ReleaseOK(txn[u])'
  <2>1. SUFFICES ASSUME q.kind = "release"  PROVE q.month \in Months /\ Current(q.month)'
    BY <1>2 DEF ReleaseOK
  <2>2. q.month \in Months /\ Current(q.month)
    BY <1>2, <1>3, <2>1 DEF RequestOK, ReleaseOK, Held
  <2> QED
    BY <1>3, <2>2 DEF MonthsKept
<1>6. RolloverOK(u)'
  <2>1. SUFFICES ASSUME q.kind = "rollover"
        PROVE  /\ q.month \in Months /\ q.month + 1 \in Months
               /\ cycleStatus'[q.month] = "RELEASED" /\ cycleStatus'[q.month + 1] = "NONE"
               /\ \A v \in Txns \ {u} : txn'[v] = Idle
               /\ q.pc = "commit" => \A a \in q.due : q.rows[a] = advance'[a] /\ advance'[a].status = "ACTIVE"
    BY <1>2 DEF RolloverOK
  <2>2. /\ q.month \in Months /\ q.month + 1 \in Months
        /\ cycleStatus[q.month] = "RELEASED" /\ cycleStatus[q.month + 1] = "NONE"
        /\ \A v \in Txns \ {u} : txn[v] = Idle
        /\ q.pc = "commit" => \A a \in q.due : q.rows[a] = advance[a] /\ advance[a].status = "ACTIVE"
    BY <1>2, <1>3, <2>1 DEF RequestOK, RolloverOK, Held
  <2>3. /\ advance' = advance
        /\ cycleStatus'[q.month] = cycleStatus[q.month]
        /\ cycleStatus'[q.month + 1] = cycleStatus[q.month + 1]
        /\ \A v \in Txns : txn[v] = Idle => txn'[v] = Idle
    BY <1>2, <1>3, <2>1 DEF Spares, RolloverKept, Held
  <2> QED
    BY <2>2, <2>3
<1> QED
  BY <1>1, <1>4, <1>5, <1>6 DEF RequestOK

(* A step keeps the invariant when it keeps the rows, and every request that it does not *)
(* spare.                                                                                *)
LEMMA InvariantKept ==
  ASSUME AdvancesInv, Typed', RowsOK', \A u \in Txns : RequestOK(u)' \/ Spares(u)
  PROVE  AdvancesInv'
<1>1. \A u \in Txns : RequestOK(u)'
  BY RequestKept DEF AdvancesInv
<1> QED
  BY <1>1 DEF AdvancesInv

(* A request that is not running relies on nothing. *)
LEMMA IdleOK ==
  ASSUME NEW u \in Txns, txn'[u].kind = "none"
  PROVE  RequestOK(u)'
  BY DEF RequestOK, ChangeOK, CreateOK, ReleaseOK, RolloverOK, Guarded

(* Bumping the version of a row, or deleting it, only takes validity away. *)
LEMMA BumpedRequests ==
  ASSUME NEW slots, NEW requests \in [Txns -> Requesting], NEW new, new = Bumped(slots, requests)
  PROVE  /\ new \in [Txns -> Requesting]
         /\ \A u \in Txns : /\ Held(new[u], requests[u])
                            /\ new[u].valid /\ new[u].kind \in Guarded => new[u].at \notin slots
                            /\ requests[u] = Idle => new[u] = Idle
<1>1. ASSUME NEW u \in Txns
      PROVE  /\ new[u] \in Requesting
             /\ Held(new[u], requests[u])
             /\ new[u].valid /\ new[u].kind \in Guarded => new[u].at \notin slots
             /\ requests[u] = Idle => new[u] = Idle
  <2>1. PICK p : p = requests[u]
    OBVIOUS
  <2>2. PICK b \in BOOLEAN : b = (p.valid /\ ~(p.kind \in Guarded /\ p.at \in slots))
    BY <2>1 DEF Requesting
  <2>3. new[u] = [p EXCEPT !.valid = b]
    BY <2>1, <2>2 DEF Bumped
  <2>4. p \in Requesting
    BY <2>1
  <2>5. new[u] \in Requesting /\ Held(new[u], p) /\ new[u].valid = b
    BY <2>2, <2>3, <2>4, Zenon DEF Requesting, Held
  <2>6. p.valid = FALSE => [p EXCEPT !.valid = FALSE] = p
    BY <2>4 DEF Requesting
  <2>7. p = Idle => new[u] = Idle
    <3>1. Idle.valid = FALSE
      BY DEF Idle
    <3> QED
      BY <2>2, <2>3, <2>6, <3>1, Zenon
  <2> QED
    BY <2>1, <2>2, <2>5, <2>7 DEF Held
<1>2. DOMAIN new = Txns /\ new = [u \in Txns |-> new[u]]
  BY DEF Bumped
<1> QED
  BY <1>1, <1>2

(* Deleting a row takes the validity of whoever read it, sweeps included. *)
LEMMA DeletedRequests ==
  ASSUME NEW slot, NEW requests \in [Txns -> Requesting], NEW new, new = Deleted(slot, requests)
  PROVE  /\ new \in [Txns -> Requesting]
         /\ \A u \in Txns : /\ Held(new[u], requests[u])
                            /\ new[u].valid => new[u].at # slot /\ slot \notin Swept(requests[u])
                            /\ requests[u] = Idle => new[u] = Idle
<1>1. ASSUME NEW u \in Txns
      PROVE  /\ new[u] \in Requesting
             /\ Held(new[u], requests[u])
             /\ new[u].valid => new[u].at # slot /\ slot \notin Swept(requests[u])
             /\ requests[u] = Idle => new[u] = Idle
  <2>1. PICK p : p = requests[u]
    OBVIOUS
  <2>2. PICK b \in BOOLEAN : b = (p.valid /\ slot # p.at /\ slot \notin Swept(p))
    BY <2>1 DEF Requesting
  <2>3. new[u] = [p EXCEPT !.valid = b]
    BY <2>1, <2>2 DEF Deleted
  <2>4. p \in Requesting
    BY <2>1
  <2>5. new[u] \in Requesting /\ Held(new[u], p) /\ new[u].valid = b
    BY <2>2, <2>3, <2>4, Zenon DEF Requesting, Held
  <2>6. p.valid = FALSE => [p EXCEPT !.valid = FALSE] = p
    BY <2>4 DEF Requesting
  <2>7. p = Idle => new[u] = Idle
    <3>1. Idle.valid = FALSE
      BY DEF Idle
    <3> QED
      BY <2>2, <2>3, <2>6, <3>1, Zenon
  <2> QED
    BY <2>1, <2>2, <2>5, <2>7 DEF Held
<1>2. DOMAIN new = Txns /\ new = [u \in Txns |-> new[u]]
  BY DEF Deleted
<1> QED
  BY <1>1, <1>2

-----------------------------------------------------------------------------
(* The steps that read. *)

(* A running request overlaps no rollover. *)
LEMMA NoOtherRollover ==
  ASSUME AdvancesInv, NEW t \in Txns, txn[t].kind # "none"
  PROVE  \A u \in Txns \ {t} : txn[u].kind # "rollover"
<1>1. txn[t] # Idle
  BY IdleRequest
<1> QED
  BY <1>1 DEF AdvancesInv, RequestOK, RolloverOK

(* Nor does one that starts. *)
LEMMA NoRolloverAtStart ==
  ASSUME "rollover" \in Alone, NEW t \in Txns, NEW request, Start(t, request)
  PROVE  \A u \in Txns \ {t} : /\ txn[u].kind # "rollover"
                               /\ request.kind = "rollover" => txn[u] = Idle
<1>1. ASSUME NEW u \in Txns, txn[u] # Idle
      PROVE  request.kind \notin Alone /\ txn[u].kind \notin Alone
  BY <1>1 DEF Start
<1>2. Idle.kind = "none"
  BY IdleRequest
<1> QED
  BY <1>1, <1>2

(* A step that changes no row leaves the other requests alone. *)
LEMMA QuietStep ==
  ASSUME AdvancesInv, NEW t \in Txns, NEW q \in Requesting, txn' = [txn EXCEPT ![t] = q],
         UNCHANGED <<advance, entry, cycleStatus, departed>>,
         \A u \in Txns \ {t} : txn[u].kind # "rollover",
         RequestOK(t)'
  PROVE  AdvancesInv'
<1>1. Typed' /\ RowsOK'
  <2>1. Typed'
    BY DEF AdvancesInv, Typed
  <2>2. MonthsOK' /\ LinksOK'
    BY DEF AdvancesInv, RowsOK, MonthsOK, LinksOK, Current
  <2>3. BalancesOK'
    BY DEF AdvancesInv, RowsOK, BalancesOK, Deductions, OnePerType
  <2> QED
    BY <2>1, <2>2, <2>3 DEF RowsOK
<1>2. ASSUME NEW u \in Txns, u # t  PROVE Spares(u)
  <2>1. txn'[u] = txn[u] /\ txn[u].kind # "rollover"
    BY <1>2 DEF AdvancesInv, Typed
  <2>2. Held(txn'[u], txn[u])
    BY <2>1 DEF Held
  <2>3. AdvancesKept /\ MonthsKept /\ NoNewLinks
    BY DEF AdvancesKept, MonthsKept, NoNewLinks, SameAdvance, Current
  <2>4. LineKept(u) /\ RolloverKept(u)
    BY <2>1 DEF LineKept, RolloverKept, SameLine, At
  <2> QED
    BY <2>2, <2>3, <2>4 DEF Spares
<1> QED
  BY <1>1, <1>2, InvariantKept

(* createAdvance begins: its row is an advance on terms, and it has read no entry. *)
LEMMA CreateRequested ==
  ASSUME AdvancesInv, "rollover" \in Alone, NEW t \in Txns, NEW e \in Employees, NEW y \in Types,
         NEW terms \in Terms, NEW p \in Months, RequestCreate(t, e, y, terms, p)
  PROVE  AdvancesInv'
<1> DEFINE row == [status |-> "ACTIVE", employee |-> e, type |-> y, terms |-> terms,
                   total |-> terms.total, outstanding |-> terms.total, period |-> p]
<1>1. PICK q : q = [Idle EXCEPT !.kind = "create", !.pc = "target", !.row = row]
  OBVIOUS
<1>2. Start(t, q) /\ UNCHANGED <<advance, entry, cycleStatus, departed>>
  BY <1>1 DEF RequestCreate
<1>3. row \in AdvanceRecord /\ Made(row) /\ row.status = "ACTIVE" /\ row.outstanding = row.total
  <2>1. terms \in TermRecord /\ terms.total \in Nat /\ p \in 0 .. LastMonth + 1
    BY TermsAssumption, LastMonthAssumption DEF TermRecord, Months
  <2> QED
    BY <2>1 DEF AdvanceRecord, Made
<1> HIDE DEF row
<1>4. q \in Requesting /\ q.kind = "create" /\ q.row = row /\ q.at = NoSlot
  BY <1>1, <1>3, IdleRequest, Zenon DEF Requesting, Kinds
<1>5. txn' = [txn EXCEPT ![t] = q] /\ \A u \in Txns \ {t} : txn[u].kind # "rollover"
  BY <1>2, NoRolloverAtStart, Zenon DEF Start
<1>6. txn'[t] = q
  BY <1>5 DEF AdvancesInv, Typed
<1>7. RequestOK(t)'
  BY <1>3, <1>4, <1>6 DEF RequestOK, ChangeOK, CreateOK, ReleaseOK, RolloverOK, Guarded
<1> QED
  BY <1>2, <1>4, <1>5, <1>7, QuietStep

(* ... and reads the draft: the entry it takes a deduction in is its employee's. *)
LEMMA TargetRead ==
  ASSUME AdvancesInv, NEW t \in Txns, ReadTarget(t)
  PROVE  AdvancesInv'
<1>1. PICK p : p = txn[t]
  OBVIOUS
<1>2. p \in Requesting /\ p.kind = "create" /\ p.pc = "target"
      /\ UNCHANGED <<advance, entry, cycleStatus, departed>>
  BY <1>1 DEF ReadTarget, AdvancesInv, Typed
<1>3. CreateOK(p)
  BY <1>1 DEF AdvancesInv, RequestOK
<1>4. PICK slot : slot = <<p.row.period, p.row.employee>>
  OBVIOUS
<1>5. PICK q : /\ txn' = [txn EXCEPT ![t] = q]
               /\ \/ q = [p EXCEPT !.pc = "commit", !.at = slot, !.valid = TRUE] /\ slot[1] \in Drafts
                  \/ q = [p EXCEPT !.pc = "commit"]
  BY <1>1, <1>4 DEF ReadTarget, Becomes
<1>6. slot[1] \in Drafts => slot \in Slots /\ slot[2] = p.row.employee /\ cycleStatus[slot[1]] # "NONE"
  BY <1>2, <1>3, <1>4 DEF CreateOK, Made, Slots, Drafts
<1>7. q \in Requesting /\ q.kind = "create" /\ q.row = p.row
      /\ (q.at # NoSlot => q.at \in Slots /\ q.at[2] = q.row.employee /\ cycleStatus[q.at[1]] # "NONE")
  <2>1. CASE q = [p EXCEPT !.pc = "commit", !.at = slot, !.valid = TRUE] /\ slot[1] \in Drafts
    BY <1>2, <1>6, <2>1 DEF Requesting
  <2>2. CASE q = [p EXCEPT !.pc = "commit"]
    BY <1>2, <1>3, <2>2 DEF Requesting, CreateOK
  <2> QED
    BY <1>5, <2>1, <2>2
<1>8. q.pc = "commit"
  BY <1>2, <1>5 DEF Requesting
<1>9. txn'[t] = q
  BY <1>5 DEF AdvancesInv, Typed
<1>10. RequestOK(t)'
  BY <1>2, <1>3, <1>7, <1>8, <1>9 DEF RequestOK, ChangeOK, CreateOK, ReleaseOK, RolloverOK, Guarded
<1> QED
  BY <1>1, <1>2, <1>5, <1>7, <1>10, QuietStep, NoOtherRollover

(* An edit, a cancellation or a deferral begins: the advance it read exists. *)
LEMMA ChangeRequested ==
  ASSUME AdvancesInv, "rollover" \in Alone, NEW t \in Txns, NEW kind \in Guarded, NEW a \in Advances,
         NEW amount \in Nat, NEW month \in 0 .. LastMonth, RequestChange(t, kind, a, amount, month)
  PROVE  AdvancesInv'
<1>1. PICK q : q = [Idle EXCEPT !.kind = kind, !.pc = "entry", !.id = a, !.row = advance[a],
                                !.amount = amount, !.month = month]
  OBVIOUS
<1>2. Start(t, q) /\ UNCHANGED <<advance, entry, cycleStatus, departed>>
  BY <1>1 DEF RequestChange
<1>3. advance[a] \in AdvanceRecord /\ Made(advance[a]) /\ (kind \in {"edit", "cancel"} => Open(advance[a]))
  BY DEF AdvancesInv, Typed, RowsOK, BalancesOK, RequestChange
<1>4. q \in Requesting /\ q.kind = kind /\ q.pc = "entry" /\ q.id = a /\ q.row = advance[a] /\ q.at = NoSlot
  BY <1>1, <1>3, IdleRequest, Zenon DEF Requesting, Kinds, Guarded
<1>5. txn' = [txn EXCEPT ![t] = q] /\ \A u \in Txns \ {t} : txn[u].kind # "rollover"
  BY <1>2, NoRolloverAtStart, Zenon DEF Start
<1>6. txn'[t] = q
  BY <1>5 DEF AdvancesInv, Typed
<1>7. ChangeOK(txn[t])'
  BY <1>2, <1>3, <1>4, <1>6 DEF ChangeOK, SameAdvance
<1>8. RequestOK(t)'
  BY <1>4, <1>6, <1>7 DEF RequestOK, CreateOK, ReleaseOK, RolloverOK, Guarded
<1> QED
  BY <1>2, <1>4, <1>5, <1>8, QuietStep

(* An edit or a cancellation reads a live entry: the one of the current month, or none. *)
LEMMA LiveEntryRead ==
  ASSUME AdvancesInv, NEW t \in Txns, ReadLiveEntry(t)
  PROVE  AdvancesInv'
<1>1. PICK p : p = txn[t]
  OBVIOUS
<1>2. /\ p \in Requesting /\ p.kind \in {"edit", "cancel"} /\ p.pc = "entry"
      /\ UNCHANGED <<advance, entry, cycleStatus, departed>>
  BY <1>1, Zenon DEF ReadLiveEntry, AdvancesInv, Typed
<1>3. ChangeOK(p)
  BY <1>1 DEF AdvancesInv, RequestOK
<1>4. /\ p.id \in Advances /\ Made(advance[p.id]) /\ SameAdvance(p.row, advance[p.id]) /\ Open(p.row)
      /\ p.at = NoSlot
  BY <1>2, <1>3 DEF ChangeOK, Guarded
<1>5. PICK q : /\ txn' = [txn EXCEPT ![t] = q]
               /\ \/ /\ q = [p EXCEPT !.pc = "commit"]
                     /\ p.kind = "cancel" => LiveEntries(p.id) = {}
                  \/ \E slot \in LiveEntries(p.id) :
                       Editable(slot) /\ q = [p EXCEPT !.pc = "commit", !.at = slot, !.valid = TRUE]
  BY <1>1, <1>2, Zenon DEF ReadLiveEntry, Becomes
<1>6. ASSUME LiveEntries(p.id) = {}, NEW c \in Months, NEW e \in Employees, NEW y \in Types,
             entry[c][e].link[y] = p.id
      PROVE  entry[c][e].outcome # "OPEN"
  <2>1. <<c, e>> \in Slots /\ At(<<c, e>>) = entry[c][e]
    BY DEF Slots, At
  <2> QED
    BY <1>6, <2>1 DEF LiveEntries, Carriers
<1>7. ASSUME NEW slot \in LiveEntries(p.id), Editable(slot)
      PROVE  /\ slot \in Slots /\ Current(slot[1]) /\ slot[2] = p.row.employee
             /\ At(slot).outcome = "OPEN" /\ At(slot).link[p.row.type] = p.id
  <2>1. PICK c \in Months, e \in Employees : slot = <<c, e>> /\ At(slot) = entry[c][e]
    BY DEF LiveEntries, Carriers, Slots, At
  <2>2. PICK y \in Types : entry[c][e].link[y] = p.id
    BY <2>1 DEF LiveEntries, Carriers
  <2>3. advance[p.id].employee = e /\ advance[p.id].type = y
    BY <1>4, <2>2 DEF AdvancesInv, RowsOK, LinksOK
  <2>4. entry[c][e].outcome = "OPEN" /\ cycleStatus[c] # "ARCHIVED"
    BY <1>7, <2>1 DEF Editable
  <2>5. cycleStatus[c] # "NONE"
    BY <2>2, <2>4 DEF AdvancesInv, RowsOK, MonthsOK
  <2>6. Current(c)
    BY <2>4, <2>5 DEF Current, AdvancesInv, Typed
  <2> QED
    BY <1>4, <2>1, <2>2, <2>3, <2>4, <2>6 DEF SameAdvance, Slots
<1>8. /\ q \in Requesting /\ q.kind = p.kind /\ q.pc = "commit" /\ q.id = p.id /\ q.row = p.row
      /\ \/ q.at = NoSlot /\ (p.kind = "cancel" => LiveEntries(p.id) = {})
         \/ /\ q.at \in Slots /\ Current(q.at[1]) /\ q.at[2] = q.row.employee
            /\ At(q.at).outcome = "OPEN" /\ At(q.at).link[q.row.type] = q.id
  <2>1. CASE q = [p EXCEPT !.pc = "commit"] /\ (p.kind = "cancel" => LiveEntries(p.id) = {})
    BY <1>2, <1>4, <2>1 DEF Requesting
  <2>2. ASSUME NEW slot \in LiveEntries(p.id), Editable(slot),
               q = [p EXCEPT !.pc = "commit", !.at = slot, !.valid = TRUE]
        PROVE  /\ q \in Requesting /\ q.kind = p.kind /\ q.pc = "commit" /\ q.id = p.id /\ q.row = p.row
               /\ q.at = slot
    <3>1. slot \in Slots
      BY <1>7, <2>2
    <3> QED
      BY <1>2, <2>2, <3>1, Zenon DEF Requesting
  <2> QED
    BY <1>5, <1>7, <2>1, <2>2, Zenon
<1>9. txn'[t] = q
  BY <1>5 DEF AdvancesInv, Typed
<1>10. NoSlot \notin Slots
  BY DEF NoSlot, Slots, Months
<1>11. At(q.at)' = At(q.at) /\ \A c \in Months : Current(c)' = Current(c)
  BY <1>2 DEF At, Current
<1>12. q.at \in Slots => q.at[1] \in Months
  BY DEF Slots
<1>13. ChangeOK(txn[t])'
  BY <1>2, <1>4, <1>6, <1>8, <1>9, <1>10, <1>11, <1>12 DEF ChangeOK, At
<1>14. RequestOK(t)'
  BY <1>2, <1>8, <1>9, <1>13 DEF RequestOK, CreateOK, ReleaseOK, RolloverOK
<1> QED
  BY <1>1, <1>2, <1>5, <1>8, <1>14, QuietStep, NoOtherRollover, Zenon

(* A deferral reads the entry that deducts: the one of the current month. *)
LEMMA CarrierRead ==
  ASSUME AdvancesInv, NEW t \in Txns, NEW slot \in Slots, ReadCarrier(t, slot)
  PROVE  AdvancesInv'
<1>1. PICK p : p = txn[t]
  OBVIOUS
<1>2. PICK q : q = [p EXCEPT !.pc = "commit", !.at = slot, !.valid = TRUE]
  OBVIOUS
<1>3. /\ p \in Requesting /\ p.kind = "defer" /\ p.pc = "entry"
      /\ UNCHANGED <<advance, entry, cycleStatus, departed>>
      /\ txn' = [txn EXCEPT ![t] = q]
  BY <1>1, <1>2 DEF ReadCarrier, AdvancesInv, Typed, Becomes
<1>4. ChangeOK(p)
  BY <1>1 DEF AdvancesInv, RequestOK
<1>5. p.id \in Advances /\ Made(advance[p.id]) /\ SameAdvance(p.row, advance[p.id])
  BY <1>3, <1>4 DEF ChangeOK, Guarded
<1>6. /\ Editable(slot) /\ At(slot).link[p.row.type] = p.id /\ At(slot).deduction[p.row.type] > 0
  BY <1>1 DEF ReadCarrier
<1>7. Current(slot[1]) /\ slot[2] = p.row.employee /\ At(slot).outcome = "OPEN"
  <2>1. PICK c \in Months, e \in Employees : slot = <<c, e>> /\ At(slot) = entry[c][e]
    BY DEF Slots, At
  <2>2. PICK y \in Types : y = p.row.type /\ entry[c][e].link[y] = p.id
    BY <1>5, <1>6, <2>1 DEF Made, SameAdvance
  <2>3. advance[p.id].employee = e
    BY <1>5, <2>2 DEF AdvancesInv, RowsOK, LinksOK
  <2>4. entry[c][e].outcome = "OPEN" /\ cycleStatus[c] # "ARCHIVED"
    BY <1>6, <2>1 DEF Editable
  <2>5. cycleStatus[c] # "NONE"
    BY <2>2, <2>4 DEF AdvancesInv, RowsOK, MonthsOK
  <2>6. Current(c)
    BY <2>4, <2>5 DEF Current, AdvancesInv, Typed
  <2> QED
    BY <1>5, <2>1, <2>3, <2>4, <2>6 DEF SameAdvance
<1>8. q \in Requesting /\ q.kind = "defer" /\ q.pc = "commit" /\ q.id = p.id /\ q.row = p.row /\ q.at = slot
  BY <1>2, <1>3 DEF Requesting
<1>9. txn'[t] = q
  BY <1>3 DEF AdvancesInv, Typed
<1>10. slot # NoSlot /\ slot[1] \in Months
  BY DEF NoSlot, Slots, Months
<1>11. At(slot)' = At(slot) /\ Current(slot[1])' = Current(slot[1])
  BY <1>3 DEF At, Current
<1>12. ChangeOK(txn[t])'
  BY <1>3, <1>5, <1>6, <1>7, <1>8, <1>9, <1>10, <1>11, Zenon DEF ChangeOK, At
<1>13. RequestOK(t)'
  BY <1>8, <1>9, <1>12 DEF RequestOK, CreateOK, ReleaseOK, RolloverOK
<1> QED
  BY <1>1, <1>3, <1>8, <1>13, QuietStep, NoOtherRollover

(* A sweep begins in the draft cycle. *)
LEMMA ReleaseRequested ==
  ASSUME AdvancesInv, "rollover" \in Alone, NEW t \in Txns, NEW c \in Months,
         NEW chosen \in SUBSET Employees, RequestRelease(t, c, chosen)
  PROVE  AdvancesInv'
<1>1. PICK q : q = [Idle EXCEPT !.kind = "release", !.pc = "commit", !.month = c,
                                !.roster = chosen, !.valid = TRUE, !.read = entry[c]]
  OBVIOUS
<1>2. Start(t, q) /\ UNCHANGED <<advance, entry, cycleStatus, departed>> /\ Current(c)
  BY <1>1 DEF RequestRelease, Current
<1>3. entry[c] \in [Employees -> EntryRecord] /\ c \in 0 .. LastMonth
  BY LastMonthAssumption DEF AdvancesInv, Typed, Months
<1>4. q \in Requesting /\ q.kind = "release" /\ q.month = c
  BY <1>1, <1>3, IdleRequest, Zenon DEF Requesting, Kinds
<1>5. txn' = [txn EXCEPT ![t] = q] /\ \A u \in Txns \ {t} : txn[u].kind # "rollover"
  BY <1>2, NoRolloverAtStart, Zenon DEF Start
<1>6. txn'[t] = q
  BY <1>5 DEF AdvancesInv, Typed
<1>7. RequestOK(t)'
  BY <1>2, <1>4, <1>6 DEF RequestOK, ChangeOK, CreateOK, ReleaseOK, RolloverOK, Guarded, Current
<1> QED
  BY <1>2, <1>4, <1>5, <1>7, QuietStep, Zenon

(* A rollover begins from a finalized cycle, and overlaps no other request. *)
LEMMA RolloverRequested ==
  ASSUME AdvancesInv, "rollover" \in Alone, NEW t \in Txns, NEW c \in Months, RequestRollover(t, c)
  PROVE  AdvancesInv'
<1>1. PICK q : q = [Idle EXCEPT !.kind = "rollover", !.pc = "archive", !.month = c,
                                !.roster = Employees \ departed, !.held = DepartedWithDue(c + 1)]
  OBVIOUS
<1>2. /\ Start(t, q) /\ UNCHANGED <<advance, entry, cycleStatus, departed>>
      /\ c + 1 \in Months /\ cycleStatus[c] = "RELEASED" /\ cycleStatus[c + 1] = "NONE"
  BY <1>1 DEF RequestRollover
<1>3. DepartedWithDue(c + 1) \in SUBSET Employees /\ c \in 0 .. LastMonth
  BY LastMonthAssumption DEF AdvancesInv, Typed, Months, DepartedWithDue
<1>4. q \in Requesting /\ q.kind = "rollover" /\ q.month = c /\ q.pc = "archive"
  BY <1>1, <1>3, IdleRequest, Zenon DEF Requesting, Kinds
<1>5. /\ txn' = [txn EXCEPT ![t] = q] /\ \A u \in Txns \ {t} : txn[u] = Idle
      /\ \A u \in Txns \ {t} : txn[u].kind # "rollover"
  BY <1>2, <1>4, NoRolloverAtStart, Zenon DEF Start
<1>6. txn'[t] = q /\ \A u \in Txns \ {t} : txn'[u] = Idle
  BY <1>5 DEF AdvancesInv, Typed
<1>7. RolloverOK(t)'
  BY <1>2, <1>4, <1>6 DEF RolloverOK
<1>8. RequestOK(t)'
  BY <1>4, <1>6, <1>7 DEF RequestOK, ChangeOK, CreateOK, ReleaseOK, Guarded
<1> QED
  BY <1>2, <1>4, <1>5, <1>8, QuietStep

(* ... and reads the advances due, which stay as it read them. *)
LEMMA DueFound ==
  ASSUME AdvancesInv, NEW t \in Txns, ArchiveAndFindDue(t)
  PROVE  AdvancesInv'
<1>1. PICK p, c : p = txn[t] /\ c = p.month
  OBVIOUS
<1>2. PICK due : due = IF period[c + 1] = "PENDING"
                         THEN {a \in Advances : advance[a].status = "ACTIVE" /\ advance[a].period = c + 1}
                         ELSE {}
  OBVIOUS
<1>3. PICK q : q = [p EXCEPT !.pc = "commit", !.rows = advance, !.due = due]
  OBVIOUS
<1>4. /\ p \in Requesting /\ p.kind = "rollover"
      /\ UNCHANGED <<advance, entry, cycleStatus, departed>>
      /\ txn' = [txn EXCEPT ![t] = q]
  BY <1>1, <1>2, <1>3 DEF ArchiveAndFindDue, AdvancesInv, Typed, Becomes
<1>5. /\ p.month \in Months /\ p.month + 1 \in Months
      /\ cycleStatus[p.month] = "RELEASED" /\ cycleStatus[p.month + 1] = "NONE"
      /\ \A u \in Txns \ {t} : txn[u] = Idle
  BY <1>1, <1>4 DEF AdvancesInv, RequestOK, RolloverOK
<1>6. due \in SUBSET Advances /\ advance \in [Advances -> AdvanceRecord]
      /\ \A a \in due : advance[a].status = "ACTIVE"
  BY <1>2 DEF AdvancesInv, Typed
<1>7. /\ q \in Requesting /\ q.kind = "rollover" /\ q.month = p.month /\ q.pc = "commit"
      /\ q.due = due /\ q.rows = advance
  BY <1>3, <1>4, <1>6 DEF Requesting
<1>8. txn'[t] = q /\ \A u \in Txns \ {t} : txn'[u] = Idle
  BY <1>4, <1>5 DEF AdvancesInv, Typed
<1>9. RolloverOK(t)'
  BY <1>4, <1>5, <1>6, <1>7, <1>8 DEF RolloverOK
<1>10. RequestOK(t)'
  BY <1>7, <1>8, <1>9 DEF RequestOK, ChangeOK, CreateOK, ReleaseOK, Guarded
<1> QED
  BY <1>1, <1>4, <1>7, <1>10, QuietStep, NoOtherRollover

(* A request that ends without a trace leaves the rows and the others alone. *)
LEMMA Aborted ==
  ASSUME AdvancesInv, NEW t \in Txns, Abort(t)
  PROVE  AdvancesInv'
<1>1. /\ txn' = [txn EXCEPT ![t] = Idle] /\ UNCHANGED <<advance, entry, cycleStatus, departed>>
      /\ txn[t] # Idle
  BY DEF Abort, Ended
<1>2. \A u \in Txns \ {t} : txn[u].kind # "rollover"
  BY <1>1, IdleRequest DEF AdvancesInv, RequestOK, RolloverOK
<1>3. RequestOK(t)'
  BY <1>1, IdleRequest, IdleOK DEF AdvancesInv, Typed
<1> QED
  BY <1>1, <1>2, <1>3, IdleRequest, QuietStep

-----------------------------------------------------------------------------
(* The steps that link no entry to an advance. *)

LinksShrink ==
    \A c \in Months, e \in Employees, y \in Types, a \in Advances :
        entry'[c][e].link[y] = a =>
            /\ entry[c][e].link[y] = a /\ entry'[c][e].deduction[y] = entry[c][e].deduction[y]
            /\ entry'[c][e].outcome = "OPEN" => entry[c][e].outcome = "OPEN"
(* What it deducts may change for an advance that stays open. *)
LinksStay ==
    \A c \in Months, e \in Employees, y \in Types, a \in Advances :
        entry'[c][e].link[y] = a =>
            /\ entry[c][e].link[y] = a
            /\ entry'[c][e].deduction[y] = entry[c][e].deduction[y] \/ Open(advance'[a])
            /\ entry'[c][e].outcome = "OPEN" => entry[c][e].outcome = "OPEN"
(* No month begins or is archived, and the months not begun stay empty. *)
SameMonths ==
    /\ \A c \in Months : /\ Current(c)' <=> Current(c)
                         /\ cycleStatus'[c] = "NONE" <=> cycleStatus[c] = "NONE"
    /\ \A c \in Months, e \in Employees : cycleStatus[c] = "NONE" => entry'[c][e] = entry[c][e]
(* No advance is made or opened again. *)
NoneOpened ==
    \A a \in Advances : /\ advance[a].status = "NONE" => advance'[a].status = "NONE"
                        /\ Open(advance'[a]) => Open(advance[a])
(* What closes is not deducted for in the current month. *)
ClosedCarriesNothing ==
    \A c \in Months, e \in Employees, y \in Types, a \in Advances :
        /\ Open(advance[a]) /\ ~Open(advance'[a]) /\ Current(c)
        /\ entry'[c][e].link[y] = a /\ entry'[c][e].outcome = "OPEN"
        => entry'[c][e].deduction[y] = 0
Balanced(a) == advance[a].outstanding + SumFunctionOnSet(Deductions(a), Months) <= advance[a].total

(* An advance that is left as it was stays within its total. *)
LEMMA BalanceKept ==
  ASSUME AdvancesInv, Typed', NEW a \in Advances, Made(advance[a]),
         \A c \in Months, e \in Employees, y \in Types :
            entry'[c][e].link[y] = a =>
               entry[c][e].link[y] = a /\ entry'[c][e].deduction[y] = entry[c][e].deduction[y],
         SameAdvance(advance'[a], advance[a]),
         advance'[a].outstanding = advance[a].outstanding, advance'[a].total = advance[a].total
  PROVE  Balanced(a)'
<1>1. PICK s, z : s = SumFunctionOnSet(Deductions(a), Months) /\ z = SumFunctionOnSet(Deductions(a), Months)'
  OBVIOUS
<1>2. z <= s /\ s \in Nat /\ z \in Nat
  <2>1. advance'[a].employee = advance[a].employee /\ advance'[a].type = advance[a].type
    BY DEF SameAdvance
  <2>2. Typed
    BY DEF AdvancesInv
  <2> QED
    BY <1>1, <2>1, <2>2, DeductionsShrink
<1>3. PICK o, n : o = advance[a].outstanding /\ n = advance[a].total
  OBVIOUS
<1>4. o \in Nat /\ n \in Nat
  BY <1>3 DEF AdvancesInv, Typed, AdvanceRecord
<1>5. o + s <= n
  BY <1>1, <1>3 DEF AdvancesInv, RowsOK, BalancesOK, Made
<1>6. o + z <= n
  BY <1>2, <1>4, <1>5
<1> QED
  BY <1>1, <1>3, <1>6 DEF Balanced

(* A step that links no entry to an advance, begins no month and opens no advance keeps *)
(* the rows when it keeps the balances.                                                 *)
LEMMA RowsKept ==
  ASSUME AdvancesInv, Typed', LinksStay, AdvancesKept, SameMonths, NoneOpened, ClosedCarriesNothing,
         \A a \in Advances : Made(advance[a]) => Balanced(a)'
  PROVE  RowsOK'
<1>1. MonthsOK'
  <2>1. \A c, d \in Months : Current(c)' /\ Current(d)' => c = d
    BY DEF AdvancesInv, RowsOK, MonthsOK, SameMonths
  <2>2. \A c \in Months, e \in Employees : cycleStatus'[c] = "NONE" =>
          entry'[c][e].outcome = "NONE" /\ \A y \in Types : entry'[c][e].link[y] = None
    BY DEF AdvancesInv, RowsOK, MonthsOK, SameMonths
  <2> QED
    BY <2>1, <2>2 DEF MonthsOK, Current
<1>2. LinksOK'
  <2>1. SUFFICES ASSUME NEW c \in Months, NEW e \in Employees, NEW y \in Types, NEW a \in Advances,
                        entry'[c][e].link[y] = a
        PROVE  /\ Made(advance'[a]) /\ advance'[a].employee = e /\ advance'[a].type = y
               /\ entry'[c][e].outcome = "OPEN" /\ Current(c)' /\ entry'[c][e].deduction[y] > 0
                     => Open(advance'[a])
    BY DEF LinksOK, Current
  <2>2. /\ entry[c][e].link[y] = a
        /\ entry'[c][e].deduction[y] = entry[c][e].deduction[y] \/ Open(advance'[a])
        /\ entry'[c][e].outcome = "OPEN" => entry[c][e].outcome = "OPEN"
    BY <2>1 DEF LinksStay
  <2>3. /\ Made(advance[a]) /\ advance[a].employee = e /\ advance[a].type = y
        /\ entry[c][e].outcome = "OPEN" /\ Current(c) /\ entry[c][e].deduction[y] > 0
                     => Open(advance[a])
    BY <2>2 DEF AdvancesInv, RowsOK, LinksOK
  <2>4. Made(advance'[a]) /\ advance'[a].employee = e /\ advance'[a].type = y
    BY <2>3 DEF AdvancesKept, SameAdvance
  <2>5. ASSUME entry'[c][e].outcome = "OPEN", Current(c)', entry'[c][e].deduction[y] > 0, ~Open(advance'[a])
        PROVE FALSE
    <3>1. Current(c)
      BY <2>5 DEF SameMonths
    <3>2. Open(advance[a])
      BY <2>2, <2>3, <2>5, <3>1
    <3>3. entry'[c][e].deduction[y] = 0
      BY <2>1, <2>5, <3>1, <3>2 DEF ClosedCarriesNothing
    <3> QED
      BY <2>5, <3>3
  <2> QED
    BY <2>4, <2>5
<1>3. BalancesOK'
  <2>1. OnePerType(advance')
    <3>1. SUFFICES ASSUME NEW a \in Advances, NEW b \in Advances, Open(advance'[a]), Open(advance'[b]), a # b
          PROVE  <<advance'[a].employee, advance'[a].type>> # <<advance'[b].employee, advance'[b].type>>
      BY DEF OnePerType
    <3>2. Open(advance[a]) /\ Open(advance[b])
      BY <3>1 DEF NoneOpened
    <3>3. Made(advance[a]) /\ Made(advance[b])
      BY <3>2 DEF AdvancesInv, RowsOK, BalancesOK, Open
    <3>4. SameAdvance(advance'[a], advance[a]) /\ SameAdvance(advance'[b], advance[b])
      BY <3>3 DEF AdvancesKept
    <3>5. <<advance[a].employee, advance[a].type>> # <<advance[b].employee, advance[b].type>>
      BY <3>1, <3>2 DEF AdvancesInv, RowsOK, BalancesOK, OnePerType
    <3> QED
      BY <3>4, <3>5 DEF SameAdvance
  <2>2. ASSUME NEW a \in Advances, advance'[a].status # "NONE"
        PROVE  Made(advance'[a]) /\ Balanced(a)'
    <3>1. advance[a].status # "NONE"
      BY <2>2 DEF NoneOpened
    <3>2. Made(advance[a])
      BY <3>1 DEF AdvancesInv, RowsOK, BalancesOK
    <3> QED
      BY <3>2 DEF AdvancesKept
  <2> QED
    BY <2>1, <2>2 DEF BalancesOK, Balanced, OnePerType
<1> QED
  BY <1>1, <1>2, <1>3 DEF RowsOK

(* A write of one entry. *)
LEMMA OneEntry ==
  ASSUME Typed, NEW slot \in Slots, NEW new \in EntryRecord,
         entry' = [entry EXCEPT ![slot[1]][slot[2]] = new]
  PROVE  /\ entry' \in [Months -> [Employees -> EntryRecord]]
         /\ slot[1] \in Months /\ slot[2] \in Employees
         /\ entry'[slot[1]][slot[2]] = new
         /\ \A c \in Months, e \in Employees : <<c, e>> # slot => entry'[c][e] = entry[c][e]
<1>1. PICK m \in Months, x \in Employees : slot = <<m, x>>
  BY DEF Slots
<1>2. entry' = [entry EXCEPT ![m][x] = new] /\ entry \in [Months -> [Employees -> EntryRecord]]
  BY <1>1 DEF Typed
<1>3. entry' \in [Months -> [Employees -> EntryRecord]] /\ entry'[m][x] = new
  <2>1. PICK line : line = [entry[m] EXCEPT ![x] = new]
    OBVIOUS
  <2>2. entry[m] \in [Employees -> EntryRecord]
    BY <1>2
  <2>3. line \in [Employees -> EntryRecord] /\ line[x] = new
    BY <2>1, <2>2, Zenon
  <2>4. entry' = [entry EXCEPT ![m] = line]
    BY <1>2, <2>1, Zenon
  <2> QED
    BY <1>2, <2>3, <2>4, Zenon
<1>4. ASSUME NEW c \in Months, NEW e \in Employees, <<c, e>> # slot
      PROVE  entry'[c][e] = entry[c][e]
  <2>1. c # m \/ e # x
    BY <1>1, <1>4
  <2> QED
    BY <1>2, <2>1
<1> QED
  BY <1>1, <1>3, <1>4

(* The office's steps leave the advances alone. *)
LEMMA OfficeStep ==
  ASSUME AdvancesInv, Typed', UNCHANGED advance, LinksShrink, SameMonths,
         \A c \in Months : cycleStatus[c] = "DRAFT" \/ cycleStatus'[c] = cycleStatus[c],
         \A u \in Txns : Held(txn'[u], txn[u]) /\ LineKept(u) /\ (txn[u] = Idle => txn'[u] = Idle)
  PROVE  AdvancesInv'
<1>1. AdvancesKept /\ NoneOpened /\ ClosedCarriesNothing /\ LinksStay
  BY DEF AdvancesKept, NoneOpened, ClosedCarriesNothing, SameAdvance, LinksStay, LinksShrink
<1>2. ASSUME NEW a \in Advances, Made(advance[a])  PROVE Balanced(a)'
  BY <1>2, BalanceKept DEF SameAdvance, LinksShrink
<1>3. RowsOK'
  BY <1>1, <1>2, RowsKept
<1>4. ASSUME NEW u \in Txns  PROVE Spares(u)
  <2>1. MonthsKept /\ NoNewLinks
    BY DEF MonthsKept, NoNewLinks, SameMonths, LinksShrink
  <2>2. RolloverKept(u)
    <3>1. SUFFICES ASSUME txn[u].kind = "rollover"
          PROVE  /\ cycleStatus'[txn[u].month] = cycleStatus[txn[u].month]
                 /\ cycleStatus'[txn[u].month + 1] = cycleStatus[txn[u].month + 1]
      BY DEF RolloverKept
    <3>2. /\ txn[u].month \in Months /\ txn[u].month + 1 \in Months
          /\ cycleStatus[txn[u].month] = "RELEASED" /\ cycleStatus[txn[u].month + 1] = "NONE"
      BY <3>1 DEF AdvancesInv, RequestOK, RolloverOK
    <3> QED
      BY <3>2
  <2> QED
    BY <1>1, <2>1, <2>2 DEF Spares
<1> QED
  BY <1>3, <1>4, InvariantKept

(* Finalizing a cycle leaves it the current month. *)
LEMMA Finalized ==
  ASSUME AdvancesInv, NEW m \in Months, Finalize(m)
  PROVE  AdvancesInv'
<1>1. /\ cycleStatus[m] = "DRAFT" /\ cycleStatus' = [cycleStatus EXCEPT ![m] = "RELEASED"]
      /\ UNCHANGED <<advance, entry, departed, txn>>
  BY DEF Finalize
<1>2. cycleStatus \in [Months -> {"NONE", "DRAFT", "RELEASED", "ARCHIVED"}]
  BY DEF AdvancesInv, Typed
<1>3. cycleStatus'[m] = "RELEASED" /\ \A c \in Months : c # m => cycleStatus'[c] = cycleStatus[c]
  BY <1>1, <1>2
<1>4. Typed'
  BY <1>1, <1>2 DEF AdvancesInv, Typed
<1>5. SameMonths
  BY <1>1, <1>3 DEF SameMonths, Current
<1>6. LinksShrink
  BY <1>1 DEF LinksShrink
<1>7. \A c \in Months : cycleStatus[c] = "DRAFT" \/ cycleStatus'[c] = cycleStatus[c]
  BY <1>1, <1>3
<1>8. \A u \in Txns : Held(txn'[u], txn[u]) /\ LineKept(u) /\ (txn[u] = Idle => txn'[u] = Idle)
  BY <1>1 DEF Held, LineKept, SameLine, At
<1> QED
  BY <1>1, <1>4, <1>5, <1>6, <1>7, <1>8, OfficeStep

(* An entry that is written links no other advance, and whoever read it knows. *)
LEMMA EntryWritten ==
  ASSUME AdvancesInv, NEW slot \in Slots, Editable(slot), NEW new \in EntryRecord,
         entry' = [entry EXCEPT ![slot[1]][slot[2]] = new],
         UNCHANGED <<advance, cycleStatus, departed>>,
         \A y \in Types : new.link[y] = None \/ (new.link[y] = At(slot).link[y] /\ new.deduction[y] = At(slot).deduction[y]),
         txn' \in [Txns -> Requesting],
         \A u \in Txns : /\ Held(txn'[u], txn[u])
                         /\ txn'[u].valid /\ txn'[u].kind \in Guarded => txn'[u].at # slot
                         /\ txn[u] = Idle => txn'[u] = Idle
  PROVE  AdvancesInv'
<1>1. Typed
  BY DEF AdvancesInv
<1>2. /\ entry' \in [Months -> [Employees -> EntryRecord]]
      /\ slot[1] \in Months /\ slot[2] \in Employees
      /\ entry'[slot[1]][slot[2]] = new
      /\ \A c \in Months, e \in Employees : <<c, e>> # slot => entry'[c][e] = entry[c][e]
  BY <1>1, OneEntry
<1>3. Typed'
  BY <1>1, <1>2 DEF Typed
<1>4. entry[slot[1]][slot[2]].outcome = "OPEN"
  BY DEF Editable, At
<1>5. LinksShrink
  <2>1. SUFFICES ASSUME NEW c \in Months, NEW e \in Employees, NEW y \in Types, NEW a \in Advances,
                        entry'[c][e].link[y] = a
        PROVE  /\ entry[c][e].link[y] = a /\ entry'[c][e].deduction[y] = entry[c][e].deduction[y]
               /\ entry'[c][e].outcome = "OPEN" => entry[c][e].outcome = "OPEN"
    BY DEF LinksShrink
  <2>2. a # None
    BY NoneAssumption
  <2>3. CASE <<c, e>> = slot
    <3>1. slot[1] = c /\ slot[2] = e
      BY <2>3
    <3> QED
      BY <1>2, <1>4, <2>1, <2>2, <3>1 DEF At
  <2>4. CASE <<c, e>> # slot
    BY <1>2, <2>1, <2>4
  <2> QED
    BY <2>3, <2>4
<1>6. SameMonths
  <2>1. cycleStatus[slot[1]] # "NONE"
    BY <1>2, <1>4 DEF AdvancesInv, RowsOK, MonthsOK, Typed, EntryRecord
  <2>2. ASSUME NEW c \in Months, NEW e \in Employees, cycleStatus[c] = "NONE"
        PROVE  entry'[c][e] = entry[c][e]
    <3>1. <<c, e>> # slot
      BY <2>1, <2>2
    <3> QED
      BY <1>2, <3>1
  <2> QED
    BY <2>2 DEF SameMonths, Current
<1>7. ASSUME NEW u \in Txns  PROVE LineKept(u)
  <2>1. SUFFICES ASSUME txn[u].kind \in Guarded, txn'[u].valid, txn[u].at \in Slots
        PROVE  SameLine(At(txn[u].at)', At(txn[u].at))
    BY DEF LineKept
  <2>2. txn[u].at # slot /\ txn'[u].at = txn[u].at
    BY <2>1 DEF Held
  <2>3. PICK m \in Months, x \in Employees : txn[u].at = <<m, x>>
    BY <2>1 DEF Slots
  <2>4. entry'[m][x] = entry[m][x]
    BY <1>2, <2>2, <2>3
  <2> QED
    BY <2>2, <2>3, <2>4 DEF SameLine, At
<1> QED
  BY <1>3, <1>5, <1>6, <1>7, OfficeStep

(* The hold flag says nothing of the advances; it bumps the version. *)
LEMMA HoldToggled ==
  ASSUME AdvancesInv, NEW slot \in Slots, ToggleHold(slot)
  PROVE  AdvancesInv'
<1>1. PICK line, new : line = At(slot) /\ new = [line EXCEPT !.hold = ~line.hold]
  OBVIOUS
<1>2. line \in EntryRecord
  BY <1>1 DEF AdvancesInv, Typed, Slots, At
<1>3. new \in EntryRecord /\ new.link = line.link /\ new.deduction = line.deduction
  BY <1>1, <1>2 DEF EntryRecord
<1>4. /\ entry' = [entry EXCEPT ![slot[1]][slot[2]] = new] /\ UNCHANGED <<advance, cycleStatus, departed>>
      /\ Editable(slot) /\ txn' = Bumped({slot}, txn)
  BY <1>1 DEF ToggleHold, At
<1>5. txn \in [Txns -> Requesting]
  BY DEF AdvancesInv, Typed
<1>6. /\ txn' \in [Txns -> Requesting]
      /\ \A u \in Txns : /\ Held(txn'[u], txn[u])
                         /\ txn'[u].valid /\ txn'[u].kind \in Guarded => txn'[u].at # slot
                         /\ txn[u] = Idle => txn'[u] = Idle
  BY <1>4, <1>5, BumpedRequests
<1>7. \A y \in Types : new.link[y] = None \/ (new.link[y] = At(slot).link[y] /\ new.deduction[y] = At(slot).deduction[y])
  BY <1>1, <1>3
<1> QED
  BY <1>3, <1>4, <1>6, <1>7, EntryWritten, Zenon

(* A deduction is typed where no advance is linked. *)
LEMMA DeductionTyped ==
  ASSUME AdvancesInv, NEW slot \in Slots, NEW x \in Types, NEW amount \in ManualAmounts,
         TypeDeduction(slot, x, amount)
  PROVE  AdvancesInv'
<1>1. PICK line, new : line = At(slot) /\ new = [line EXCEPT !.deduction[x] = amount]
  OBVIOUS
<1>2. line \in EntryRecord
  BY <1>1 DEF AdvancesInv, Typed, Slots, At
<1>3. PICK given : given = [line.deduction EXCEPT ![x] = amount]
  OBVIOUS
<1>4. given \in [Types -> Nat] /\ \A y \in Types : y # x => given[y] = line.deduction[y]
  BY <1>2, <1>3, AmountsAssumption DEF EntryRecord
<1>5. new = [line EXCEPT !.deduction = given]
  BY <1>1, <1>3
<1>6. new \in EntryRecord /\ new.link = line.link /\ new.deduction = given
  BY <1>2, <1>4, <1>5 DEF EntryRecord
<1>7. /\ entry' = [entry EXCEPT ![slot[1]][slot[2]] = new] /\ UNCHANGED <<advance, cycleStatus, departed>>
      /\ Editable(slot) /\ txn' = Bumped({slot}, txn) /\ line.link[x] = None
  BY <1>1 DEF TypeDeduction, At
<1>8. txn \in [Txns -> Requesting]
  BY DEF AdvancesInv, Typed
<1>9. /\ txn' \in [Txns -> Requesting]
      /\ \A u \in Txns : /\ Held(txn'[u], txn[u])
                         /\ txn'[u].valid /\ txn'[u].kind \in Guarded => txn'[u].at # slot
                         /\ txn[u] = Idle => txn'[u] = Idle
  BY <1>7, <1>8, BumpedRequests
<1>10. \A y \in Types : new.link[y] = None \/ (new.link[y] = At(slot).link[y] /\ new.deduction[y] = At(slot).deduction[y])
  BY <1>1, <1>4, <1>6, <1>7
<1> QED
  BY <1>6, <1>7, <1>9, <1>10, EntryWritten, Zenon

(* Deleting an entry drops its links, and who read it cannot commit on it. *)
LEMMA EntryDeleted ==
  ASSUME AdvancesInv, NEW slot \in Slots, DeleteEntry(slot)
  PROVE  AdvancesInv'
<1>1. /\ entry' = [entry EXCEPT ![slot[1]][slot[2]] = NoEntry] /\ UNCHANGED <<advance, cycleStatus, departed>>
      /\ Editable(slot) /\ txn' = Deleted(slot, txn)
  BY DEF DeleteEntry
<1>2. txn \in [Txns -> Requesting]
  BY DEF AdvancesInv, Typed
<1>3. /\ txn' \in [Txns -> Requesting]
      /\ \A u \in Txns : /\ Held(txn'[u], txn[u])
                         /\ txn'[u].valid => txn'[u].at # slot
                         /\ txn[u] = Idle => txn'[u] = Idle
  BY <1>1, <1>2, DeletedRequests
<1>4. \A u \in Txns : /\ Held(txn'[u], txn[u])
                      /\ txn'[u].valid /\ txn'[u].kind \in Guarded => txn'[u].at # slot
                      /\ txn[u] = Idle => txn'[u] = Idle
  BY <1>3
<1>5. NoEntry \in EntryRecord /\ \A y \in Types :
         NoEntry.link[y] = None \/ (NoEntry.link[y] = At(slot).link[y] /\ NoEntry.deduction[y] = At(slot).deduction[y])
  BY EmptyRows
<1> QED
  BY <1>1, <1>3, <1>4, <1>5, EntryWritten, Zenon

(* A departure deletes the open entry of the draft cycle, which nobody who read it can   *)
(* commit on, or holds it.                                                               *)
LEMMA Departed ==
  ASSUME AdvancesInv, NEW e \in Employees, Leave(e)
  PROVE  \E gone :
           /\ \A c \in Months, x \in Employees :
                /\ entry'[c][x] \in EntryRecord
                /\ <<c, x>> \in gone => entry'[c][x] = NoEntry
                /\ <<c, x>> \notin gone => SameLine(entry'[c][x], entry[c][x])
                /\ cycleStatus[c] = "NONE" => entry'[c][x] = entry[c][x]
           /\ \A s, r \in gone : s = r
           /\ \A s \in gone : s \in Slots /\ At(s).outcome = "OPEN"
           /\ txn' \in [Txns -> Requesting]
           /\ \A u \in Txns : /\ Held(txn'[u], txn[u])
                              /\ txn'[u].valid => txn'[u].at \notin gone /\ Swept(txn[u]) \cap gone = {}
                              /\ txn[u] = Idle => txn'[u] = Idle
<1> DEFINE open     == {<<c, e>> : c \in Drafts} \cap {s \in Slots : At(s).outcome = "OPEN"}
           deferred == {s \in open : At(s).deferred}
<1>1. /\ departed' = departed \cup {e} /\ UNCHANGED <<advance, cycleStatus>>
      /\ entry' = [c \in Months |-> [x \in Employees |->
                     CASE <<c, x>> \in deferred        -> [entry[c][x] EXCEPT !.hold = TRUE]
                       [] <<c, x>> \in open \ deferred -> NoEntry
                       [] OTHER                        -> entry[c][x]]]
      /\ txn' = IF open = {} THEN txn
                ELSE LET slot == CHOOSE s \in open : TRUE IN
                     IF slot \notin deferred THEN Deleted(slot, txn)
                     ELSE IF At(slot).hold THEN txn ELSE Bumped({slot}, txn)
  BY DEF Leave
<1>2. \A c \in Months, x \in Employees :
        entry'[c][x] = CASE <<c, x>> \in deferred        -> [entry[c][x] EXCEPT !.hold = TRUE]
                         [] <<c, x>> \in open \ deferred -> NoEntry
                         [] OTHER                        -> entry[c][x]
  BY <1>1
<1>3. \A s \in open : /\ s \in Slots /\ At(s).outcome = "OPEN" /\ cycleStatus[s[1]] = "DRAFT"
                      /\ s[1] \in Months /\ s[2] = e /\ s = <<s[1], s[2]>>
  BY DEF Drafts
<1>4. \A s, r \in open : s = r
  <2>1. \A c, d \in Months : Current(c) /\ Current(d) => c = d
    BY DEF AdvancesInv, RowsOK, MonthsOK
  <2> HIDE DEF open
  <2> QED
    BY <1>3, <2>1 DEF Current
<1>5. \A c \in Months, x \in Employees : entry[c][x] \in EntryRecord
  BY DEF AdvancesInv, Typed
<1> HIDE DEF open
<1>6. ASSUME NEW c \in Months, NEW x \in Employees
      PROVE  /\ entry'[c][x] \in EntryRecord
             /\ <<c, x>> \in deferred => SameLine(entry'[c][x], entry[c][x])
             /\ <<c, x>> \in open \ deferred => entry'[c][x] = NoEntry
             /\ <<c, x>> \notin open => entry'[c][x] = entry[c][x]
  <2>1. PICK p : p = entry[c][x]
    OBVIOUS
  <2>2. p \in EntryRecord
    BY <1>5, <2>1
  <2>3. CASE <<c, x>> \in deferred
    <3>1. entry'[c][x] = [p EXCEPT !.hold = TRUE] /\ <<c, x>> \in open
      BY <1>2, <2>1, <2>3
    <3>2. [p EXCEPT !.hold = TRUE] \in EntryRecord /\ SameLine([p EXCEPT !.hold = TRUE], p)
      BY <2>2 DEF EntryRecord, SameLine
    <3> QED
      BY <2>1, <2>3, <3>1, <3>2
  <2>4. CASE <<c, x>> \in open \ deferred
    <3>1. entry'[c][x] = NoEntry
      BY <1>2, <2>4
    <3> QED
      BY <2>4, <3>1, EmptyRows
  <2>5. CASE <<c, x>> \notin open
    <3>1. <<c, x>> \notin deferred
      BY <2>5
    <3>2. entry'[c][x] = p
      BY <1>2, <2>1, <2>5, <3>1
    <3> QED
      BY <2>1, <2>2, <2>5, <3>1, <3>2
  <2> QED
    BY <2>3, <2>4, <2>5
<1>7. txn \in [Txns -> Requesting]
  BY DEF AdvancesInv, Typed
<1>8. /\ txn' \in [Txns -> Requesting]
      /\ \A u \in Txns : /\ Held(txn'[u], txn[u])
                         /\ txn'[u].valid => /\ txn'[u].at \notin open \ deferred
                                             /\ Swept(txn[u]) \cap (open \ deferred) = {}
                         /\ txn[u] = Idle => txn'[u] = Idle
  <2>1. CASE txn' = txn /\ open \ deferred = {}
    BY <1>7, <2>1 DEF Held
  <2>2. ASSUME NEW slot \in open, txn' = Deleted(slot, txn)
        PROVE  <1>8
    <3>1. /\ txn' \in [Txns -> Requesting]
          /\ \A u \in Txns : /\ Held(txn'[u], txn[u])
                             /\ txn'[u].valid => txn'[u].at # slot /\ slot \notin Swept(txn[u])
                             /\ txn[u] = Idle => txn'[u] = Idle
      BY <1>7, <2>2, DeletedRequests
    <3> QED
      BY <1>4, <3>1
  <2>3. ASSUME NEW slot \in open, txn' = Bumped({slot}, txn), open \ deferred = {}
        PROVE  <1>8
    <3>1. /\ txn' \in [Txns -> Requesting]
          /\ \A u \in Txns : Held(txn'[u], txn[u]) /\ (txn[u] = Idle => txn'[u] = Idle)
      BY <1>7, <2>3, BumpedRequests
    <3> QED
      BY <2>3, <3>1
  <2>4. CASE open = {}
    BY <1>1, <2>1, <2>4
  <2>5. CASE open # {}
    <3>1. PICK slot \in open : slot = CHOOSE s \in open : TRUE
      BY <2>5
    <3>2. CASE slot \notin deferred
      BY <1>1, <2>2, <2>5, <3>1, <3>2
    <3>3. CASE slot \in deferred
      <4>1. open \ deferred = {}
        BY <1>4, <3>3
      <4> QED
        BY <1>1, <2>1, <2>3, <2>5, <3>1, <3>3, <4>1
    <3> QED
      BY <3>2, <3>3
  <2> QED
    BY <2>4, <2>5
<1>9. ASSUME NEW c \in Months, NEW x \in Employees
      PROVE  /\ entry'[c][x] \in EntryRecord
             /\ <<c, x>> \in open \ deferred => entry'[c][x] = NoEntry
             /\ <<c, x>> \notin open \ deferred => SameLine(entry'[c][x], entry[c][x])
             /\ cycleStatus[c] = "NONE" => entry'[c][x] = entry[c][x]
  <2>1. cycleStatus[c] = "NONE" => <<c, x>> \notin open
    BY <1>3
  <2>2. <<c, x>> \notin open \ deferred => SameLine(entry'[c][x], entry[c][x])
    BY <1>6 DEF SameLine
  <2> QED
    BY <1>6, <2>1, <2>2
<1> HIDE DEF deferred
<1>10. /\ \A s, r \in open \ deferred : s = r
       /\ \A s \in open \ deferred : s \in Slots /\ At(s).outcome = "OPEN"
  BY <1>3, <1>4
<1> WITNESS open \ deferred
<1> QED
  BY <1>8, <1>9, <1>10

(* A departure leaves the advances as they are. *)
LEMMA EmployeeLeft ==
  ASSUME AdvancesInv, NEW e \in Employees, Leave(e)
  PROVE  AdvancesInv'
<1>1. departed' = departed \cup {e} /\ UNCHANGED <<advance, cycleStatus>>
  BY DEF Leave
<1>2. PICK gone :
         /\ \A c \in Months, x \in Employees :
              /\ entry'[c][x] \in EntryRecord
              /\ <<c, x>> \in gone => entry'[c][x] = NoEntry
              /\ <<c, x>> \notin gone => SameLine(entry'[c][x], entry[c][x])
              /\ cycleStatus[c] = "NONE" => entry'[c][x] = entry[c][x]
         /\ txn' \in [Txns -> Requesting]
         /\ \A u \in Txns : /\ Held(txn'[u], txn[u])
                            /\ txn'[u].valid => txn'[u].at \notin gone
                            /\ txn[u] = Idle => txn'[u] = Idle
  BY Departed
<1>3. Typed'
  <2>1. entry' \in [Months -> [Employees -> EntryRecord]]
    <3>1. entry' = [c \in Months |-> [x \in Employees |-> entry'[c][x]]]
      BY DEF Leave
    <3> QED
      BY <1>2, <3>1
  <2>2. departed' \subseteq Employees
    BY <1>1 DEF AdvancesInv, Typed
  <2> QED
    BY <1>1, <1>2, <2>1, <2>2 DEF AdvancesInv, Typed
<1>4. \A y \in Types : NoEntry.link[y] = None
  BY EmptyRows
<1>5. LinksShrink
  <2>1. SUFFICES ASSUME NEW c \in Months, NEW x \in Employees, NEW y \in Types, NEW a \in Advances,
                        entry'[c][x].link[y] = a
        PROVE  /\ entry[c][x].link[y] = a /\ entry'[c][x].deduction[y] = entry[c][x].deduction[y]
               /\ entry'[c][x].outcome = "OPEN" => entry[c][x].outcome = "OPEN"
    BY DEF LinksShrink
  <2>2. <<c, x>> \notin gone
    BY <1>2, <1>4, <2>1, NoneAssumption
  <2> QED
    BY <1>2, <2>1, <2>2 DEF SameLine
<1>6. SameMonths
  BY <1>1, <1>2 DEF SameMonths, Current
<1>7. ASSUME NEW u \in Txns  PROVE LineKept(u)
  <2>1. SUFFICES ASSUME txn'[u].valid, txn[u].at \in Slots
        PROVE  SameLine(At(txn[u].at)', At(txn[u].at))
    BY DEF LineKept
  <2>2. PICK m \in Months, x \in Employees : txn[u].at = <<m, x>>
    BY <2>1 DEF Slots
  <2>3. <<m, x>> \notin gone
    BY <1>2, <2>1, <2>2 DEF Held
  <2>4. SameLine(entry'[m][x], entry[m][x])
    BY <1>2, <2>3
  <2>5. txn'[u].at = txn[u].at
    BY <1>2 DEF Held
  <2> QED
    BY <2>2, <2>4, <2>5 DEF At
<1> QED
  BY <1>1, <1>2, <1>3, <1>5, <1>6, <1>7, OfficeStep

(* An employee who returns gets an entry that carries nothing. *)
LEMMA EmployeeReturned ==
  ASSUME AdvancesInv, NEW e \in Employees, Return(e)
  PROVE  AdvancesInv'
<1>1. /\ departed' = departed \ {e} /\ UNCHANGED <<advance, cycleStatus, txn>>
      /\ entry' = [c \in Months |-> [x \in Employees |->
                   IF c \in Drafts /\ x = e /\ entry[c][x].outcome = "NONE" THEN FreshEntry ELSE entry[c][x]]]
  BY DEF Return
<1>2. \A c \in Months, x \in Employees :
         \/ entry'[c][x] = entry[c][x]
         \/ entry'[c][x] = FreshEntry /\ entry[c][x].outcome = "NONE" /\ cycleStatus[c] = "DRAFT"
  BY <1>1 DEF Drafts
<1>3. /\ FreshEntry \in EntryRecord /\ \A y \in Types : FreshEntry.link[y] = None
  BY EmptyRows
<1>4. \A c \in Months, x \in Employees : entry[c][x] \in EntryRecord
  BY DEF AdvancesInv, Typed
<1>5. Typed'
  <2>1. entry' \in [Months -> [Employees -> EntryRecord]]
    <3>1. \A c \in Months, x \in Employees : entry'[c][x] \in EntryRecord
      BY <1>2, <1>3, <1>4
    <3>2. entry' = [c \in Months |-> [x \in Employees |-> entry'[c][x]]]
      BY <1>1
    <3> QED
      BY <3>1, <3>2
  <2>2. departed' \subseteq Employees
    BY <1>1 DEF AdvancesInv, Typed
  <2> QED
    BY <1>1, <2>1, <2>2 DEF AdvancesInv, Typed
<1>6. LinksShrink
  <2>1. SUFFICES ASSUME NEW c \in Months, NEW x \in Employees, NEW y \in Types, NEW a \in Advances,
                        entry'[c][x].link[y] = a
        PROVE  entry'[c][x] = entry[c][x]
    BY DEF LinksShrink
  <2>2. a # None
    BY NoneAssumption
  <2> QED
    BY <1>2, <1>3, <2>1, <2>2
<1>7. SameMonths
  <2>1. \A c \in Months, x \in Employees : cycleStatus[c] = "NONE" => entry'[c][x] = entry[c][x]
    BY <1>2
  <2> QED
    BY <1>1, <2>1 DEF SameMonths, Current
<1>8. ASSUME NEW u \in Txns  PROVE Held(txn'[u], txn[u]) /\ LineKept(u) /\ (txn[u] = Idle => txn'[u] = Idle)
  <2>1. Held(txn'[u], txn[u]) /\ (txn[u] = Idle => txn'[u] = Idle)
    BY <1>1 DEF Held
  <2>2. SUFFICES ASSUME txn[u].kind \in Guarded, txn[u].pc = "commit", txn'[u].valid, txn[u].at \in Slots
        PROVE  SameLine(At(txn[u].at)', At(txn[u].at))
    BY <2>1 DEF LineKept
  <2>3. PICK m \in Months, x \in Employees : txn[u].at = <<m, x>>
    BY <2>2 DEF Slots
  <2>4. txn[u].at # NoSlot
    BY <2>3 DEF NoSlot, Months
  <2>5. At(txn[u].at).outcome = "OPEN"
    BY <1>1, <2>2, <2>4 DEF AdvancesInv, RequestOK, ChangeOK
  <2>6. entry[m][x].outcome = "OPEN"
    BY <2>3, <2>5 DEF At
  <2>7. entry'[m][x] = entry[m][x]
    BY <1>2, <2>6
  <2> QED
    BY <1>1, <2>3, <2>7 DEF SameLine, At
<1> QED
  BY <1>1, <1>5, <1>6, <1>7, <1>8, OfficeStep

-----------------------------------------------------------------------------
(* The steps that commit. *)

(* A request that commits is over; the others keep what they hold. *)
LEMMA EndedRequests ==
  ASSUME AdvancesInv, NEW t \in Txns, txn[t].kind # "none", NEW slots,
         txn' = Ended(t) \/ txn' = Bumped(slots, Ended(t))
  PROVE  /\ txn' \in [Txns -> Requesting]
         /\ txn'[t].kind = "none"
         /\ \A u \in Txns \ {t} : /\ Held(txn'[u], txn[u]) /\ txn[u].kind # "rollover"
                                  /\ /\ txn' = Bumped(slots, Ended(t))
                                     /\ txn'[u].valid /\ txn'[u].kind \in Guarded
                                     => txn'[u].at \notin slots
<1>1. PICK ended : ended = Ended(t)
  OBVIOUS
<1>2. ended \in [Txns -> Requesting] /\ ended[t] = Idle /\ \A u \in Txns \ {t} : ended[u] = txn[u]
  BY <1>1, IdleRequest DEF Ended, AdvancesInv, Typed
<1>3. \A u \in Txns \ {t} : txn[u].kind # "rollover"
  BY NoOtherRollover
<1>4. CASE txn' = Bumped(slots, ended)
  <2>1. /\ txn' \in [Txns -> Requesting]
        /\ \A u \in Txns : /\ Held(txn'[u], ended[u])
                           /\ txn'[u].valid /\ txn'[u].kind \in Guarded => txn'[u].at \notin slots
    BY <1>2, <1>4, BumpedRequests
  <2>2. txn'[t].kind = "none"
    BY <1>2, <2>1, IdleRequest DEF Held
  <2> QED
    BY <1>2, <1>3, <2>1, <2>2
<1>5. CASE txn' = ended /\ txn' # Bumped(slots, ended)
  BY <1>1, <1>2, <1>3, <1>5, IdleRequest DEF Held
<1> QED
  BY <1>1, <1>4, <1>5

(* What a commit leaves of the rows decides. *)
LEMMA CommitStep ==
  ASSUME AdvancesInv, Typed', RowsOK', NEW t \in Txns, txn'[t].kind = "none",
         AdvancesKept, MonthsKept, NoNewLinks,
         \A u \in Txns \ {t} : Held(txn'[u], txn[u]) /\ txn[u].kind # "rollover" /\ LineKept(u)
  PROVE  AdvancesInv'
<1>1. RequestOK(t)'
  BY IdleOK
<1>2. \A u \in Txns \ {t} : Spares(u)
  BY DEF Spares, RolloverKept
<1> QED
  BY <1>1, <1>2, InvariantKept

(* The lines that others hold are not the one that is written. *)
LEMMA OtherLines ==
  ASSUME AdvancesInv, NEW slot \in Slots, NEW t \in Txns, NEW u \in Txns,
         \A c \in Months, e \in Employees : <<c, e>> # slot => entry'[c][e] = entry[c][e],
         Held(txn'[u], txn[u]),
         txn'[u].valid /\ txn'[u].kind \in Guarded => txn'[u].at \notin {slot}
  PROVE  LineKept(u)
<1>1. SUFFICES ASSUME txn[u].kind \in Guarded, txn'[u].valid, txn[u].at \in Slots
      PROVE  SameLine(At(txn[u].at)', At(txn[u].at))
  BY DEF LineKept
<1>2. txn[u].at # slot /\ txn'[u].at = txn[u].at
  BY <1>1 DEF Held
<1>3. PICK m \in Months, x \in Employees : txn[u].at = <<m, x>>
  BY <1>1 DEF Slots
<1>4. entry'[m][x] = entry[m][x]
  BY <1>2, <1>3
<1> QED
  BY <1>2, <1>3, <1>4 DEF SameLine, At

(* An advance has one entry in the current month at most: that of its employee. *)
LEMMA OneCarrier ==
  ASSUME AdvancesInv, NEW a \in Advances, NEW slot \in Slots, Current(slot[1]), slot[2] = advance[a].employee,
         NEW c \in Months, NEW e \in Employees, NEW y \in Types, entry[c][e].link[y] = a, Current(c)
  PROVE  slot = <<c, e>> /\ y = advance[a].type /\ At(slot) = entry[c][e]
<1>1. advance[a].employee = e /\ advance[a].type = y
  BY DEF AdvancesInv, RowsOK, LinksOK
<1>2. PICK m \in Months, x \in Employees : slot = <<m, x>>
  BY DEF Slots
<1>3. m = c
  BY <1>2 DEF AdvancesInv, RowsOK, MonthsOK
<1> QED
  BY <1>1, <1>2, <1>3 DEF At

(* A deduction is given back: a cancellation and a deferral of a deduction taken. *)
LEMMA GivenBack ==
  ASSUME AdvancesInv, NEW t \in Txns, txn[t].kind # "none",
         NEW a \in Advances, Made(advance[a]), NEW slot \in Slots,
         At(slot).outcome = "OPEN", At(slot).link[advance[a].type] = a, Current(slot[1]),
         NEW new \in EntryRecord, new.outcome = "OPEN", new.link[advance[a].type] = None,
         \A x \in Types : x # advance[a].type =>
            new.link[x] = At(slot).link[x] /\ new.deduction[x] = At(slot).deduction[x],
         NEW final \in AdvanceRecord, final.status # "NONE", SameAdvance(final, advance[a]),
         final.total = advance[a].total,
         final.outstanding = advance[a].outstanding + At(slot).deduction[advance[a].type],
         Open(final) => Open(advance[a]),
         advance' = [advance EXCEPT ![a] = final],
         entry' = [entry EXCEPT ![slot[1]][slot[2]] = new],
         txn' = Bumped({slot}, Ended(t)),
         UNCHANGED <<cycleStatus, departed>>
  PROVE  AdvancesInv'
<1>1. Typed
  BY DEF AdvancesInv
<1>2. PICK m \in Months, w \in Employees, y \in Types : slot = <<m, w>> /\ y = advance[a].type
  BY DEF Slots, Made
<1>3. /\ entry' \in [Months -> [Employees -> EntryRecord]]
      /\ entry'[m][w] = new
      /\ \A c \in Months, e \in Employees : <<c, e>> # slot => entry'[c][e] = entry[c][e]
  <2>1. /\ entry' \in [Months -> [Employees -> EntryRecord]]
        /\ entry'[slot[1]][slot[2]] = new
        /\ \A c \in Months, e \in Employees : <<c, e>> # slot => entry'[c][e] = entry[c][e]
    BY <1>1, OneEntry
  <2>2. slot[1] = m /\ slot[2] = w
    BY <1>2
  <2> QED
    BY <2>1, <2>2
<1>4. /\ entry[m][w].outcome = "OPEN" /\ entry[m][w].link[y] = a /\ new.link[y] = None
      /\ \A x \in Types : x # y => new.link[x] = entry[m][w].link[x] /\ new.deduction[x] = entry[m][w].deduction[x]
      /\ final.outstanding = advance[a].outstanding + entry[m][w].deduction[y]
  BY <1>2 DEF At
<1>5. /\ txn' \in [Txns -> Requesting] /\ txn'[t].kind = "none"
      /\ \A u \in Txns \ {t} : /\ Held(txn'[u], txn[u]) /\ txn[u].kind # "rollover"
                               /\ txn'[u].valid /\ txn'[u].kind \in Guarded => txn'[u].at \notin {slot}
  BY EndedRequests
<1>6. /\ advance' \in [Advances -> AdvanceRecord] /\ advance'[a] = final
      /\ \A b \in Advances : b # a => advance'[b] = advance[b]
  BY <1>1 DEF Typed
<1>7. Typed'
  BY <1>1, <1>3, <1>5, <1>6, Zenon DEF Typed
<1>8. advance[a].employee = w
  BY <1>4 DEF AdvancesInv, RowsOK, LinksOK
<1>9. LinksShrink
  <2>1. SUFFICES ASSUME NEW c \in Months, NEW e \in Employees, NEW x \in Types, NEW b \in Advances,
                        entry'[c][e].link[x] = b
        PROVE  /\ entry[c][e].link[x] = b /\ entry'[c][e].deduction[x] = entry[c][e].deduction[x]
               /\ entry'[c][e].outcome = "OPEN" => entry[c][e].outcome = "OPEN"
    BY DEF LinksShrink
  <2>2. CASE c = m /\ e = w
    <3>1. x # y
      BY <1>3, <1>4, <2>1, <2>2, NoneAssumption
    <3> QED
      BY <1>3, <1>4, <2>1, <2>2, <3>1
  <2>3. CASE ~(c = m /\ e = w)
    <3>1. <<c, e>> # slot
      BY <1>2, <2>3
    <3> QED
      BY <1>3, <2>1, <3>1
  <2> QED
    BY <2>2, <2>3
<1>10. LinksStay
  BY <1>9 DEF LinksStay, LinksShrink
<1>11. AdvancesKept
  BY <1>6 DEF AdvancesKept, Made, SameAdvance
<1>12. SameMonths
  <2>1. cycleStatus[m] # "NONE"
    BY <1>2 DEF Current
  <2>2. ASSUME NEW c \in Months, NEW e \in Employees, cycleStatus[c] = "NONE"
        PROVE  entry'[c][e] = entry[c][e]
    <3>1. <<c, e>> # slot
      BY <1>2, <2>1, <2>2
    <3> QED
      BY <1>3, <3>1
  <2> QED
    BY <2>2 DEF SameMonths, Current
<1>13. NoneOpened
  BY <1>6 DEF NoneOpened, Made
<1>14. ClosedCarriesNothing
  <2>1. SUFFICES ASSUME NEW c \in Months, NEW e \in Employees, NEW x \in Types, NEW b \in Advances,
                        Open(advance[b]), ~Open(advance'[b]), Current(c), entry'[c][e].link[x] = b
        PROVE  FALSE
    BY DEF ClosedCarriesNothing
  <2>2. b = a
    BY <1>6, <2>1
  <2>3. entry[c][e].link[x] = a
    BY <1>9, <2>1, <2>2 DEF LinksShrink
  <2>4. slot[2] = advance[a].employee
    BY <1>2, <1>8
  <2>5. slot = <<c, e>> /\ x = y
    BY <1>2, <2>1, <2>3, <2>4, OneCarrier
  <2>6. c = m /\ e = w
    BY <1>2, <2>5
  <2> QED
    BY <1>3, <1>4, <2>1, <2>2, <2>5, <2>6, NoneAssumption
<1>15. Balanced(a)'
  <2>1. PICK r \in Nat : r = entry[m][w].deduction[y]
    BY <1>1 DEF Typed, EntryRecord
  <2>2. Deductions(a)[m] = r
    BY <1>2, <1>4, <1>8, <2>1 DEF Deductions
  <2>3. advance'[a].employee = w /\ advance'[a].type = y
    BY <1>2, <1>6, <1>8 DEF SameAdvance
  <2>4. (Deductions(a)')[m] = 0
    BY <1>3, <1>4, <2>3, NoneAssumption DEF Deductions
  <2>5. \A c \in Months, e \in Employees : c # m => entry'[c][e] = entry[c][e]
    BY <1>2, <1>3
  <2>6. PICK s, z : s = SumFunctionOnSet(Deductions(a), Months) /\ z = SumFunctionOnSet(Deductions(a), Months)'
    OBVIOUS
  <2>7. z = s - r + 0 /\ s \in Nat
    <3>1. advance'[a].employee = advance[a].employee /\ advance'[a].type = advance[a].type
      BY <1>2, <1>8, <2>3
    <3> QED
      BY <1>1, <1>7, <2>2, <2>4, <2>5, <2>6, <3>1, DeductionsChange
  <2>8. advance[a].outstanding + s <= advance[a].total
    BY <2>6 DEF AdvancesInv, RowsOK, BalancesOK, Made
  <2>9. advance[a].outstanding \in Nat /\ advance[a].total \in Nat
    BY <1>1 DEF Typed, AdvanceRecord
  <2>10. final.outstanding + z <= final.total
    BY <1>4, <2>1, <2>7, <2>8, <2>9
  <2> QED
    BY <1>6, <2>6, <2>10 DEF Balanced
<1>16. ASSUME NEW b \in Advances, Made(advance[b])  PROVE Balanced(b)'
  <2>1. CASE b = a
    BY <1>15, <2>1
  <2>2. CASE b # a
    <3>1. advance'[b] = advance[b]
      BY <1>6, <2>2
    <3>2. \A c \in Months, e \in Employees, x \in Types :
            entry'[c][e].link[x] = b =>
               entry[c][e].link[x] = b /\ entry'[c][e].deduction[x] = entry[c][e].deduction[x]
      BY <1>9 DEF LinksShrink
    <3> QED
      BY <1>7, <1>16, <3>1, <3>2, BalanceKept DEF SameAdvance
  <2> QED
    BY <2>1, <2>2
<1>17. RowsOK'
  BY <1>7, <1>10, <1>11, <1>12, <1>13, <1>14, <1>16, RowsKept
<1>18. MonthsKept /\ NoNewLinks
  BY <1>9, <1>12 DEF MonthsKept, NoNewLinks, SameMonths, LinksShrink
<1>19. \A u \in Txns \ {t} : LineKept(u)
  BY <1>3, <1>5, OtherLines
<1> QED
  BY <1>5, <1>7, <1>11, <1>17, <1>18, <1>19, CommitStep

(* Clearing the columns of one type leaves the others. *)
LEMMA ClearedLine ==
  ASSUME NEW line \in EntryRecord, NEW y \in Types, NEW new, new = Cleared(line, y)
  PROVE  /\ new \in EntryRecord /\ new.outcome = line.outcome /\ new.link[y] = None
         /\ new.withheld = line.withheld /\ new.of = line.of /\ new.stale = line.stale
         /\ \A x \in Types : x # y => new.link[x] = line.link[x] /\ new.deduction[x] = line.deduction[x]
<1>1. PICK link, deduction : link = [line.link EXCEPT ![y] = None] /\ deduction = [line.deduction EXCEPT ![y] = 0]
  OBVIOUS
<1>2. line.link \in [Types -> Advances \cup {None}] /\ line.deduction \in [Types -> Nat]
  BY DEF EntryRecord
<1>3. /\ link \in [Types -> Advances \cup {None}] /\ deduction \in [Types -> Nat] /\ link[y] = None
      /\ \A x \in Types : x # y => link[x] = line.link[x] /\ deduction[x] = line.deduction[x]
  BY <1>1, <1>2
<1>4. new = [line EXCEPT !.link = link, !.deduction = deduction]
  BY <1>1 DEF Cleared
<1>5. /\ new \in EntryRecord /\ new.outcome = line.outcome /\ new.link = link /\ new.deduction = deduction
      /\ new.withheld = line.withheld /\ new.of = line.of /\ new.stale = line.stale
  BY <1>3, <1>4, Zenon DEF EntryRecord
<1> QED
  BY <1>3, <1>5

(* Carrying an advance sets the columns of its type. *)
LEMMA CarryingLine ==
  ASSUME NEW line \in EntryRecord, NEW a \in Advances, NEW row, row.type \in Types, Due(row) \in Nat,
         NEW new, new = Carrying(line, a, row)
  PROVE  /\ new \in EntryRecord /\ new.outcome = line.outcome
         /\ new.withheld = line.withheld /\ new.of = line.of /\ new.stale = line.stale
         /\ new.link[row.type] = a /\ new.deduction[row.type] = Due(row)
         /\ \A x \in Types : x # row.type => new.link[x] = line.link[x] /\ new.deduction[x] = line.deduction[x]
<1>1. PICK y \in Types, d \in Nat : y = row.type /\ d = Due(row)
  OBVIOUS
<1>2. PICK link, deduction : link = [line.link EXCEPT ![y] = a] /\ deduction = [line.deduction EXCEPT ![y] = d]
  BY Zenon
<1>3. line.link \in [Types -> Advances \cup {None}] /\ line.deduction \in [Types -> Nat]
  BY DEF EntryRecord
<1>4. /\ link \in [Types -> Advances \cup {None}] /\ deduction \in [Types -> Nat]
      /\ link[y] = a /\ deduction[y] = d
      /\ \A x \in Types : x # y => link[x] = line.link[x] /\ deduction[x] = line.deduction[x]
  BY <1>2, <1>3
<1>5. new = [line EXCEPT !.link = link, !.deduction = deduction]
  BY <1>1, <1>2 DEF Carrying
<1>6. /\ new \in EntryRecord /\ new.outcome = line.outcome /\ new.link = link /\ new.deduction = deduction
      /\ new.withheld = line.withheld /\ new.of = line.of /\ new.stale = line.stale
  BY <1>4, <1>5, Zenon DEF EntryRecord
<1> QED
  BY <1>1, <1>4, <1>6

(* What a running request knows of the advance it changes, and of the deduction it     *)
(* reverses.                                                                           *)
LEMMA Reversed ==
  ASSUME AdvancesInv, NEW t \in Txns, txn[t].kind \in Guarded, txn[t].pc = "commit", SameStatusAndBalance(t)
  PROVE  LET a == txn[t].id  slot == txn[t].at IN
         /\ a \in Advances /\ Made(advance[a]) /\ txn[t].row.type = advance[a].type
         /\ txn[t].row.outstanding = advance[a].outstanding
         /\ txn[t].kind # "defer" => Open(advance[a])
         /\ Reversal(t) \in Nat
         /\ slot # NoSlot =>
              /\ slot \in Slots /\ Current(slot[1]) /\ slot[2] = advance[a].employee
              /\ Reversal(t) = At(slot).deduction[advance[a].type] /\ At(slot) \in EntryRecord
              /\ txn[t].valid => At(slot).outcome = "OPEN" /\ At(slot).link[advance[a].type] = a
         /\ slot = NoSlot => Reversal(t) = 0
<1>1. PICK q, a, slot : q = txn[t] /\ a = txn[t].id /\ slot = txn[t].at
  OBVIOUS
<1>2. q.kind \in Guarded /\ q.pc = "commit" /\ q.id = a /\ q.at = slot /\ ChangeOK(q)
  BY <1>1 DEF AdvancesInv, RequestOK
<1>3. /\ a \in Advances /\ Made(advance[a]) /\ SameAdvance(q.row, advance[a])
      /\ q.kind \in {"edit", "cancel"} => Open(q.row)
      /\ slot # NoSlot =>
             /\ slot \in Slots /\ Current(slot[1]) /\ slot[2] = q.row.employee
             /\ q.valid => At(slot).outcome = "OPEN" /\ At(slot).link[q.row.type] = a
  BY <1>2 DEF ChangeOK
<1>4. q.row.status = advance[a].status /\ q.row.outstanding = advance[a].outstanding
  BY <1>1 DEF SameStatusAndBalance
<1>5. q.row.type = advance[a].type /\ q.row.employee = advance[a].employee /\ advance[a].type \in Types
  BY <1>3 DEF SameAdvance, Made
<1>6. q.kind # "defer" => Open(advance[a])
  BY <1>2, <1>3, <1>4 DEF Guarded, Open
<1>7. slot # NoSlot => At(slot) \in EntryRecord /\ At(slot).deduction[advance[a].type] \in Nat
  <2>1. slot \in Slots => At(slot) \in EntryRecord
    BY DEF At, Slots, AdvancesInv, Typed
  <2> QED
    BY <1>3, <1>5, <2>1 DEF EntryRecord
<1>8. Reversal(t) = IF slot = NoSlot THEN 0 ELSE At(slot).deduction[advance[a].type]
  BY <1>1, <1>5 DEF Reversal
<1> QED
  BY <1>1, <1>3, <1>4, <1>5, <1>6, <1>7, <1>8

(* A cancellation gives back what its entry deducted, or what it deducted was nothing. *)
LEMMA CancelCommitted ==
  ASSUME AdvancesInv, NEW t \in Txns, CommitCancel(t)
  PROVE  AdvancesInv'
<1>1. PICK a, slot, r : a = txn[t].id /\ slot = txn[t].at /\ r = Reversal(t)
  OBVIOUS
<1>2. PICK final : final = [advance[a] EXCEPT !.status = "CANCELLED", !.outstanding = Restored(t), !.period = 0]
  OBVIOUS
<1>3. /\ txn[t].kind = "cancel" /\ txn[t].pc = "commit" /\ EntryUnchanged(t) /\ SameStatusAndBalance(t)
      /\ advance' = [advance EXCEPT ![a] = final]
      /\ UNCHANGED <<cycleStatus, departed>>
  BY <1>1, <1>2 DEF CommitCancel
<1>4. /\ a \in Advances /\ Made(advance[a]) /\ txn[t].row.type = advance[a].type
      /\ txn[t].row.outstanding = advance[a].outstanding
      /\ Open(advance[a])
      /\ r \in Nat
      /\ slot # NoSlot =>
           /\ slot \in Slots /\ Current(slot[1]) /\ slot[2] = advance[a].employee
           /\ r = At(slot).deduction[advance[a].type] /\ At(slot) \in EntryRecord
           /\ txn[t].valid => At(slot).outcome = "OPEN" /\ At(slot).link[advance[a].type] = a
      /\ slot = NoSlot => r = 0
  BY <1>1, <1>3, Reversed DEF Guarded
<1>5. PICK y \in Types : y = advance[a].type
  BY <1>4 DEF Made
<1>6. advance[a] \in AdvanceRecord /\ advance[a].outstanding \in Nat
  BY <1>4 DEF AdvancesInv, Typed, AdvanceRecord
<1>7. /\ final \in AdvanceRecord /\ final.status = "CANCELLED" /\ SameAdvance(final, advance[a])
      /\ final.total = advance[a].total /\ final.outstanding = advance[a].outstanding + r
  <2>1. PICK o \in Nat : o = Restored(t) /\ o = advance[a].outstanding + r
    BY <1>1, <1>4, <1>6 DEF Restored
  <2>2. final = [advance[a] EXCEPT !.status = "CANCELLED", !.outstanding = o, !.period = 0]
    BY <1>2, <2>1
  <2>3. 0 \in 0 .. LastMonth + 1
    BY LastMonthAssumption
  <2> QED
    BY <1>6, <2>1, <2>2, <2>3 DEF AdvanceRecord, SameAdvance
<1>8. CASE r > 0
  <2>1. slot # NoSlot /\ txn[t].valid
    BY <1>1, <1>3, <1>4, <1>8 DEF EntryUnchanged
  <2>2. PICK line, new : line = At(slot) /\ new = Cleared(line, y)
    OBVIOUS
  <2>3. /\ new \in EntryRecord /\ new.outcome = line.outcome /\ new.link[y] = None
        /\ \A x \in Types : x # y => new.link[x] = line.link[x] /\ new.deduction[x] = line.deduction[x]
    BY <1>4, <2>1, <2>2, ClearedLine
  <2>4. entry' = [entry EXCEPT ![slot[1]][slot[2]] = new] /\ txn' = Bumped({slot}, Ended(t))
    BY <1>1, <1>4, <1>5, <1>8, <2>2, Zenon DEF CommitCancel, At
  <2>5. ~Open(final) /\ final.status # "NONE" /\ txn[t].kind # "none"
    BY <1>3, <1>7 DEF Open
  <2>6. /\ new.outcome = "OPEN" /\ new.link[y] = None
        /\ \A x \in Types : x # y => new.link[x] = At(slot).link[x] /\ new.deduction[x] = At(slot).deduction[x]
    BY <1>4, <2>1, <2>2, <2>3
  <2>7. /\ slot \in Slots /\ Current(slot[1]) /\ At(slot).outcome = "OPEN"
        /\ At(slot).link[advance[a].type] = a
        /\ final.outstanding = advance[a].outstanding + At(slot).deduction[advance[a].type]
    BY <1>4, <1>7, <2>1
  <2> QED
    BY <1>3, <1>4, <1>5, <1>7, <2>3, <2>4, <2>5, <2>6, <2>7, GivenBack
<1>9. CASE ~(r > 0)
  <2>1. r = 0 /\ UNCHANGED entry /\ txn' = Ended(t)
    BY <1>1, <1>4, <1>9 DEF CommitCancel
  <2>2. /\ txn' \in [Txns -> Requesting] /\ txn'[t].kind = "none"
        /\ \A u \in Txns \ {t} : Held(txn'[u], txn[u]) /\ txn[u].kind # "rollover"
    BY <1>3, <2>1, EndedRequests
  <2>3. /\ advance' \in [Advances -> AdvanceRecord] /\ advance'[a] = final
        /\ \A b \in Advances : b # a => advance'[b] = advance[b]
    BY <1>3, <1>4, <1>7 DEF AdvancesInv, Typed
  <2>4. Typed'
    BY <1>3, <2>1, <2>2, <2>3 DEF AdvancesInv, Typed
  <2>5. LinksStay /\ NoNewLinks /\ AdvancesKept
    BY <1>7, <2>1, <2>3 DEF LinksStay, NoNewLinks, AdvancesKept, Made, SameAdvance
  <2>6. SameMonths /\ MonthsKept
    BY <1>3, <2>1 DEF SameMonths, MonthsKept, Current
  <2>7. NoneOpened
    BY <1>4, <1>7, <2>3 DEF NoneOpened, Made, Open
  <2>8. ClosedCarriesNothing
    <3>1. SUFFICES ASSUME NEW c \in Months, NEW e \in Employees, NEW x \in Types, NEW b \in Advances,
                          Open(advance[b]), ~Open(advance'[b]), Current(c), entry[c][e].link[x] = b,
                          entry[c][e].outcome = "OPEN"
          PROVE  entry[c][e].deduction[x] = 0
      BY <2>1 DEF ClosedCarriesNothing
    <3>2. b = a
      BY <2>3, <3>1
    <3>3. CASE slot = NoSlot
      BY <1>1, <1>3, <3>1, <3>2, <3>3 DEF AdvancesInv, RequestOK, ChangeOK, Guarded
    <3>4. CASE slot # NoSlot
      <4>1. x = y /\ At(slot) = entry[c][e]
        BY <1>4, <1>5, <3>1, <3>2, <3>4, OneCarrier
      <4> QED
        BY <1>4, <1>5, <2>1, <3>4, <4>1
    <3> QED
      BY <3>3, <3>4
  <2>9. ASSUME NEW b \in Advances, Made(advance[b])  PROVE Balanced(b)'
    <3>1. /\ SameAdvance(advance'[b], advance[b]) /\ advance'[b].outstanding = advance[b].outstanding
          /\ advance'[b].total = advance[b].total
      BY <1>6, <1>7, <2>1, <2>3 DEF SameAdvance
    <3> QED
      BY <2>1, <2>4, <2>9, <3>1, BalanceKept
  <2>10. RowsOK'
    BY <2>4, <2>5, <2>6, <2>7, <2>8, <2>9, RowsKept
  <2>11. \A u \in Txns \ {t} : LineKept(u)
    BY <2>1, <2>2 DEF LineKept, SameLine, At, Held
  <2> QED
    BY <2>2, <2>4, <2>5, <2>6, <2>10, <2>11, CommitStep
<1> QED
  BY <1>8, <1>9

(* A deferral that commits reverses the deduction of an open advance, in its entry of the *)
(* current month.                                                                         *)
LEMMA Deferred ==
  ASSUME AdvancesInv, NEW t \in Txns, CommitDefer(t)
  PROVE  LET a == txn[t].id  slot == txn[t].at IN
         /\ a \in Advances /\ Made(advance[a]) /\ txn[t].row.type = advance[a].type
         /\ txn[t].row.outstanding = advance[a].outstanding /\ Open(advance[a])
         /\ Reversal(t) \in Nat /\ slot \in Slots /\ Current(slot[1]) /\ slot[2] = advance[a].employee
         /\ Reversal(t) = At(slot).deduction[advance[a].type] /\ At(slot) \in EntryRecord
         /\ At(slot).outcome = "OPEN" /\ At(slot).link[advance[a].type] = a
<1>1. PICK a, slot, r : a = txn[t].id /\ slot = txn[t].at /\ r = Reversal(t)
  OBVIOUS
<1>2. txn[t].kind = "defer" /\ txn[t].pc = "commit" /\ SameStatusAndBalance(t) /\ txn[t].valid
  BY DEF CommitDefer
<1>3. slot # NoSlot /\ At(slot).deduction[txn[t].row.type] > 0
  BY <1>1, <1>2 DEF AdvancesInv, RequestOK, ChangeOK, Guarded
<1>4. /\ a \in Advances /\ Made(advance[a]) /\ txn[t].row.type = advance[a].type
      /\ txn[t].row.outstanding = advance[a].outstanding
      /\ r \in Nat
      /\ slot \in Slots /\ Current(slot[1]) /\ slot[2] = advance[a].employee
      /\ r = At(slot).deduction[advance[a].type] /\ At(slot) \in EntryRecord
      /\ At(slot).outcome = "OPEN" /\ At(slot).link[advance[a].type] = a
  BY <1>1, <1>2, <1>3, Reversed DEF Guarded
<1>5. PICK y \in Types : y = advance[a].type
  BY <1>4 DEF Made
<1>6. PICK c \in Months, e \in Employees : slot = <<c, e>> /\ At(slot) = entry[c][e]
  BY <1>4 DEF Slots, At
<1>7. Current(c)
  BY <1>4, <1>6
<1>8. entry[c][e].link[y] = a /\ entry[c][e].outcome = "OPEN" /\ entry[c][e].deduction[y] > 0
  BY <1>3, <1>4, <1>5, <1>6
<1>9. Open(advance[a])
  BY <1>4, <1>7, <1>8 DEF AdvancesInv, RowsOK, LinksOK
<1> QED
  BY <1>1, <1>4, <1>9

(* A deferral gives the deduction back and leaves the advance open. *)
LEMMA DeferCommitted ==
  ASSUME AdvancesInv, NEW t \in Txns, CommitDefer(t)
  PROVE  AdvancesInv'
<1>1. PICK a, slot, r : a = txn[t].id /\ slot = txn[t].at /\ r = Reversal(t)
  OBVIOUS
<1>2. PICK final : final = [advance[a] EXCEPT !.status = "ACTIVE", !.outstanding = Restored(t), !.period = txn[t].month]
  OBVIOUS
<1>3. /\ txn[t].kind = "defer" /\ txn[t].pc = "commit" /\ SameStatusAndBalance(t) /\ txn[t].valid
      /\ advance' = [advance EXCEPT ![a] = final]
      /\ txn' = Bumped({slot}, Ended(t))
      /\ UNCHANGED <<cycleStatus, departed>>
  BY <1>1, <1>2 DEF CommitDefer
<1>4. /\ a \in Advances /\ Made(advance[a]) /\ txn[t].row.type = advance[a].type
      /\ txn[t].row.outstanding = advance[a].outstanding /\ Open(advance[a])
      /\ r \in Nat
      /\ slot \in Slots /\ Current(slot[1]) /\ slot[2] = advance[a].employee
      /\ r = At(slot).deduction[advance[a].type] /\ At(slot) \in EntryRecord
      /\ At(slot).outcome = "OPEN" /\ At(slot).link[advance[a].type] = a
  BY <1>1, Deferred
<1>5. PICK y \in Types : y = advance[a].type
  BY <1>4 DEF Made
<1>6. advance[a] \in AdvanceRecord /\ advance[a].outstanding \in Nat
  BY <1>4 DEF AdvancesInv, Typed, AdvanceRecord
<1>7. /\ final \in AdvanceRecord /\ final.status = "ACTIVE" /\ SameAdvance(final, advance[a])
      /\ final.total = advance[a].total /\ final.outstanding = advance[a].outstanding + r
  <2>1. PICK o \in Nat : o = Restored(t) /\ o = advance[a].outstanding + r
    BY <1>1, <1>4, <1>6 DEF Restored
  <2>2. PICK m \in 0 .. LastMonth + 1 : m = txn[t].month
    BY LastMonthAssumption DEF AdvancesInv, Typed, Requesting
  <2>3. final = [advance[a] EXCEPT !.status = "ACTIVE", !.outstanding = o, !.period = m]
    BY <1>2, <2>1, <2>2
  <2> QED
    BY <1>6, <2>1, <2>3, Zenon DEF AdvanceRecord, SameAdvance
<1>8. PICK line, cleared, new : line = At(slot) /\ cleared = Cleared(line, y) /\ new = [cleared EXCEPT !.deferred = TRUE]
  OBVIOUS
<1>9. /\ cleared \in EntryRecord /\ cleared.outcome = line.outcome /\ cleared.link[y] = None
       /\ \A x \in Types : x # y => cleared.link[x] = line.link[x] /\ cleared.deduction[x] = line.deduction[x]
  BY <1>4, <1>8, ClearedLine
<1>10. new \in EntryRecord /\ new.outcome = cleared.outcome /\ new.link = cleared.link /\ new.deduction = cleared.deduction
  BY <1>8, <1>9 DEF EntryRecord
<1>11. entry' = [entry EXCEPT ![slot[1]][slot[2]] = new]
  BY <1>1, <1>4, <1>5, <1>8, Zenon DEF CommitDefer, At
<1>12. /\ new.outcome = "OPEN" /\ new.link[y] = None
       /\ \A x \in Types : x # y => new.link[x] = At(slot).link[x] /\ new.deduction[x] = At(slot).deduction[x]
  BY <1>4, <1>8, <1>9, <1>10
<1> QED
  BY <1>3, <1>4, <1>5, <1>7, <1>10, <1>11, <1>12, GivenBack, Zenon

(* An edit gives the deduction back, changes the total, and takes a deduction again. *)
LEMMA EditCommitted ==
  ASSUME AdvancesInv, NEW t \in Txns, CommitEdit(t)
  PROVE  AdvancesInv'
<1>1. PICK a, slot, r, n : a = txn[t].id /\ slot = txn[t].at /\ r = Reversal(t) /\ n = txn[t].amount
  OBVIOUS
<1>2. PICK updated : updated = [advance[a] EXCEPT !.total = n, !.outstanding = n - (txn[t].row.total - Restored(t))]
  OBVIOUS
<1>3. PICK final : final = IF r > 0 THEN Deducted(updated, slot[1]) ELSE updated
  OBVIOUS
<1>4. /\ txn[t].kind = "edit" /\ txn[t].pc = "commit" /\ EntryUnchanged(t) /\ SameStatusAndBalance(t)
      /\ advance[a].total = txn[t].row.total
      /\ n >= txn[t].row.total - Restored(t)
      /\ advance' = [advance EXCEPT ![a] = final]
      /\ UNCHANGED <<cycleStatus, departed>>
  BY <1>1, <1>2, <1>3 DEF CommitEdit
<1>5. /\ a \in Advances /\ Made(advance[a]) /\ txn[t].row.type = advance[a].type
      /\ txn[t].row.outstanding = advance[a].outstanding
      /\ Open(advance[a])
      /\ r \in Nat
      /\ slot # NoSlot =>
           /\ slot \in Slots /\ Current(slot[1]) /\ slot[2] = advance[a].employee
           /\ r = At(slot).deduction[advance[a].type] /\ At(slot) \in EntryRecord
           /\ txn[t].valid => At(slot).outcome = "OPEN" /\ At(slot).link[advance[a].type] = a
      /\ slot = NoSlot => r = 0
  BY <1>1, <1>4, Reversed DEF Guarded
<1>6. PICK y \in Types, w \in Employees : y = advance[a].type /\ w = advance[a].employee
  BY <1>5 DEF Made
<1>7. advance[a] \in AdvanceRecord /\ n \in Nat /\ Typed
  BY <1>1, <1>5 DEF AdvancesInv, Typed, Requesting
<1>8. PICK o, total : o = advance[a].outstanding /\ total = advance[a].total
  OBVIOUS
<1>9. o \in Nat /\ total \in Nat
  BY <1>7, <1>8 DEF AdvanceRecord
<1>10. txn[t].row.total - Restored(t) = total - (o + r)
  BY <1>1, <1>4, <1>5, <1>8 DEF Restored
<1>11. /\ updated \in AdvanceRecord /\ Made(updated) /\ SameAdvance(updated, advance[a])
       /\ updated.status = advance[a].status
       /\ updated.total = n /\ updated.outstanding = n - (total - (o + r))
  <2>1. PICK k \in Nat : k = n - (total - (o + r))
    BY <1>4, <1>5, <1>7, <1>9, <1>10
  <2>2. PICK row \in AdvanceRecord : row = advance[a] /\ Made(row)
    BY <1>5, <1>7
  <2>3. updated = [row EXCEPT !.total = n, !.outstanding = k]
    BY <1>2, <1>10, <2>1, <2>2, Zenon
  <2> HIDE <1>2, <1>4, <1>10
  <2>4. /\ updated \in AdvanceRecord /\ Made(updated) /\ SameAdvance(updated, row)
        /\ updated.status = row.status /\ updated.total = n /\ updated.outstanding = k
    BY <1>7, <2>1, <2>2, <2>3, Zenon DEF AdvanceRecord, SameAdvance, Made
  <2> QED
    BY <2>1, <2>2, <2>4
<1>12. Open(updated)
  BY <1>5, <1>11 DEF Open
<1>13. PICK s : s = SumFunctionOnSet(Deductions(a), Months)
  OBVIOUS
<1>14. o + s <= total /\ s \in Nat
  <2>1. \A c \in Months : Deductions(a)[c] \in Nat
    BY <1>5, <1>7, DeductionTypes
  <2>2. s \in Nat
    BY <1>13, <2>1, MonthsFinite, SumOfNaturals
  <2> QED
    BY <1>5, <1>8, <1>13, <2>2 DEF AdvancesInv, RowsOK, BalancesOK, Made
<1>15. CASE r > 0
  <2>1. slot # NoSlot /\ txn[t].valid
    BY <1>1, <1>4, <1>5, <1>15 DEF EntryUnchanged
  <2>2. PICK m \in Months : slot = <<m, w>>
    BY <1>5, <1>6, <2>1 DEF Slots
  <2>3. PICK line, new : line = At(slot) /\ new = Carrying(line, a, updated)
    OBVIOUS
  <2>4. /\ line = entry[m][w] /\ line \in EntryRecord /\ line.outcome = "OPEN" /\ line.link[y] = a
        /\ line.deduction[y] = r /\ Current(m)
    BY <1>5, <1>6, <2>1, <2>2, <2>3 DEF At
  <2>5. PICK d : d = Due(updated)
    OBVIOUS
  <2>6. m \in 0 .. LastMonth /\ final = Deducted(updated, m)
    BY <1>3, <1>15, <2>2, LastMonthAssumption DEF Months
  <2>7. /\ d \in Nat /\ d <= updated.outstanding
        /\ final \in AdvanceRecord /\ Open(final) /\ SameAdvance(final, updated)
        /\ final.outstanding = updated.outstanding - d /\ final.total = updated.total
    BY <1>11, <2>5, <2>6, DeductedRow
  <2>8. /\ SameAdvance(final, advance[a]) /\ final.total = n /\ final.outstanding = n - (total - (o + r)) - d
        /\ updated.type = y
    BY <1>6, <1>11, <2>7 DEF SameAdvance
  <2>9. /\ new \in EntryRecord /\ new.outcome = "OPEN" /\ new.link[y] = a /\ new.deduction[y] = d
        /\ \A x \in Types : x # y => new.link[x] = line.link[x] /\ new.deduction[x] = line.deduction[x]
    BY <1>5, <2>3, <2>4, <2>5, <2>7, <2>8, CarryingLine
  <2>10. entry' = [entry EXCEPT ![slot[1]][slot[2]] = new] /\ txn' = Bumped({slot}, Ended(t))
    <3>1. Reversal(t) > 0
      BY <1>1, <1>15
    <3> QED
      BY <1>1, <1>2, <2>3, <3>1 DEF CommitEdit, At
  <2>11. /\ entry' \in [Months -> [Employees -> EntryRecord]]
         /\ entry'[m][w] = new
         /\ \A c \in Months, e \in Employees : <<c, e>> # slot => entry'[c][e] = entry[c][e]
    <3>1. /\ entry' \in [Months -> [Employees -> EntryRecord]]
          /\ entry'[slot[1]][slot[2]] = new
          /\ \A c \in Months, e \in Employees : <<c, e>> # slot => entry'[c][e] = entry[c][e]
      BY <1>5, <1>7, <2>1, <2>9, <2>10, OneEntry, Zenon
    <3> QED
      BY <2>2, <3>1
  <2>12. /\ txn' \in [Txns -> Requesting] /\ txn'[t].kind = "none"
         /\ \A u \in Txns \ {t} : /\ Held(txn'[u], txn[u]) /\ txn[u].kind # "rollover"
                                  /\ txn'[u].valid /\ txn'[u].kind \in Guarded => txn'[u].at \notin {slot}
    BY <1>4, <2>10, EndedRequests
  <2>13. /\ advance' \in [Advances -> AdvanceRecord] /\ advance'[a] = final
         /\ \A b \in Advances : b # a => advance'[b] = advance[b]
    BY <1>4, <1>5, <1>7, <2>7 DEF Typed
  <2>14. Typed'
    BY <1>4, <1>7, <2>11, <2>12, <2>13 DEF Typed
  <2>15. ASSUME NEW c \in Months, NEW e \in Employees, NEW x \in Types, NEW b \in Advances,
                entry'[c][e].link[x] = b
         PROVE  /\ entry[c][e].link[x] = b
                /\ b = a \/ entry'[c][e].deduction[x] = entry[c][e].deduction[x]
                /\ entry'[c][e].outcome = "OPEN" => entry[c][e].outcome = "OPEN"
    <3>1. CASE c = m /\ e = w
      BY <2>4, <2>9, <2>11, <2>15, <3>1
    <3>2. CASE ~(c = m /\ e = w)
      <4>1. <<c, e>> # slot
        BY <2>2, <3>2
      <4> QED
        BY <2>11, <2>15, <4>1
    <3> QED
      BY <3>1, <3>2
  <2>16. LinksStay /\ NoNewLinks
    BY <2>7, <2>13, <2>15 DEF LinksStay, NoNewLinks
  <2>17. AdvancesKept
    BY <2>7, <2>8, <2>13 DEF AdvancesKept, Made, SameAdvance, Open
  <2>18. SameMonths
    <3>1. ASSUME NEW c \in Months, NEW e \in Employees, cycleStatus[c] = "NONE"
          PROVE  entry'[c][e] = entry[c][e]
      <4>1. <<c, e>> # slot
        BY <2>2, <2>4, <3>1 DEF Current
      <4> QED
        BY <2>11, <4>1
    <3> QED
      BY <1>4, <3>1 DEF SameMonths, Current
  <2>19. MonthsKept
    BY <2>18 DEF SameMonths, MonthsKept
  <2>20. NoneOpened /\ ClosedCarriesNothing
    BY <1>5, <2>7, <2>13 DEF NoneOpened, ClosedCarriesNothing, Made
  <2>21. Balanced(a)'
    <3>1. Deductions(a)[m] = r
      BY <1>6, <2>4 DEF Deductions
    <3>2. advance'[a].employee = w /\ advance'[a].type = y
      BY <1>6, <2>8, <2>13 DEF SameAdvance
    <3>3. (Deductions(a)')[m] = d
      BY <2>9, <2>11, <3>2 DEF Deductions
    <3>4. \A c \in Months, e \in Employees : c # m => entry'[c][e] = entry[c][e]
      BY <2>2, <2>11
    <3>5. PICK z : z = SumFunctionOnSet(Deductions(a), Months)'
      OBVIOUS
    <3>6. z = s - r + d
      <4>1. advance'[a].employee = advance[a].employee /\ advance'[a].type = advance[a].type
        BY <1>6, <3>2
      <4> QED
        BY <1>5, <1>7, <1>13, <2>7, <2>14, <3>1, <3>3, <3>4, <3>5, <4>1, DeductionsChange
    <3>7. final.outstanding + z <= final.total
      <4>1. PICK k, l : k = final.outstanding /\ l = final.total
        OBVIOUS
      <4>2. k = n - (total - (o + r)) - d /\ l = n
        BY <2>8, <4>1
      <4> HIDE <2>8
      <4> QED
        BY <1>5, <1>7, <1>9, <1>14, <2>7, <3>6, <4>1, <4>2
    <3> QED
      BY <2>13, <3>5, <3>7 DEF Balanced
  <2>22. ASSUME NEW b \in Advances, Made(advance[b])  PROVE Balanced(b)'
    <3>1. CASE b = a
      BY <2>21, <3>1
    <3>2. CASE b # a
      <4>1. advance'[b] = advance[b]
        BY <2>13, <3>2
      <4>2. \A c \in Months, e \in Employees, x \in Types :
              entry'[c][e].link[x] = b =>
                 entry[c][e].link[x] = b /\ entry'[c][e].deduction[x] = entry[c][e].deduction[x]
        BY <2>15, <3>2
      <4> QED
        BY <2>14, <2>22, <4>1, <4>2, BalanceKept DEF SameAdvance
    <3> QED
      BY <3>1, <3>2
  <2>23. RowsOK'
    BY <2>14, <2>16, <2>17, <2>18, <2>20, <2>22, RowsKept
  <2>24. \A u \in Txns \ {t} : LineKept(u)
    BY <1>5, <2>1, <2>11, <2>12, OtherLines
  <2> QED
    BY <2>12, <2>14, <2>16, <2>17, <2>19, <2>23, <2>24, CommitStep
<1>16. CASE ~(r > 0)
  <2>1. r = 0 /\ UNCHANGED entry /\ txn' = Ended(t) /\ final = updated
    BY <1>1, <1>3, <1>5, <1>16 DEF CommitEdit
  <2>2. /\ txn' \in [Txns -> Requesting] /\ txn'[t].kind = "none"
        /\ \A u \in Txns \ {t} : Held(txn'[u], txn[u]) /\ txn[u].kind # "rollover"
    BY <1>4, <2>1, EndedRequests
  <2>3. /\ advance' \in [Advances -> AdvanceRecord] /\ advance'[a] = updated
        /\ \A b \in Advances : b # a => advance'[b] = advance[b]
    BY <1>4, <1>5, <1>7, <1>11, <2>1 DEF Typed
  <2>4. Typed'
    BY <1>4, <1>7, <2>1, <2>2, <2>3 DEF Typed
  <2>5. LinksStay /\ NoNewLinks /\ AdvancesKept
    BY <1>11, <2>1, <2>3 DEF LinksStay, NoNewLinks, AdvancesKept, Made, SameAdvance
  <2>6. SameMonths /\ MonthsKept
    BY <1>4, <2>1 DEF SameMonths, MonthsKept, Current
  <2>7. NoneOpened /\ ClosedCarriesNothing
    BY <1>5, <1>12, <2>3 DEF NoneOpened, ClosedCarriesNothing, Made
  <2>8. Balanced(a)'
    <3>1. Deductions(a)' = Deductions(a)
      BY <1>11, <2>1, <2>3 DEF Deductions, SameAdvance
    <3>2. updated.outstanding + s <= updated.total
      <4>1. PICK k, l : k = updated.outstanding /\ l = updated.total
        OBVIOUS
      <4>2. k = n - (total - (o + r)) /\ l = n
        BY <1>11, <4>1
      <4> HIDE <1>11
      <4> QED
        BY <1>5, <1>7, <1>9, <1>14, <2>1, <4>1, <4>2
    <3> QED
      BY <1>13, <2>3, <3>1, <3>2 DEF Balanced
  <2>9. ASSUME NEW b \in Advances, Made(advance[b])  PROVE Balanced(b)'
    <3>1. CASE b = a
      BY <2>8, <3>1
    <3>2. CASE b # a
      BY <2>1, <2>3, <2>4, <2>9, <3>2, BalanceKept DEF SameAdvance
    <3> QED
      BY <3>1, <3>2
  <2>10. RowsOK'
    BY <2>4, <2>5, <2>6, <2>7, <2>9, RowsKept
  <2>11. \A u \in Txns \ {t} : LineKept(u)
    BY <2>1, <2>2 DEF LineKept, SameLine, At, Held
  <2> QED
    BY <2>2, <2>4, <2>5, <2>6, <2>10, <2>11, CommitStep
<1> QED
  BY <1>15, <1>16

(* A creation writes an advance that no entry carried, and may take its first deduction. *)
LEMMA CreateCommitted ==
  ASSUME AdvancesInv, NEW t \in Txns, NEW a \in Advances, CommitCreate(t, a)
  PROVE  AdvancesInv'
<1>1. PICK row, slot : row = txn[t].row /\ slot = txn[t].at
  OBVIOUS
<1>2. PICK now \in BOOLEAN : now = (slot # NoSlot /\ Standing(row))
  BY Zenon
<1>3. PICK final : final = IF now THEN Deducted(row, slot[1]) ELSE row
  OBVIOUS
<1>4. /\ txn[t].kind = "create" /\ advance[a].status = "NONE"
      /\ advance' = [advance EXCEPT ![a] = final] /\ OnePerType(advance')
      /\ entry' = IF now THEN [entry EXCEPT ![slot[1]][slot[2]] = Carrying(@, a, row)] ELSE entry
      /\ txn' = IF now THEN Bumped({slot}, Ended(t)) ELSE Ended(t)
      /\ UNCHANGED <<cycleStatus, departed>>
  BY <1>1, <1>2, <1>3 DEF CommitCreate
<1>5. /\ row \in AdvanceRecord /\ Made(row) /\ row.status = "ACTIVE" /\ row.outstanding = row.total
      /\ slot # NoSlot => slot \in Slots /\ slot[2] = row.employee /\ cycleStatus[slot[1]] # "NONE"
      /\ Typed
  BY <1>1, <1>4 DEF AdvancesInv, Typed, Requesting, RequestOK, CreateOK
<1>6. PICK y \in Types, w \in Employees : y = row.type /\ w = row.employee
  BY <1>5 DEF Made
<1>7. row.total \in Nat
  BY <1>5 DEF AdvanceRecord
<1>8. \A c \in Months, e \in Employees, x \in Types : entry[c][e].link[x] # a
  BY <1>4 DEF AdvancesInv, RowsOK, LinksOK, Made
<1>9. \A b \in Advances : Made(advance[b]) => b # a
  BY <1>4 DEF Made
<1>10. CASE now
  <2>1. slot \in Slots /\ slot # NoSlot
    BY <1>2, <1>5, <1>10
  <2>2. PICK m \in Months : slot = <<m, w>> /\ cycleStatus[m] # "NONE"
    BY <1>5, <1>6, <2>1 DEF Slots
  <2>3. PICK line, new : line = entry[m][w] /\ new = Carrying(line, a, row)
    OBVIOUS
  <2>4. line \in EntryRecord
    BY <1>5, <2>3 DEF Typed
  <2>5. PICK d : d = Due(row)
    OBVIOUS
  <2>6. m \in 0 .. LastMonth /\ final = Deducted(row, m)
    BY <1>3, <1>10, <2>2, LastMonthAssumption DEF Months
  <2>7. /\ d \in Nat /\ d <= row.outstanding
        /\ final \in AdvanceRecord /\ Open(final) /\ SameAdvance(final, row)
        /\ final.outstanding = row.outstanding - d /\ final.total = row.total
    BY <1>5, <2>5, <2>6, DeductedRow
  <2>8. /\ new \in EntryRecord /\ new.outcome = line.outcome /\ new.link[y] = a /\ new.deduction[y] = d
        /\ \A x \in Types : x # y => new.link[x] = line.link[x] /\ new.deduction[x] = line.deduction[x]
    BY <1>6, <2>3, <2>4, <2>5, <2>7, CarryingLine
  <2>9. entry' = [entry EXCEPT ![slot[1]][slot[2]] = new] /\ txn' = Bumped({slot}, Ended(t))
    BY <1>4, <1>10, <2>2, <2>3
  <2>10. /\ entry' \in [Months -> [Employees -> EntryRecord]]
         /\ entry'[m][w] = new
         /\ \A c \in Months, e \in Employees : <<c, e>> # slot => entry'[c][e] = entry[c][e]
    <3>1. /\ entry' \in [Months -> [Employees -> EntryRecord]]
          /\ entry'[slot[1]][slot[2]] = new
          /\ \A c \in Months, e \in Employees : <<c, e>> # slot => entry'[c][e] = entry[c][e]
      BY <1>5, <2>1, <2>8, <2>9, OneEntry
    <3> QED
      BY <2>2, <3>1
  <2>11. /\ txn' \in [Txns -> Requesting] /\ txn'[t].kind = "none"
         /\ \A u \in Txns \ {t} : /\ Held(txn'[u], txn[u]) /\ txn[u].kind # "rollover"
                                  /\ txn'[u].valid /\ txn'[u].kind \in Guarded => txn'[u].at \notin {slot}
    BY <1>4, <2>9, EndedRequests, Zenon
  <2>12. /\ advance' \in [Advances -> AdvanceRecord] /\ advance'[a] = final
         /\ \A b \in Advances : b # a => advance'[b] = advance[b]
    BY <1>4, <1>5, <2>7 DEF Typed
  <2>13. Typed'
    BY <1>4, <1>5, <2>10, <2>11, <2>12, Zenon DEF Typed
  <2>14. ASSUME NEW c \in Months, NEW e \in Employees
         PROVE  \/ c = m /\ e = w
                \/ entry'[c][e] = entry[c][e]
    <3>1. CASE <<c, e>> = slot
      BY <2>2, <3>1
    <3>2. CASE <<c, e>> # slot
      BY <2>10, <3>2
    <3> QED
      BY <3>1, <3>2
  <2>15. ASSUME NEW c \in Months, NEW e \in Employees, NEW x \in Types, NEW b \in Advances,
                entry'[c][e].link[x] = b
         PROVE  /\ b = a => c = m /\ e = w /\ x = y /\ entry'[c][e].deduction[x] = d
                /\ b # a => /\ entry[c][e].link[x] = b /\ entry'[c][e].deduction[x] = entry[c][e].deduction[x]
                            /\ entry'[c][e].outcome = entry[c][e].outcome
    <3>1. CASE c = m /\ e = w
      BY <1>8, <2>3, <2>8, <2>10, <2>15, <3>1
    <3>2. CASE entry'[c][e] = entry[c][e]
      BY <1>8, <2>15, <3>2
    <3> QED
      BY <2>14, <3>1, <3>2
  <2>16. NoNewLinks /\ AdvancesKept
    BY <1>9, <2>12, <2>15 DEF NoNewLinks, AdvancesKept, SameAdvance
  <2>17. MonthsKept
    BY <1>4 DEF MonthsKept, Current
  <2>18. MonthsOK'
    <3>1. \A c, d1 \in Months : Current(c)' /\ Current(d1)' => c = d1
      BY <1>4 DEF AdvancesInv, RowsOK, MonthsOK, Current
    <3>2. ASSUME NEW c \in Months, NEW e \in Employees, cycleStatus'[c] = "NONE"
          PROVE  entry'[c][e].outcome = "NONE" /\ \A x \in Types : entry'[c][e].link[x] = None
      <4>1. entry'[c][e] = entry[c][e] /\ cycleStatus[c] = "NONE"
        BY <1>4, <2>2, <2>14, <3>2
      <4> QED
        BY <4>1 DEF AdvancesInv, RowsOK, MonthsOK
    <3> QED
      BY <3>1, <3>2 DEF MonthsOK, Current
  <2>19. Made(final) /\ final.employee = w /\ final.type = y
    BY <1>5, <1>6, <2>7 DEF Made, SameAdvance, Open
  <2>20. LinksOK'
    <3>1. SUFFICES ASSUME NEW c \in Months, NEW e \in Employees, NEW x \in Types, NEW b \in Advances,
                          entry'[c][e].link[x] = b
          PROVE  /\ Made(advance'[b]) /\ advance'[b].employee = e /\ advance'[b].type = x
                 /\ entry'[c][e].outcome = "OPEN" /\ Current(c) /\ entry'[c][e].deduction[x] > 0
                       => Open(advance'[b])
      BY <1>4 DEF LinksOK, Current
    <3>2. CASE b = a
      BY <2>7, <2>12, <2>15, <2>19, <3>1, <3>2
    <3>3. CASE b # a
      <4>1. /\ entry[c][e].link[x] = b /\ entry'[c][e].deduction[x] = entry[c][e].deduction[x]
            /\ entry'[c][e].outcome = entry[c][e].outcome
        BY <2>15, <3>1, <3>3
      <4>2. /\ Made(advance[b]) /\ advance[b].employee = e /\ advance[b].type = x
            /\ entry[c][e].outcome = "OPEN" /\ Current(c) /\ entry[c][e].deduction[x] > 0
                     => Open(advance[b])
        BY <4>1 DEF AdvancesInv, RowsOK, LinksOK
      <4> QED
        BY <2>12, <3>3, <4>1, <4>2
    <3> QED
      BY <3>2, <3>3
  <2>21. Balanced(a)'
    <3>1. PICK f, g : f = [c \in Months |-> 0] /\ g = Deductions(a)'
      OBVIOUS
    <3>2. g[m] = d
      BY <2>8, <2>10, <2>12, <2>19, <3>1 DEF Deductions
    <3>3. \A c \in Months : c # m => g[c] = 0
      BY <2>12, <2>15, <2>19, <3>1 DEF Deductions
    <3>4. \A c \in Months : f[c] = 0 /\ f[c] \in Int /\ g[c] \in Int
      BY <2>7, <3>1, <3>2, <3>3
    <3>5. SumFunctionOnSet(f, Months) = 0
      BY <3>4, MonthsFinite, SumOfZeros
    <3>6. SumFunctionOnSet(g, Months) = SumFunctionOnSet(f, Months) - f[m] + g[m]
      <4> HIDE <3>1
      <4>1. \A c \in Months : c # m => g[c] = f[c]
        BY <3>3, <3>4
      <4>2. (\A c \in Months : f[c] \in Int) /\ (\A c \in Months : g[c] \in Int)
        BY <3>4
      <4> QED
        BY <4>1, <4>2, MonthsFinite, SumChange
    <3>7. SumFunctionOnSet(g, Months) = d
      BY <2>7, <3>2, <3>4, <3>5, <3>6
    <3>8. final.outstanding + d <= final.total
      BY <1>5, <1>7, <2>7
    <3> QED
      BY <2>12, <3>1, <3>7, <3>8 DEF Balanced
  <2>22. BalancesOK'
    <3>1. ASSUME NEW b \in Advances, advance'[b].status # "NONE"
          PROVE  Made(advance'[b]) /\ Balanced(b)'
      <4>1. CASE b = a
        BY <2>12, <2>19, <2>21, <4>1
      <4>2. CASE b # a
        <5>1. advance'[b] = advance[b] /\ Made(advance[b])
          BY <2>12, <3>1, <4>2 DEF AdvancesInv, RowsOK, BalancesOK
        <5>2. \A c \in Months, e \in Employees, x \in Types :
                entry'[c][e].link[x] = b =>
                   entry[c][e].link[x] = b /\ entry'[c][e].deduction[x] = entry[c][e].deduction[x]
          BY <2>15, <4>2
        <5> QED
          BY <2>13, <5>1, <5>2, BalanceKept DEF SameAdvance
      <4> QED
        BY <4>1, <4>2
    <3> QED
      BY <1>4, <3>1 DEF BalancesOK, Balanced, OnePerType
  <2>23. RowsOK'
    BY <2>18, <2>20, <2>22 DEF RowsOK
  <2>24. \A u \in Txns \ {t} : LineKept(u)
    BY <2>1, <2>10, <2>11, OtherLines
  <2> QED
    BY <2>11, <2>13, <2>16, <2>17, <2>23, <2>24, CommitStep
<1>11. CASE ~now
  <2>1. final = row /\ UNCHANGED entry /\ txn' = Ended(t)
    BY <1>3, <1>4, <1>11
  <2>2. /\ txn' \in [Txns -> Requesting] /\ txn'[t].kind = "none"
        /\ \A u \in Txns \ {t} : Held(txn'[u], txn[u]) /\ txn[u].kind # "rollover"
    BY <1>4, <2>1, EndedRequests
  <2>3. /\ advance' \in [Advances -> AdvanceRecord] /\ advance'[a] = row
        /\ \A b \in Advances : b # a => advance'[b] = advance[b]
    BY <1>4, <1>5, <2>1 DEF Typed
  <2>4. Typed'
    BY <1>4, <1>5, <2>1, <2>2, <2>3 DEF Typed
  <2>5. NoNewLinks /\ AdvancesKept /\ MonthsKept
    BY <1>4, <1>9, <2>1, <2>3 DEF NoNewLinks, AdvancesKept, MonthsKept, SameAdvance, Current
  <2>6. MonthsOK'
    BY <1>4, <2>1 DEF AdvancesInv, RowsOK, MonthsOK, Current
  <2>7. LinksOK'
    <3>1. SUFFICES ASSUME NEW c \in Months, NEW e \in Employees, NEW x \in Types, NEW b \in Advances,
                          entry[c][e].link[x] = b
          PROVE  /\ Made(advance'[b]) /\ advance'[b].employee = e /\ advance'[b].type = x
                 /\ entry[c][e].outcome = "OPEN" /\ Current(c) /\ entry[c][e].deduction[x] > 0
                       => Open(advance'[b])
      BY <1>4, <2>1 DEF LinksOK, Current
    <3>2. advance'[b] = advance[b]
      BY <1>8, <2>3, <3>1
    <3> QED
      BY <3>1, <3>2 DEF AdvancesInv, RowsOK, LinksOK
  <2>8. Balanced(a)'
    <3>1. PICK g : g = Deductions(a)'
      OBVIOUS
    <3>2. \A c \in Months : g[c] = 0
      BY <1>6, <1>8, <2>1, <2>3, <3>1 DEF Deductions
    <3>3. SumFunctionOnSet(g, Months) = 0
      BY <3>2, MonthsFinite, SumOfZeros
    <3> QED
      BY <1>5, <1>7, <2>3, <3>1, <3>3 DEF Balanced
  <2>9. BalancesOK'
    <3>1. ASSUME NEW b \in Advances, advance'[b].status # "NONE"
          PROVE  Made(advance'[b]) /\ Balanced(b)'
      <4>1. CASE b = a
        BY <1>5, <2>3, <2>8, <4>1
      <4>2. CASE b # a
        <5>1. advance'[b] = advance[b] /\ Made(advance[b])
          BY <2>3, <3>1, <4>2 DEF AdvancesInv, RowsOK, BalancesOK
        <5> QED
          BY <2>1, <2>4, <5>1, BalanceKept DEF SameAdvance
      <4> QED
        BY <4>1, <4>2
    <3> QED
      BY <1>4, <3>1 DEF BalancesOK, Balanced, OnePerType
  <2>10. RowsOK'
    BY <2>6, <2>7, <2>9 DEF RowsOK
  <2>11. \A u \in Txns \ {t} : LineKept(u)
    BY <2>1, <2>2 DEF LineKept, SameLine, At, Held
  <2> QED
    BY <2>2, <2>4, <2>5, <2>10, <2>11, CommitStep
<1> QED
  BY <1>10, <1>11

(* What an entry withholds is a number, whatever the types are. *)
LEMMA WithheldType ==
  ASSUME NEW line \in EntryRecord
  PROVE  Withheld(line) \in Int
<1>1. line.deduction \in [Types -> Nat]
  BY DEF EntryRecord
<1>2. DOMAIN line.deduction = Types /\ \A y \in Types : line.deduction[y] \in Int
  BY <1>1
<1>3. Withheld(line) = SumFunctionOnSet(line.deduction, Types)
  BY <1>2, Zenon DEF Withheld, SumFunction, SumFunctionOnSet, FoldFunction
<1> QED
  BY <1>2, <1>3, TypesAssumption, SumType

(* A sweep resolves the entries it chose, and writes no other; it settles the advances   *)
(* they carry.                                                                           *)
LEMMA ReleaseWrites ==
  ASSUME AdvancesInv, NEW t \in Txns, NEW figure \in [Employees -> Figures], CommitRelease(t, figure)
  PROVE  LET c == txn[t].month  S == txn[t].roster IN
         /\ c \in Months /\ Current(c) /\ S \subseteq Employees
         /\ entry' \in [Months -> [Employees -> EntryRecord]]
         /\ \A d \in Months, e \in Employees :
               /\ d # c \/ e \notin S => entry'[d][e] = entry[d][e]
               /\ entry'[d][e].link = entry[d][e].link /\ entry'[d][e].deduction = entry[d][e].deduction
               /\ entry'[d][e].outcome = "OPEN" => entry'[d][e] = entry[d][e] /\ (d # c \/ e \notin S)
         /\ \A e \in S :
               LET line == entry[c][e]  new == entry'[c][e]  read == txn[t].read[e] IN
               /\ new.outcome \in Resolutions
               /\ new.withheld = read.deduction /\ new.of = read.link
               /\ new.stale = {y \in Types : read.link[y] # line.link[y] \/ read.deduction[y] # line.deduction[y]}
         /\ \A a \in Advances :
               /\ advance'[a] \in AdvanceRecord
               /\ SameAdvance(advance'[a], advance[a])
               /\ advance'[a].outstanding = advance[a].outstanding /\ advance'[a].total = advance[a].total
               /\ advance[a].status = "NONE" <=> advance'[a].status = "NONE"
               /\ Open(advance'[a]) => Open(advance[a])
               /\ a \notin Settled(c, S) => advance'[a] = advance[a]
<1>1. PICK c, S, read : c = txn[t].month /\ S = txn[t].roster /\ read = txn[t].read
  OBVIOUS
<1> DEFINE overtaken(e) == {y \in Types : \/ read[e].link[y] # entry[c][e].link[y]
                                          \/ read[e].deduction[y] # entry[c][e].deduction[y]}
           resolved(e) == [entry[c][e] EXCEPT !.outcome = OutcomeOf(figure[e] - Withheld(read[e])),
                                              !.withheld = read[e].deduction, !.of = read[e].link,
                                              !.stale = overtaken(e)]
<1>2. /\ txn[t].kind = "release"
      /\ entry' = [entry EXCEPT ![c] = [e \in Employees |-> IF e \in S THEN resolved(e) ELSE @[e]]]
      /\ advance' = [a \in Advances |->
                       IF a \in Settled(c, S) THEN [advance[a] EXCEPT !.status = "PAID_OFF"] ELSE advance[a]]
      /\ txn' = Bumped({c} \X S, Ended(t))
      /\ UNCHANGED <<cycleStatus, departed>>
  BY <1>1, Zenon DEF CommitRelease
<1>3. c \in Months /\ Current(c) /\ Typed
  BY <1>1, <1>2, Zenon DEF AdvancesInv, RequestOK, ReleaseOK
<1>4. /\ \A d \in Months, e \in Employees : entry[d][e] \in EntryRecord
      /\ S \subseteq Employees /\ \A e \in Employees : read[e] \in EntryRecord
  BY <1>1, <1>3 DEF Typed, Requesting
<1>5. ASSUME NEW e \in Employees
      PROVE  /\ resolved(e) \in EntryRecord /\ resolved(e).outcome \in Resolutions
             /\ resolved(e).link = entry[c][e].link /\ resolved(e).deduction = entry[c][e].deduction
             /\ resolved(e).withheld = read[e].deduction /\ resolved(e).of = read[e].link
             /\ resolved(e).stale = overtaken(e)
  <2>1. PICK net \in Int : net = figure[e] - Withheld(read[e])
    <3>1. Withheld(read[e]) \in Int /\ figure[e] \in Int
      BY <1>4, WithheldType, AmountsAssumption
    <3> QED
      BY <3>1
  <2>2. PICK o \in Resolutions : o = OutcomeOf(net)
    BY <2>1 DEF OutcomeOf, Resolutions
  <2>3. PICK line \in EntryRecord : line = entry[c][e]
    BY <1>3, <1>4
  <2>4. PICK w \in [Types -> Nat], of \in [Types -> Advances \cup {None}], stale \in SUBSET Types :
           w = read[e].deduction /\ of = read[e].link /\ stale = overtaken(e)
    BY <1>4 DEF EntryRecord
  <2>5. resolved(e) = [line EXCEPT !.outcome = o, !.withheld = w, !.of = of, !.stale = stale]
    BY <2>1, <2>2, <2>3, <2>4
  <2> HIDE DEF resolved
  <2>6. /\ resolved(e) \in EntryRecord /\ resolved(e).outcome = o
        /\ resolved(e).link = line.link /\ resolved(e).deduction = line.deduction
        /\ resolved(e).withheld = w /\ resolved(e).of = of /\ resolved(e).stale = stale
    BY <2>2, <2>3, <2>4, <2>5, Zenon DEF EntryRecord
  <2> QED
    BY <2>2, <2>3, <2>4, <2>6
<1> HIDE DEF resolved
<1>6. /\ \A d \in Months, e \in Employees : (d # c \/ e \notin S) => entry'[d][e] = entry[d][e]
      /\ \A e \in Employees : e \in S => entry'[c][e] = resolved(e)
      /\ entry' \in [Months -> [Employees -> EntryRecord]]
  <2>1. PICK lines : lines = [e \in Employees |-> IF e \in S THEN resolved(e) ELSE entry[c][e]]
    OBVIOUS
  <2>2. lines \in [Employees -> EntryRecord]
    BY <1>3, <1>4, <1>5, <2>1
  <2>3. entry' = [entry EXCEPT ![c] = lines]
    BY <1>2, <2>1
  <2>4. entry \in [Months -> [Employees -> EntryRecord]]
    BY <1>3 DEF Typed
  <2>5. entry'[c] = lines /\ \A d \in Months : d # c => entry'[d] = entry[d]
    BY <1>3, <2>3, <2>4
  <2>6. entry' \in [Months -> [Employees -> EntryRecord]]
    BY <1>3, <2>2, <2>3, <2>4
  <2> QED
    BY <2>1, <2>5, <2>6
<1>7. ASSUME NEW d \in Months, NEW e \in Employees
      PROVE  /\ entry'[d][e].link = entry[d][e].link /\ entry'[d][e].deduction = entry[d][e].deduction
             /\ entry'[d][e].outcome = "OPEN" => entry'[d][e] = entry[d][e] /\ (d # c \/ e \notin S)
  <2>1. CASE d # c \/ e \notin S
    BY <1>6, <2>1
  <2>2. CASE d = c /\ e \in S
    <3>1. resolved(e).outcome # "OPEN"
      BY <1>5 DEF Resolutions
    <3> QED
      BY <1>5, <1>6, <2>2, <3>1
  <2> QED
    BY <2>1, <2>2
<1>8. ASSUME NEW a \in Advances
      PROVE  /\ advance'[a] \in AdvanceRecord
             /\ SameAdvance(advance'[a], advance[a])
             /\ advance'[a].outstanding = advance[a].outstanding /\ advance'[a].total = advance[a].total
             /\ advance[a].status = "NONE" <=> advance'[a].status = "NONE"
             /\ Open(advance'[a]) => Open(advance[a])
             /\ a \notin Settled(c, S) => advance'[a] = advance[a]
  <2>1. PICK row \in AdvanceRecord : row = advance[a]
    BY <1>3 DEF Typed
  <2>2. advance'[a] = IF a \in Settled(c, S) THEN [row EXCEPT !.status = "PAID_OFF"] ELSE row
    BY <1>2, <2>1
  <2>3. a \in Settled(c, S) => row.status = "RESERVED"
    BY <2>1 DEF Settled
  <2>4. CASE a \in Settled(c, S)
    BY <2>1, <2>2, <2>3, <2>4 DEF AdvanceRecord, SameAdvance, Open
  <2>5. CASE a \notin Settled(c, S)
    BY <2>1, <2>2, <2>5 DEF SameAdvance
  <2> QED
    BY <2>4, <2>5
<1> QED
  BY <1>1, <1>3, <1>4, <1>5, <1>6, <1>7, <1>8 DEF overtaken

(* A sweep settles the advances it deducts the last part of: no other entry carries them. *)
LEMMA ReleaseCommitted ==
  ASSUME AdvancesInv, NEW t \in Txns, NEW figure \in [Employees -> Figures], CommitRelease(t, figure)
  PROVE  AdvancesInv'
<1>1. PICK c, S : c = txn[t].month /\ S = txn[t].roster
  OBVIOUS
<1>2. /\ txn[t].kind = "release" /\ txn' = Bumped({c} \X S, Ended(t))
      /\ advance' = [a \in Advances |->
                       IF a \in Settled(c, S) THEN [advance[a] EXCEPT !.status = "PAID_OFF"] ELSE advance[a]]
      /\ UNCHANGED <<cycleStatus, departed>>
  BY <1>1, Zenon DEF CommitRelease
<1>3. c \in Months /\ Current(c) /\ Typed
  BY <1>1, ReleaseWrites DEF AdvancesInv
<1>4. S \subseteq Employees
  BY <1>1, ReleaseWrites
<1>5. /\ \A d \in Months, e \in Employees : (d # c \/ e \notin S) => entry'[d][e] = entry[d][e]
      /\ entry' \in [Months -> [Employees -> EntryRecord]]
  BY <1>1, ReleaseWrites
<1>6. ASSUME NEW d \in Months, NEW e \in Employees
      PROVE  /\ entry'[d][e].link = entry[d][e].link /\ entry'[d][e].deduction = entry[d][e].deduction
             /\ entry'[d][e].outcome = "OPEN" => entry'[d][e] = entry[d][e] /\ (d # c \/ e \notin S)
  BY <1>1, ReleaseWrites
<1>7. ASSUME NEW a \in Advances
      PROVE  /\ advance'[a] \in AdvanceRecord
             /\ SameAdvance(advance'[a], advance[a])
             /\ advance'[a].outstanding = advance[a].outstanding /\ advance'[a].total = advance[a].total
             /\ advance[a].status = "NONE" <=> advance'[a].status = "NONE"
             /\ Open(advance'[a]) => Open(advance[a])
             /\ a \notin Settled(c, S) => advance'[a] = advance[a]
  BY <1>1, ReleaseWrites
<1>8. /\ txn' \in [Txns -> Requesting] /\ txn'[t].kind = "none"
      /\ \A u \in Txns \ {t} : /\ Held(txn'[u], txn[u]) /\ txn[u].kind # "rollover"
                               /\ txn'[u].valid /\ txn'[u].kind \in Guarded => txn'[u].at \notin {c} \X S
  BY <1>2, EndedRequests, Zenon
<1>9. Typed'
  <2>1. advance' \in [Advances -> AdvanceRecord]
    BY <1>2, <1>7
  <2> QED
    BY <1>2, <1>3, <1>5, <1>8, <2>1, Zenon DEF Typed
<1>10. LinksStay /\ NoNewLinks
  BY <1>6 DEF LinksStay, NoNewLinks
<1>11. AdvancesKept
  BY <1>7 DEF AdvancesKept, Made, SameAdvance
<1>12. SameMonths
  <2>1. ASSUME NEW d \in Months, NEW e \in Employees, cycleStatus[d] = "NONE"
        PROVE  entry'[d][e] = entry[d][e]
    <3>1. d # c
      BY <1>3, <2>1 DEF Current
    <3> QED
      BY <1>5, <3>1
  <2> QED
    BY <1>2, <2>1 DEF SameMonths, Current
<1>13. MonthsKept
  BY <1>12 DEF SameMonths, MonthsKept
<1>14. NoneOpened
  BY <1>7 DEF NoneOpened
<1>15. ClosedCarriesNothing
  <2>1. SUFFICES ASSUME NEW d \in Months, NEW e \in Employees, NEW x \in Types, NEW a \in Advances,
                        Open(advance[a]), ~Open(advance'[a]), Current(d), entry'[d][e].link[x] = a,
                        entry'[d][e].outcome = "OPEN"
        PROVE  FALSE
    BY DEF ClosedCarriesNothing
  <2>2. a \in Settled(c, S)
    BY <1>7, <2>1
  <2>3. PICK w \in S : \E y \in Types : entry[c][w].link[y] = a
    BY <2>2 DEF Settled, CarriedBy
  <2>4. w \in Employees /\ advance[a].employee = w
    BY <1>3, <1>4, <2>3 DEF AdvancesInv, RowsOK, LinksOK
  <2>5. advance[a].employee = e
    BY <1>6, <2>1 DEF AdvancesInv, RowsOK, LinksOK
  <2>6. d = c
    BY <1>3, <2>1 DEF AdvancesInv, RowsOK, MonthsOK
  <2> QED
    BY <1>6, <2>1, <2>3, <2>4, <2>5, <2>6
<1>16. ASSUME NEW a \in Advances, Made(advance[a])  PROVE Balanced(a)'
  BY <1>6, <1>7, <1>9, <1>16, BalanceKept
<1>17. RowsOK'
  BY <1>9, <1>10, <1>11, <1>12, <1>14, <1>15, <1>16, RowsKept
<1>18. ASSUME NEW u \in Txns \ {t}  PROVE LineKept(u)
  <2>1. SUFFICES ASSUME txn[u].kind \in Guarded, txn'[u].valid, txn[u].at \in Slots
        PROVE  SameLine(At(txn[u].at)', At(txn[u].at))
    BY DEF LineKept
  <2>2. PICK m \in Months, x \in Employees : txn[u].at = <<m, x>>
    BY <2>1 DEF Slots
  <2>3. txn'[u].at = <<m, x>> /\ <<m, x>> \notin {c} \X S
    BY <1>8, <2>1, <2>2 DEF Held
  <2>4. entry'[m][x] = entry[m][x]
    BY <1>5, <2>3
  <2> QED
    BY <2>2, <2>3, <2>4 DEF SameLine, At
<1> QED
  BY <1>8, <1>9, <1>10, <1>11, <1>13, <1>17, <1>18, CommitStep

(* The advances a rollover takes a deduction for. *)
Taken(t) == {a \in txn[t].due : /\ txn[t].rows[a].employee \in txn[t].roster \cup txn[t].held
                               /\ Standing(txn[t].rows[a])}

(* A rollover has read what the advances it takes are, and nobody else is running: it    *)
(* deducts for each of them in the entry it opens for its employee, and for no other.    *)
LEMMA RolloverWrites ==
  ASSUME AdvancesInv, NEW t \in Txns, CommitRollover(t)
  PROVE  LET c == txn[t].month  d == c + 1  taking == Taken(t) IN
         /\ c \in Months /\ d \in Months /\ c # d
         /\ cycleStatus[c] = "RELEASED" /\ cycleStatus[d] = "NONE"
         /\ \A a \in taking :
               /\ a \in Advances /\ txn[t].rows[a] = advance[a] /\ Open(advance[a]) /\ Made(advance[a])
               /\ advance[a] \in AdvanceRecord /\ advance'[a] \in AdvanceRecord
               /\ Due(advance[a]) \in Nat /\ Due(advance[a]) <= advance[a].outstanding
               /\ Open(advance'[a]) /\ SameAdvance(advance'[a], advance[a])
               /\ advance'[a].outstanding = advance[a].outstanding - Due(advance[a])
               /\ advance'[a].total = advance[a].total
               /\ advance'[a].period = Deducted(advance[a], d).period
         /\ \A a \in Advances : a \notin taking => advance'[a] = advance[a]
         /\ advance' \in [Advances -> AdvanceRecord] /\ OnePerType(advance')
         /\ entry' \in [Months -> [Employees -> EntryRecord]]
         /\ \A m \in Months, e \in Employees : m # d => entry'[m][e] = entry[m][e]
         /\ \A e \in Employees, y \in Types, a \in Advances :
               /\ entry'[d][e].link[y] = a <=> a \in taking /\ advance[a].employee = e /\ advance[a].type = y
               /\ entry'[d][e].link[y] = a => entry'[d][e].deduction[y] = Due(advance[a])
         /\ \A e \in Employees, y \in Types :
               /\ entry'[d][e].outcome \in {"NONE", "OPEN"} /\ entry'[d][e].of[y] = None
               /\ entry'[d][e].outcome = "NONE" => entry'[d][e].link[y] = None
         /\ txn' \in [Txns -> Requesting] /\ \A u \in Txns : txn'[u] = Idle
         /\ cycleStatus' \in [Months -> {"NONE", "DRAFT", "RELEASED", "ARCHIVED"}]
         /\ cycleStatus'[c] = "ARCHIVED" /\ cycleStatus'[d] = "DRAFT"
         /\ \A m \in Months : m # c /\ m # d => cycleStatus'[m] = cycleStatus[m]
<1> DEFINE c      == txn[t].month
           d      == c + 1
           row    == txn[t].rows
           due    == txn[t].due
           roster == txn[t].roster
           held   == txn[t].held
           taking == Taken(t)
           final  == [a \in taking |-> Deducted(row[a], d)]
           bootstrapped(e) == IF e \in roster THEN FreshEntry
                              ELSE IF e \in held THEN [FreshEntry EXCEPT !.hold = TRUE] ELSE NoEntry
           of(e, y) == {a \in taking : row[a].employee = e /\ row[a].type = y}
           opened(e) == [bootstrapped(e) EXCEPT
                      !.link      = [y \in Types |-> IF of(e, y) = {} THEN None ELSE Max(of(e, y))],
                      !.deduction = [y \in Types |-> IF of(e, y) = {} THEN 0 ELSE Due(row[Max(of(e, y))])]]
<1>1. c = txn[t].month /\ d = c + 1 /\ row = txn[t].rows /\ due = txn[t].due
  OBVIOUS
<1>2. roster = txn[t].roster /\ held = txn[t].held
  OBVIOUS
<1>3. /\ taking = {a \in due : row[a].employee \in roster \cup held /\ Standing(row[a])}
      /\ txn[t].kind = "rollover" /\ txn[t].pc = "commit"
      /\ cycleStatus' = [cycleStatus EXCEPT ![c] = "ARCHIVED", ![d] = "DRAFT"]
      /\ advance' = [a \in Advances |-> IF a \notin taking THEN advance[a]
                     ELSE [advance[a] EXCEPT !.outstanding = final[a].outstanding,
                                             !.status = final[a].status, !.period = final[a].period]]
      /\ OnePerType(advance')
      /\ entry' = [entry EXCEPT ![d] = [e \in Employees |-> opened(e)]]
      /\ txn' = Ended(t)
      /\ UNCHANGED departed
  BY Zenon DEF CommitRollover, Taken
<1> HIDE DEF c, d, row, due, roster, held
<1>4. /\ c \in Months /\ d \in Months /\ c # d
      /\ cycleStatus[c] = "RELEASED" /\ cycleStatus[d] = "NONE"
      /\ \A u \in Txns \ {t} : txn[u] = Idle
      /\ \A a \in due : row[a] = advance[a] /\ advance[a].status = "ACTIVE"
      /\ due \subseteq Advances /\ Typed
  <2>1. RolloverOK(t) /\ txn[t] \in Requesting /\ Typed
    BY DEF AdvancesInv, RequestOK, Typed
  <2>2. c # d
    BY <1>1, <1>3, <2>1, Zenon DEF RolloverOK, Months
  <2> QED
    BY <1>1, <1>3, <2>1, <2>2, Zenon DEF RolloverOK, Requesting
<1>5. ASSUME NEW a \in taking
      PROVE  /\ a \in Advances /\ row[a] = advance[a] /\ Open(advance[a]) /\ Made(advance[a])
             /\ advance[a] \in AdvanceRecord /\ final[a] = Deducted(advance[a], d)
  <2>1. a \in due
    BY <1>3, Zenon
  <2>2. advance[a].status = "ACTIVE" /\ row[a] = advance[a] /\ a \in Advances
    BY <1>4, <2>1
  <2>3. final[a] = Deducted(row[a], d)
    OBVIOUS
  <2> QED
    BY <1>4, <2>2, <2>3 DEF Open, Typed, AdvancesInv, RowsOK, BalancesOK
<1>6. \A e \in Employees, y \in Types, a \in Advances :
         a \in of(e, y) <=> a \in taking /\ advance[a].employee = e /\ advance[a].type = y
  BY <1>5
<1>7. \A e \in Employees, y \in Types : of(e, y) \subseteq taking /\ of(e, y) \subseteq Advances
  BY <1>5
<1> HIDE DEF taking, final
<1>8. ASSUME NEW e \in Employees, NEW y \in Types, NEW a \in Advances, a \in of(e, y)
      PROVE  of(e, y) = {a} /\ Max(of(e, y)) = a
  <2>1. ASSUME NEW b \in of(e, y)  PROVE b = a
    <3>1. b \in Advances /\ b \in taking /\ a \in taking
      BY <1>7, <1>8, <2>1
    <3>2. advance[a].employee = e /\ advance[a].type = y /\ advance[b].employee = e /\ advance[b].type = y
      BY <1>6, <1>8, <2>1, <3>1
    <3>3. Open(advance[a]) /\ Open(advance[b])
      BY <1>5, <3>1
    <3> QED
      BY <3>1, <3>2, <3>3 DEF AdvancesInv, RowsOK, BalancesOK, OnePerType
  <2>2. of(e, y) = {a}
    BY <1>8, <2>1
  <2>3. a \in Nat
    BY AdvancesAssumption
  <2>4. Max({a}) = a
    BY <2>3 DEF Max
  <2> QED
    BY <2>2, <2>4
<1> HIDE DEF of
<1>9. ASSUME NEW a \in taking
      PROVE  /\ Due(advance[a]) \in Nat /\ Due(advance[a]) <= advance[a].outstanding
             /\ advance'[a] \in AdvanceRecord /\ Open(advance'[a]) /\ SameAdvance(advance'[a], advance[a])
             /\ advance'[a].outstanding = advance[a].outstanding - Due(advance[a])
             /\ advance'[a].total = advance[a].total
             /\ advance'[a].period = Deducted(advance[a], d).period
  <2>1. PICK p, new : p = advance[a] /\ new = Deducted(p, d)
    OBVIOUS
  <2>2. a \in Advances /\ p \in AdvanceRecord /\ Made(p) /\ final[a] = new
    BY <1>5, <2>1
  <2>3. d \in 0 .. LastMonth
    BY <1>4, LastMonthAssumption DEF Months
  <2>4. /\ Due(p) \in Nat /\ Due(p) <= p.outstanding
        /\ new \in AdvanceRecord /\ Open(new) /\ SameAdvance(new, p)
        /\ new.outstanding = p.outstanding - Due(p) /\ new.total = p.total
    BY <2>1, <2>2, <2>3, DeductedRow
  <2>5. advance'[a] = [p EXCEPT !.outstanding = new.outstanding, !.status = new.status, !.period = new.period]
    BY <1>3, <2>1, <2>2
  <2>6. PICK o, s, m : o = new.outstanding /\ s = new.status /\ m = new.period
    OBVIOUS
  <2>7. /\ o \in Nat /\ s \in {"NONE", "ACTIVE", "RESERVED", "PAID_OFF", "CANCELLED"} /\ m \in 0 .. LastMonth + 1
        /\ s \in {"ACTIVE", "RESERVED"}
    BY <2>4, <2>6 DEF AdvanceRecord, Open
  <2>8. advance'[a] = [p EXCEPT !.outstanding = o, !.status = s, !.period = m]
    BY <2>5, <2>6
  <2>9. /\ advance'[a] \in AdvanceRecord /\ advance'[a].status = s /\ SameAdvance(advance'[a], p)
        /\ advance'[a].outstanding = o /\ advance'[a].total = p.total /\ advance'[a].period = m
    BY <2>2, <2>7, <2>8, Zenon DEF AdvanceRecord, SameAdvance
  <2> QED
    BY <2>1, <2>4, <2>6, <2>7, <2>9 DEF Open
<1>10. \A a \in Advances : a \notin taking => advance'[a] = advance[a]
  BY <1>3
<1>11. ASSUME NEW e \in Employees
       PROVE  /\ opened(e) \in EntryRecord
              /\ opened(e).link = [y \in Types |-> IF of(e, y) = {} THEN None ELSE Max(of(e, y))]
              /\ opened(e).deduction = [y \in Types |-> IF of(e, y) = {} THEN 0 ELSE Due(row[Max(of(e, y))])]
              /\ opened(e).outcome = (IF e \in roster \cup held THEN "OPEN" ELSE "NONE")
              /\ \A y \in Types : opened(e).of[y] = None
  <2>1. PICK blank \in EntryRecord :
           /\ blank = bootstrapped(e)
           /\ blank.outcome = (IF e \in roster \cup held THEN "OPEN" ELSE "NONE")
           /\ \A y \in Types : blank.of[y] = None
    <3>1. /\ FreshEntry \in EntryRecord /\ NoEntry \in EntryRecord
          /\ FreshEntry.outcome = "OPEN" /\ NoEntry.outcome = "NONE"
          /\ \A y \in Types : FreshEntry.of[y] = None /\ NoEntry.of[y] = None
      BY EmptyRows
    <3>2. PICK fresh \in EntryRecord : fresh = FreshEntry
      BY <3>1
    <3>3. PICK kept : kept = [fresh EXCEPT !.hold = TRUE]
      OBVIOUS
    <3>4. kept \in EntryRecord /\ kept.outcome = fresh.outcome /\ kept.of = fresh.of
      BY <3>2, <3>3 DEF EntryRecord
    <3>5. CASE e \in roster
      BY <3>1, <3>5
    <3>6. CASE e \in held /\ e \notin roster
      <4>1. bootstrapped(e) = kept
        BY <3>2, <3>3, <3>6
      <4> QED
        BY <3>1, <3>2, <3>4, <3>6, <4>1
    <3>7. CASE e \notin roster \cup held
      BY <3>1, <3>7
    <3> QED
      BY <3>5, <3>6, <3>7
  <2>2. PICK link, deduction : /\ link = [y \in Types |-> IF of(e, y) = {} THEN None ELSE Max(of(e, y))]
                               /\ deduction = [y \in Types |-> IF of(e, y) = {} THEN 0 ELSE Due(row[Max(of(e, y))])]
    OBVIOUS
  <2>3. ASSUME NEW y \in Types, of(e, y) # {}
        PROVE  Max(of(e, y)) \in Advances /\ Due(row[Max(of(e, y))]) \in Nat
    <3>1. PICK a \in of(e, y) : a \in Advances /\ a \in taking
      BY <1>7, <2>3
    <3>2. Max(of(e, y)) = a
      BY <1>8, <3>1
    <3> QED
      BY <1>5, <1>9, <3>1, <3>2
  <2>4. link \in [Types -> Advances \cup {None}] /\ deduction \in [Types -> Nat]
    BY <2>2, <2>3
  <2>5. opened(e) = [blank EXCEPT !.link = link, !.deduction = deduction]
    BY <2>1, <2>2
  <2> HIDE DEF opened
  <2>6. /\ opened(e) \in EntryRecord /\ opened(e).link = link /\ opened(e).deduction = deduction
        /\ opened(e).outcome = blank.outcome /\ opened(e).of = blank.of
    BY <2>4, <2>5 DEF EntryRecord
  <2> QED
    BY <2>1, <2>2, <2>6
<1> HIDE DEF opened
<1>12. /\ entry' \in [Months -> [Employees -> EntryRecord]]
       /\ \A e \in Employees : entry'[d][e] = opened(e)
       /\ \A m \in Months, e \in Employees : m # d => entry'[m][e] = entry[m][e]
  <2>1. PICK lines : lines = [e \in Employees |-> opened(e)]
    BY Zenon
  <2>2. lines \in [Employees -> EntryRecord]
    BY <1>11, <2>1
  <2>3. entry' = [entry EXCEPT ![d] = lines] /\ entry \in [Months -> [Employees -> EntryRecord]]
    BY <1>3, <1>4, <2>1 DEF Typed
  <2> QED
    BY <1>4, <2>1, <2>2, <2>3
<1>13. ASSUME NEW e \in Employees, NEW y \in Types, NEW a \in Advances
       PROVE  /\ entry'[d][e].link[y] = a <=> a \in taking /\ advance[a].employee = e /\ advance[a].type = y
              /\ entry'[d][e].link[y] = a => entry'[d][e].deduction[y] = Due(advance[a])
  <2>1. /\ entry'[d][e].link[y] = IF of(e, y) = {} THEN None ELSE Max(of(e, y))
        /\ entry'[d][e].deduction[y] = IF of(e, y) = {} THEN 0 ELSE Due(row[Max(of(e, y))])
    <3>1. PICK line : line = entry'[d][e]
      OBVIOUS
    <3>2. line = opened(e)
      BY <1>12, <3>1
    <3>3. /\ line.link = [x \in Types |-> IF of(e, x) = {} THEN None ELSE Max(of(e, x))]
          /\ line.deduction = [x \in Types |-> IF of(e, x) = {} THEN 0 ELSE Due(row[Max(of(e, x))])]
      BY <1>11, <3>2
    <3> QED
      BY <3>1, <3>3
  <2>2. CASE of(e, y) = {}
    BY <1>6, <2>1, <2>2, NoneAssumption
  <2>3. CASE of(e, y) # {}
    <3>1. PICK b \in of(e, y) : b \in Advances /\ b \in taking
      BY <1>7, <2>3
    <3>2. of(e, y) = {b} /\ Max(of(e, y)) = b
      BY <1>8, <3>1
    <3>3. row[b] = advance[b]
      BY <1>5, <3>1
    <3> QED
      BY <1>6, <2>1, <2>3, <3>1, <3>2, <3>3
  <2> QED
    BY <2>2, <2>3
<1>14. /\ txn' \in [Txns -> Requesting] /\ \A u \in Txns : txn'[u] = Idle
  BY <1>3, <1>4, IdleRequest DEF Ended, Typed
<1>15. \A a \in Advances : advance'[a] \in AdvanceRecord
  BY <1>4, <1>9, <1>10 DEF Typed
<1>16. /\ cycleStatus' \in [Months -> {"NONE", "DRAFT", "RELEASED", "ARCHIVED"}]
       /\ cycleStatus'[c] = "ARCHIVED" /\ cycleStatus'[d] = "DRAFT"
       /\ \A m \in Months : m # c /\ m # d => cycleStatus'[m] = cycleStatus[m]
  BY <1>3, <1>4 DEF Typed
<1>17. advance' \in [Advances -> AdvanceRecord]
  BY <1>3, <1>15, Zenon
<1> HIDE DEF taking
<1>18. /\ \A a \in taking :
            /\ a \in Advances /\ row[a] = advance[a] /\ Open(advance[a]) /\ Made(advance[a])
            /\ advance[a] \in AdvanceRecord /\ advance'[a] \in AdvanceRecord
            /\ Due(advance[a]) \in Nat /\ Due(advance[a]) <= advance[a].outstanding
            /\ Open(advance'[a]) /\ SameAdvance(advance'[a], advance[a])
            /\ advance'[a].outstanding = advance[a].outstanding - Due(advance[a])
            /\ advance'[a].total = advance[a].total
            /\ advance'[a].period = Deducted(advance[a], d).period
  BY <1>5, <1>9
<1>19. OnePerType(advance')
  BY <1>3
<1>20. /\ c \in Months /\ d \in Months /\ c # d
       /\ cycleStatus[c] = "RELEASED" /\ cycleStatus[d] = "NONE"
  BY <1>4
<1>21. /\ entry' \in [Months -> [Employees -> EntryRecord]]
       /\ \A m \in Months, e \in Employees : m # d => entry'[m][e] = entry[m][e]
  BY <1>12
<1>22. ASSUME NEW e \in Employees, NEW y \in Types
       PROVE  /\ entry'[d][e].outcome \in {"NONE", "OPEN"} /\ entry'[d][e].of[y] = None
              /\ entry'[d][e].outcome = "NONE" => entry'[d][e].link[y] = None
  <2>1. /\ entry'[d][e].outcome = (IF e \in roster \cup held THEN "OPEN" ELSE "NONE")
        /\ entry'[d][e].of[y] = None
    BY <1>11, <1>12, Zenon
  <2>2. ASSUME e \notin roster \cup held  PROVE entry'[d][e].link[y] = None
    <3>1. ASSUME NEW a \in Advances, entry'[d][e].link[y] = a  PROVE FALSE
      <4>1. a \in taking /\ advance[a].employee = e
        BY <1>13, <3>1
      <4>2. row[a].employee = e /\ row[a].employee \in roster \cup held
        BY <1>3, <1>5, <4>1
      <4> QED
        BY <2>2, <4>2
    <3>2. entry'[d][e].link[y] \in Advances \cup {None}
      BY <1>4, <1>21 DEF EntryRecord
    <3> QED
      BY <3>1, <3>2
  <2> QED
    BY <2>1, <2>2
<1> QED
  BY <1>10, <1>13, <1>14, <1>16, <1>17, <1>18, <1>19, <1>20, <1>21, <1>22 DEF taking, c, d, row

(* So it leaves the rows as the invariant has them. *)
LEMMA RolloverCommitted ==
  ASSUME AdvancesInv, NEW t \in Txns, CommitRollover(t)
  PROVE  AdvancesInv'
<1>1. PICK c, d, taking : c = txn[t].month /\ d = c + 1 /\ taking = Taken(t)
  OBVIOUS
<1>2. Typed /\ departed' = departed
  BY Zenon DEF AdvancesInv, CommitRollover
<1>3. OnePerType(advance') /\ advance' \in [Advances -> AdvanceRecord]
  BY RolloverWrites
<1>4. /\ c \in Months /\ d \in Months /\ c # d
      /\ cycleStatus[c] = "RELEASED" /\ cycleStatus[d] = "NONE"
  BY <1>1, RolloverWrites
<1>5. \A a \in taking : /\ a \in Advances /\ Open(advance[a]) /\ Made(advance[a])
                         /\ advance[a] \in AdvanceRecord
  BY <1>1, RolloverWrites
<1>6. \A a \in taking :
         /\ Due(advance[a]) \in Nat /\ Due(advance[a]) <= advance[a].outstanding
         /\ advance'[a] \in AdvanceRecord /\ Open(advance'[a]) /\ SameAdvance(advance'[a], advance[a])
         /\ advance'[a].outstanding = advance[a].outstanding - Due(advance[a])
         /\ advance'[a].total = advance[a].total
  BY <1>1, RolloverWrites
<1>7. \A a \in Advances : a \notin taking => advance'[a] = advance[a]
  BY <1>1, RolloverWrites
<1>8. /\ entry' \in [Months -> [Employees -> EntryRecord]]
       /\ \A m \in Months, e \in Employees : m # d => entry'[m][e] = entry[m][e]
  BY <1>1, RolloverWrites
<1>9. \A e \in Employees, y \in Types, a \in Advances :
          /\ entry'[d][e].link[y] = a <=> a \in taking /\ advance[a].employee = e /\ advance[a].type = y
          /\ entry'[d][e].link[y] = a => entry'[d][e].deduction[y] = Due(advance[a])
  BY <1>1, RolloverWrites
<1>10. txn' \in [Txns -> Requesting] /\ \A u \in Txns : txn'[u] = Idle
  BY RolloverWrites
<1>11. /\ cycleStatus' \in [Months -> {"NONE", "DRAFT", "RELEASED", "ARCHIVED"}]
       /\ cycleStatus'[c] = "ARCHIVED" /\ cycleStatus'[d] = "DRAFT"
       /\ \A m \in Months : m # c /\ m # d => cycleStatus'[m] = cycleStatus[m]
  BY <1>1, RolloverWrites
<1>12. Typed'
  BY <1>2, <1>3, <1>8, <1>10, <1>11 DEF Typed
<1>13. \A m \in Months : Current(m)' <=> m = d
  BY <1>4, <1>11 DEF AdvancesInv, RowsOK, MonthsOK, Current
<1>14. MonthsOK'
  <2>1. ASSUME NEW m \in Months, NEW e \in Employees, cycleStatus'[m] = "NONE"
        PROVE  entry'[m][e].outcome = "NONE" /\ \A y \in Types : entry'[m][e].link[y] = None
    <3>1. m # d /\ cycleStatus[m] = "NONE"
      BY <1>11, <2>1
    <3> QED
      BY <1>8, <3>1 DEF AdvancesInv, RowsOK, MonthsOK
  <2> QED
    BY <1>13, <2>1 DEF MonthsOK, Current
<1>15. \A a \in Advances : SameAdvance(advance'[a], advance[a]) /\ (Open(advance[a]) => Open(advance'[a]))
  BY <1>6, <1>7 DEF SameAdvance
<1>16. \A a \in Advances : Made(advance[a]) => Made(advance'[a])
  BY <1>6, <1>7 DEF SameAdvance, Made, Open
<1>17. LinksOK'
  <2>1. SUFFICES ASSUME NEW m \in Months, NEW e \in Employees, NEW y \in Types, NEW a \in Advances,
                        entry'[m][e].link[y] = a
        PROVE  /\ Made(advance'[a]) /\ advance'[a].employee = e /\ advance'[a].type = y
               /\ Current(m)' => Open(advance'[a])
    BY DEF LinksOK, Current
  <2>2. CASE m = d
    <3>1. a \in taking /\ advance[a].employee = e /\ advance[a].type = y
      BY <1>9, <2>1, <2>2
    <3> QED
      BY <1>5, <1>15, <1>16, <3>1 DEF SameAdvance
  <2>3. CASE m # d
    <3>1. entry[m][e].link[y] = a
      BY <1>8, <2>1, <2>3
    <3>2. Made(advance[a]) /\ advance[a].employee = e /\ advance[a].type = y
      BY <3>1 DEF AdvancesInv, RowsOK, LinksOK
    <3> QED
      BY <1>13, <1>15, <1>16, <2>3, <3>2 DEF SameAdvance
  <2> QED
    BY <2>2, <2>3
<1>18. \A e \in Employees, y \in Types : entry[d][e].link[y] = None
  BY <1>4 DEF AdvancesInv, RowsOK, MonthsOK
<1>19. ASSUME NEW a \in Advances, a \in taking  PROVE Balanced(a)'
  <2>1. PICK e \in Employees, y \in Types : e = advance[a].employee /\ y = advance[a].type
    BY <1>5, <1>19 DEF Made
  <2>2. PICK r : r = Due(advance[a])
    OBVIOUS
  <2>3. advance'[a].employee = e /\ advance'[a].type = y
    BY <1>15, <2>1 DEF SameAdvance
  <2>4. entry'[d][e].link[y] = a /\ entry'[d][e].deduction[y] = r
    BY <1>9, <1>19, <2>1, <2>2
  <2>5. (Deductions(a)')[d] = r
    BY <1>4, <2>3, <2>4 DEF Deductions
  <2>6. Deductions(a)[d] = 0
    BY <1>4, <1>18, <2>1, NoneAssumption DEF Deductions
  <2>7. PICK s, z : s = SumFunctionOnSet(Deductions(a), Months) /\ z = SumFunctionOnSet(Deductions(a), Months)'
    OBVIOUS
  <2>8. r \in Nat /\ r <= advance[a].outstanding /\ advance'[a].outstanding = advance[a].outstanding - r
        /\ advance'[a].total = advance[a].total
    BY <1>6, <1>19, <2>2
  <2>9. z = s - 0 + r /\ s \in Nat
    <3>1. advance'[a].employee = advance[a].employee /\ advance'[a].type = advance[a].type
      BY <2>1, <2>3
    <3>2. Made(advance[a])
      BY <1>5, <1>19
    <3>3. \A m \in Months, x \in Employees : m # d => entry'[m][x] = entry[m][x]
      BY <1>8
    <3> QED
      BY <1>2, <1>4, <1>12, <2>5, <2>6, <2>7, <2>8, <3>1, <3>2, <3>3, DeductionsChange
  <2>10. advance[a].outstanding + s <= advance[a].total
    BY <1>5, <1>19, <2>7 DEF AdvancesInv, RowsOK, BalancesOK, Made
  <2>11. advance[a].outstanding \in Nat /\ advance[a].total \in Nat
    BY <1>5, <1>19 DEF AdvanceRecord
  <2>12. advance'[a].outstanding + z <= advance'[a].total
    BY <2>8, <2>9, <2>10, <2>11
  <2> QED
    BY <2>7, <2>12 DEF Balanced
<1>20. BalancesOK'
  <2>1. ASSUME NEW a \in Advances, advance'[a].status # "NONE"
        PROVE  Made(advance'[a]) /\ Balanced(a)'
    <3>1. CASE a \in taking
      BY <1>5, <1>16, <1>19, <3>1
    <3>2. CASE a \notin taking
      <4>1. advance'[a] = advance[a] /\ Made(advance[a])
        BY <1>7, <2>1, <3>2 DEF AdvancesInv, RowsOK, BalancesOK
      <4>2. ASSUME NEW m \in Months, NEW e \in Employees, NEW y \in Types, entry'[m][e].link[y] = a
            PROVE  entry[m][e].link[y] = a /\ entry'[m][e].deduction[y] = entry[m][e].deduction[y]
        <5>1. m # d
          BY <1>9, <3>2, <4>2
        <5> QED
          BY <1>8, <4>2, <5>1
      <4> QED
        BY <1>12, <4>1, <4>2, BalanceKept DEF SameAdvance
    <3> QED
      BY <3>1, <3>2
  <2> QED
    BY <1>3, <2>1 DEF BalancesOK, Balanced, OnePerType
<1>21. RowsOK'
  BY <1>14, <1>17, <1>20 DEF RowsOK
<1>22. \A u \in Txns : RequestOK(u)'
  BY <1>10, IdleRequest, IdleOK
<1> QED
  BY <1>12, <1>21, <1>22, InvariantKept

-----------------------------------------------------------------------------
(* The theorems. *)

(* The invariant holds before any advance is made. *)
LEMMA AdvancesInvInit == Init => AdvancesInv
<1> SUFFICES ASSUME Init  PROVE AdvancesInv
  OBVIOUS
<1>1. /\ advance = [a \in Advances |-> NoAdvance]
      /\ cycleStatus = [c \in Months |-> IF c = 1 THEN "DRAFT" ELSE "NONE"]
      /\ entry = [c \in Months |-> [e \in Employees |-> IF c = 1 THEN FreshEntry ELSE NoEntry]]
      /\ departed = {} /\ txn = [t \in Txns |-> Idle]
  BY DEF Init
<1>2. /\ NoAdvance \in AdvanceRecord /\ NoEntry \in EntryRecord /\ FreshEntry \in EntryRecord
      /\ NoEntry.outcome = "NONE" /\ FreshEntry.outcome = "OPEN"
      /\ \A y \in Types : NoEntry.link[y] = None /\ FreshEntry.link[y] = None
  BY EmptyRows
<1>3. Idle \in Requesting /\ Idle.kind = "none"
  BY IdleRequest
<1>4. \A c \in Months, e \in Employees : entry[c][e] = IF c = 1 THEN FreshEntry ELSE NoEntry
  BY <1>1
<1>5. Typed
  <2>1. entry \in [Months -> [Employees -> EntryRecord]]
    BY <1>1, <1>2
  <2> QED
    BY <1>1, <1>2, <1>3, <2>1 DEF Typed
<1>6. \A c \in Months : Current(c) <=> c = 1
  BY <1>1 DEF Current
<1>7. \A c \in Months, e \in Employees, y \in Types : entry[c][e].link[y] = None
  BY <1>2, <1>4
<1>8. MonthsOK
  <2>1. \A c \in Months, e \in Employees : cycleStatus[c] = "NONE" => entry[c][e].outcome = "NONE"
    BY <1>1, <1>2, <1>4
  <2> QED
    BY <1>6, <1>7, <2>1 DEF MonthsOK
<1>9. LinksOK
  BY <1>7, NoneAssumption DEF LinksOK
<1>10. \A a \in Advances : advance[a].status = "NONE"
  BY <1>1 DEF NoAdvance
<1>11. BalancesOK
  BY <1>10 DEF BalancesOK, OnePerType, Open
<1>12. \A t \in Txns : RequestOK(t)
  BY <1>1, <1>3 DEF RequestOK, ChangeOK, CreateOK, ReleaseOK, RolloverOK, Guarded
<1> QED
  BY <1>5, <1>8, <1>9, <1>11, <1>12 DEF AdvancesInv, RowsOK

(* Every step keeps the invariant, when a rollover overlaps no other request.            *)
LEMMA AdvancesInvNext ==
  ASSUME AdvancesInv, "rollover" \in Alone, [Next]_vars
  PROVE  AdvancesInv'
<1>1. CASE UNCHANGED vars
  <2>1. UNCHANGED <<advance, entry, cycleStatus, departed, txn>>
    BY <1>1 DEF vars
  <2>2. Typed'
    BY <2>1 DEF AdvancesInv, Typed
  <2>3. LinksShrink /\ SameMonths
    BY <2>1 DEF LinksShrink, SameMonths, Current
  <2>4. \A u \in Txns : Held(txn'[u], txn[u]) /\ LineKept(u) /\ (txn[u] = Idle => txn'[u] = Idle)
    BY <2>1 DEF Held, LineKept, SameLine, At
  <2> QED
    BY <2>1, <2>2, <2>3, <2>4, OfficeStep
<1>2. CASE Office
  <2>1. ASSUME NEW c \in Months, Finalize(c)  PROVE AdvancesInv'
    BY <2>1, Finalized
  <2>2. ASSUME NEW slot \in Slots, ToggleHold(slot)  PROVE AdvancesInv'
    BY <2>2, HoldToggled
  <2>3. ASSUME NEW slot \in Slots, DeleteEntry(slot)  PROVE AdvancesInv'
    BY <2>3, EntryDeleted
  <2>4. ASSUME NEW slot \in Slots, NEW y \in Types, NEW amount \in ManualAmounts, TypeDeduction(slot, y, amount)
        PROVE  AdvancesInv'
    BY <2>4, DeductionTyped
  <2>5. ASSUME NEW e \in Employees, Leave(e)  PROVE AdvancesInv'
    BY <2>5, EmployeeLeft
  <2>6. ASSUME NEW e \in Employees, Return(e)  PROVE AdvancesInv'
    BY <2>6, EmployeeReturned
  <2> QED
    BY <1>2, <2>1, <2>2, <2>3, <2>4, <2>5, <2>6 DEF Office
<1>3. ASSUME NEW t \in Txns, Step(t)  PROVE AdvancesInv'
  <2>1. ASSUME NEW e \in Employees, NEW y \in Types, NEW terms \in Terms, NEW p \in Months,
               RequestCreate(t, e, y, terms, p)
        PROVE  AdvancesInv'
    BY <2>1, CreateRequested
  <2>2. CASE ReadTarget(t)
    BY <2>2, TargetRead
  <2>3. ASSUME NEW a \in Advances, CommitCreate(t, a)  PROVE AdvancesInv'
    BY <2>3, CreateCommitted
  <2>4. ASSUME NEW kind \in Guarded, NEW a \in Advances, NEW amount \in Nat, NEW month \in 0 .. LastMonth,
               RequestChange(t, kind, a, amount, month)
        PROVE  AdvancesInv'
    BY <2>4, ChangeRequested
  <2>5. ASSUME NEW a \in Advances, NEW amount \in Totals, RequestChange(t, "edit", a, amount, 0)
        PROVE  AdvancesInv'
    <3>1. amount \in Nat /\ "edit" \in Guarded /\ 0 \in 0 .. LastMonth
      BY AmountsAssumption, LastMonthAssumption DEF Guarded
    <3> QED
      BY <2>4, <2>5, <3>1
  <2>6. ASSUME NEW a \in Advances, RequestChange(t, "cancel", a, 0, 0)  PROVE AdvancesInv'
    <3>1. 0 \in Nat /\ "cancel" \in Guarded /\ 0 \in 0 .. LastMonth
      BY LastMonthAssumption DEF Guarded
    <3> QED
      BY <2>4, <2>6, <3>1
  <2>7. ASSUME NEW a \in Advances, NEW month \in Months, RequestChange(t, "defer", a, 0, month)
        PROVE  AdvancesInv'
    <3>1. 0 \in Nat /\ "defer" \in Guarded /\ month \in 0 .. LastMonth
      BY LastMonthAssumption DEF Guarded, Months
    <3> QED
      BY <2>4, <2>7, <3>1
  <2>8. CASE ReadLiveEntry(t)
    BY <2>8, LiveEntryRead
  <2>9. ASSUME NEW slot \in Slots, ReadCarrier(t, slot)  PROVE AdvancesInv'
    BY <2>9, CarrierRead
  <2>10. CASE CommitEdit(t)
    BY <2>10, EditCommitted
  <2>11. CASE CommitCancel(t)
    BY <2>11, CancelCommitted
  <2>12. CASE CommitDefer(t)
    BY <2>12, DeferCommitted
  <2>13. ASSUME NEW c \in Months, NEW chosen \in SUBSET Employees, RequestRelease(t, c, chosen)
         PROVE  AdvancesInv'
    BY <2>13, ReleaseRequested
  <2>14. ASSUME NEW figure \in [Employees -> Figures], CommitRelease(t, figure)  PROVE AdvancesInv'
    BY <2>14, ReleaseCommitted
  <2>15. ASSUME NEW c \in Months, RequestRollover(t, c)  PROVE AdvancesInv'
    BY <2>15, RolloverRequested
  <2>16. CASE ArchiveAndFindDue(t)
    BY <2>16, DueFound
  <2>17. CASE CommitRollover(t)
    BY <2>17, RolloverCommitted
  <2>18. CASE Abort(t)
    BY <2>18, Aborted
  <2> QED
    BY <1>3, <2>1, <2>2, <2>3, <2>5, <2>6, <2>7, <2>8, <2>9, <2>10, <2>11, <2>12, <2>13, <2>14,
       <2>15, <2>16, <2>17, <2>18 DEF Step
<1> QED
  BY <1>1, <1>2, <1>3 DEF Next

(* So it always holds. *)
LEMMA AdvancesInvAlways ==
  ASSUME "rollover" \in Alone
  PROVE  Spec => []AdvancesInv
<1>1. "rollover" \in Alone
  OBVIOUS
<1>2. AdvancesInv /\ [Next]_vars => AdvancesInv'
  BY <1>1, AdvancesInvNext
<1> QED
  BY <1>2, AdvancesInvInit, PTL DEF Spec

(* Every step leaves the closed advances as they are.                                    *)
LEMMA ClosedNext ==
  ASSUME AdvancesInv, [Next]_vars
  PROVE  ClosedStep
<1>1. CASE UNCHANGED advance
  BY <1>1 DEF ClosedStep
<1>2. ASSUME NEW t \in Txns, NEW a \in Advances, ~(advance[a].status \in {"PAID_OFF", "CANCELLED"}),
             NEW new, advance' = [advance EXCEPT ![a] = new]
      PROVE  ClosedStep
  <2>1. \A b \in Advances : b # a => advance'[b] = advance[b]
    BY <1>2 DEF AdvancesInv, Typed
  <2> QED
    BY <1>2, <2>1 DEF ClosedStep
<1>3. ASSUME NEW t \in Txns, NEW a \in Advances, CommitCreate(t, a)  PROVE ClosedStep
  <2>1. advance[a].status = "NONE"
    BY <1>3 DEF CommitCreate
  <2>2. PICK new : advance' = [advance EXCEPT ![a] = new]
    BY <1>3, Zenon DEF CommitCreate
  <2> QED
    BY <1>2, <2>1, <2>2
<1>4. ASSUME NEW t \in Txns, CommitEdit(t) \/ CommitCancel(t)  PROVE ClosedStep
  <2>1. PICK a : a = txn[t].id
    OBVIOUS
  <2>2. txn[t].kind \in {"edit", "cancel"} /\ txn[t].pc = "commit" /\ SameStatusAndBalance(t)
    BY <1>4 DEF CommitEdit, CommitCancel
  <2>3. PICK new : advance' = [advance EXCEPT ![a] = new]
    BY <1>4, <2>1 DEF CommitEdit, CommitCancel
  <2>4. a \in Advances /\ Open(advance[a])
    BY <2>1, <2>2, Reversed DEF Guarded
  <2> QED
    BY <1>2, <2>3, <2>4 DEF Open
<1>5. ASSUME NEW t \in Txns, CommitDefer(t)  PROVE ClosedStep
  <2>1. PICK a : a = txn[t].id
    OBVIOUS
  <2>2. PICK new : advance' = [advance EXCEPT ![a] = new]
    BY <1>5, <2>1, Zenon DEF CommitDefer
  <2>3. a \in Advances /\ Open(advance[a])
    BY <1>5, <2>1, Deferred
  <2> QED
    BY <1>2, <2>2, <2>3 DEF Open
<1>6. ASSUME NEW t \in Txns, NEW figure \in [Employees -> Figures], CommitRelease(t, figure)  PROVE ClosedStep
  <2>1. \A a \in Advances : advance'[a] # advance[a] => advance[a].status = "RESERVED"
    BY <1>6, Zenon DEF CommitRelease, Settled
  <2> QED
    BY <2>1 DEF ClosedStep
<1>7. ASSUME NEW t \in Txns, CommitRollover(t)  PROVE ClosedStep
  <2>1. \A a \in txn[t].due : advance[a].status = "ACTIVE"
    BY <1>7, Zenon DEF CommitRollover, AdvancesInv, RequestOK, RolloverOK
  <2>2. \A a \in Advances : advance'[a] # advance[a] => a \in txn[t].due
    BY <1>7, Zenon DEF CommitRollover
  <2> QED
    BY <2>1, <2>2 DEF ClosedStep
<1>8. CASE UNCHANGED vars
  BY <1>1, <1>8 DEF vars
<1>9. CASE Office
  BY <1>1, <1>9 DEF Office, Finalize, ToggleHold, DeleteEntry, TypeDeduction, Leave, Return
<1>10. ASSUME NEW t \in Txns, Step(t)  PROVE ClosedStep
  BY <1>1, <1>3, <1>4, <1>5, <1>6, <1>7, <1>10, Zenon
     DEF Step, RequestCreate, ReadTarget, RequestChange, ReadLiveEntry, ReadCarrier, RequestRelease,
         RequestRollover, ArchiveAndFindDue, Abort
<1> QED
  BY <1>8, <1>9, <1>10 DEF Next

-----------------------------------------------------------------------------
(* Sweeps, and what a rollover takes: a second invariant, on top of the first. *)

(* A sweep holds the lock of its month; while no entry it read is deleted, none is      *)
(* resolved either.                                                                     *)
SweepOK(t) ==
    LET q == txn[t] IN
    q.kind = "release" =>
        /\ cycleLock[q.month] = t
        /\ q.valid => \A e \in q.roster : entry[q.month][e].outcome = "OPEN"

(* A month that has not begun is not resolved, and an active advance waits for a month   *)
(* that the schedule knows.                                                              *)
PeriodsOK ==
    /\ period \in [1 .. LastMonth + 1 -> {"NONE", "PENDING", "RESOLVED"}]
    /\ \A c \in Months : cycleStatus[c] = "NONE" => period[c] # "RESOLVED"
    /\ \A a \in Advances : advance[a].status = "ACTIVE" /\ advance[a].period \in Months
                              => period[advance[a].period] # "NONE"

(* The next month's employees, held ones included, are all who have an advance due in    *)
(* it; what the query found are all the advances due.                                    *)
Awaits(a, c) == advance[a].status = "ACTIVE" /\ advance[a].period = c
TakingOK(t) ==
    LET q == txn[t] IN
    q.kind = "rollover" =>
        \A a \in Advances : Awaits(a, q.month + 1) =>
            /\ advance[a].employee \in q.roster \cup q.held
            /\ q.pc = "commit" => a \in q.due

SchedulesInv ==
    /\ cycleLock \in [Months -> Txns \cup {None}]
    /\ PeriodsOK
    /\ \A t \in Txns : SweepOK(t) /\ TakingOK(t)

(* A request that holds what it read keeps its part while its lock and its entries stay. *)
LEMMA SweepKept ==
  ASSUME NEW u \in Txns, SweepOK(u), Held(txn'[u], txn[u]),
         txn[u].kind = "release" =>
            /\ cycleLock'[txn[u].month] = cycleLock[txn[u].month]
            /\ \A e \in txn[u].roster : txn'[u].valid /\ entry[txn[u].month][e].outcome = "OPEN"
                                           => entry'[txn[u].month][e].outcome = "OPEN"
  PROVE  SweepOK(u)'
  BY DEF SweepOK, Held

(* ... and a rollover while nobody writes an advance. *)
LEMMA TakingKept ==
  ASSUME NEW u \in Txns, TakingOK(u), Held(txn'[u], txn[u]), txn[u].kind = "rollover" => advance' = advance
  PROVE  TakingOK(u)'
  BY DEF TakingOK, Held, Awaits

(* A request of another kind has no part in either. *)
LEMMA OtherKind ==
  ASSUME NEW u \in Txns, txn'[u].kind \notin {"release", "rollover"}
  PROVE  SweepOK(u)' /\ TakingOK(u)'
  BY DEF SweepOK, TakingOK

(* Pointing at a period makes it known, and changes no period that is. *)
LEMMA PeriodsKnown ==
  ASSUME PeriodsOK, NEW months, NEW known, known = WithPeriods(months)
  PROVE  /\ known \in [1 .. LastMonth + 1 -> {"NONE", "PENDING", "RESOLVED"}]
         /\ \A p \in 1 .. LastMonth + 1 :
              /\ period[p] # "NONE" => known[p] = period[p]
              /\ known[p] = "RESOLVED" => period[p] = "RESOLVED"
              /\ p \in months => known[p] # "NONE"
<1>1. period \in [1 .. LastMonth + 1 -> {"NONE", "PENDING", "RESOLVED"}]
  BY DEF PeriodsOK
<1> QED
  BY <1>1 DEF WithPeriods

(* The months are periods. *)
LEMMA MonthsArePeriods == Months \subseteq 1 .. LastMonth + 1
  BY LastMonthAssumption DEF Months

(* A commit that writes one advance points it at a period it makes known. *)
LEMMA OneAdvance ==
  ASSUME AdvancesInv, PeriodsOK, NEW a \in Advances, NEW new, advance' = [advance EXCEPT ![a] = new],
         NEW months, period' = WithPeriods(months) \/ period' = period, UNCHANGED cycleStatus,
         new.status = "ACTIVE" /\ new.period \in Months =>
            new.period \in months /\ period' = WithPeriods(months)
  PROVE  PeriodsOK'
<1>1. /\ advance'[a] = new /\ \A b \in Advances : b # a => advance'[b] = advance[b]
  BY DEF AdvancesInv, Typed
<1>2. CASE period' = WithPeriods(months)
  <2>1. /\ period' \in [1 .. LastMonth + 1 -> {"NONE", "PENDING", "RESOLVED"}]
        /\ \A p \in 1 .. LastMonth + 1 :
              /\ period[p] # "NONE" => period'[p] = period[p]
              /\ period'[p] = "RESOLVED" => period[p] = "RESOLVED"
              /\ p \in months => period'[p] # "NONE"
    BY <1>2, PeriodsKnown
  <2>2. \A c \in Months : cycleStatus'[c] = "NONE" => period'[c] # "RESOLVED"
    BY <2>1, MonthsArePeriods DEF PeriodsOK
  <2>3. \A b \in Advances : advance'[b].status = "ACTIVE" /\ advance'[b].period \in Months
                            => period'[advance'[b].period] # "NONE"
    BY <1>1, <2>1, MonthsArePeriods, Zenon DEF PeriodsOK
  <2> QED
    BY <2>1, <2>2, <2>3 DEF PeriodsOK
<1>3. CASE period' # WithPeriods(months)
  BY <1>1, <1>3, Zenon DEF PeriodsOK
<1> QED
  BY <1>2, <1>3

(* A step that writes no advance keeps the periods, when no month begins. *)
LEMMA NoAdvanceWritten ==
  ASSUME PeriodsOK, UNCHANGED <<advance, period>>,
         \A c \in Months : cycleStatus'[c] = "NONE" => cycleStatus[c] = "NONE"
  PROVE  PeriodsOK'
  BY DEF PeriodsOK

(* A line keeps its outcome when a deduction is put in it or taken out. *)
LEMMA SameOutcome ==
  ASSUME Typed, NEW slot \in Slots, NEW new, new.outcome = At(slot).outcome,
         entry' = [entry EXCEPT ![slot[1]][slot[2]] = new]
  PROVE  \A c \in Months, e \in Employees : entry'[c][e].outcome = entry[c][e].outcome
<1>1. PICK m \in Months, x \in Employees : slot = <<m, x>> /\ At(slot) = entry[m][x]
  BY DEF Slots, At
<1>2. \A c \in Months, e \in Employees : entry'[c][e] = IF c = m /\ e = x THEN new ELSE entry[c][e]
  BY <1>1 DEF Typed
<1> QED
  BY <1>1, <1>2

(* What a commit of one entry writes there. *)
LEMMA WrittenLine ==
  ASSUME NEW line \in EntryRecord, NEW a, NEW row, NEW y
  PROVE  /\ Carrying(line, a, row).outcome = line.outcome
         /\ Cleared(line, y).outcome = line.outcome
         /\ [Cleared(line, y) EXCEPT !.deferred = TRUE].outcome = line.outcome
<1>1. PICK link, deduction : /\ link = [line.link EXCEPT ![row.type] = a]
                             /\ deduction = [line.deduction EXCEPT ![row.type] = Due(row)]
  BY Zenon
<1>2. Carrying(line, a, row) = [line EXCEPT !.link = link, !.deduction = deduction]
  BY <1>1 DEF Carrying
<1>3. PICK none, zero : none = [line.link EXCEPT ![y] = None] /\ zero = [line.deduction EXCEPT ![y] = 0]
  BY Zenon
<1>4. Cleared(line, y) = [line EXCEPT !.link = none, !.deduction = zero]
  BY <1>3 DEF Cleared
<1>5. [Cleared(line, y) EXCEPT !.deferred = TRUE] = [line EXCEPT !.link = none, !.deduction = zero, !.deferred = TRUE]
  BY <1>4 DEF EntryRecord
<1> QED
  BY <1>2, <1>4, <1>5 DEF EntryRecord

(* A deduction leaves the advance to be released or taken again, in either case open. *)
LEMMA DeductedStatus ==
  ASSUME NEW row, NEW c, "status" \in DOMAIN row, "period" \in DOMAIN row
  PROVE  Deducted(row, c).status \in {"ACTIVE", "RESERVED"}
  BY DEF Deducted

-----------------------------------------------------------------------------
(* Every step keeps the second invariant. *)

(* The requests, and the lock, of a step that only reads. *)
LEMMA QuietSchedules ==
  ASSUME AdvancesInv, SchedulesInv, NEW t \in Txns, NEW q, txn' = [txn EXCEPT ![t] = q],
         q.kind \notin {"release", "rollover"},
         UNCHANGED <<advance, entry, cycleStatus, period, cycleLock>>
  PROVE  SchedulesInv'
<1>1. PeriodsOK'
  BY NoAdvanceWritten DEF SchedulesInv
<1>2. ASSUME NEW u \in Txns  PROVE SweepOK(u)' /\ TakingOK(u)'
  <2>1. CASE u = t
    <3>1. txn'[u] = q
      BY <2>1 DEF AdvancesInv, Typed
    <3> QED
      BY <3>1, OtherKind
  <2>2. CASE u # t
    <3>1. txn'[u] = txn[u] /\ Held(txn'[u], txn[u])
      BY <2>2 DEF AdvancesInv, Typed, Held
    <3> QED
      BY <3>1, SweepKept, TakingKept DEF SchedulesInv
  <2> QED
    BY <2>1, <2>2
<1> QED
  BY <1>1, <1>2 DEF SchedulesInv

(* The requests of a commit that resolves no entry. *)
LEMMA CommitSchedules ==
  ASSUME AdvancesInv, SchedulesInv, NEW t \in Txns, txn[t].kind # "none", NEW slots,
         txn' = Ended(t) \/ txn' = Bumped(slots, Ended(t)),
         \A c \in Months, e \in Employees : entry'[c][e].outcome = entry[c][e].outcome,
         PeriodsOK', UNCHANGED cycleLock
  PROVE  SchedulesInv'
<1>1. /\ txn'[t].kind = "none"
      /\ \A u \in Txns \ {t} : Held(txn'[u], txn[u]) /\ txn[u].kind # "rollover"
  BY EndedRequests
<1>2. ASSUME NEW u \in Txns  PROVE SweepOK(u)' /\ TakingOK(u)'
  <2>1. CASE u = t
    BY <1>1, <2>1, OtherKind
  <2>2. CASE u # t
    <3>1. txn[u].kind = "release" => txn[u].month \in Months /\ txn[u].roster \subseteq Employees
      BY DEF AdvancesInv, RequestOK, ReleaseOK, Typed, Requesting
    <3> QED
      BY <1>1, <2>2, <3>1, SweepKept, TakingKept DEF SchedulesInv
  <2> QED
    BY <2>1, <2>2
<1> QED
  BY <1>2 DEF SchedulesInv

(* A creation points its advance at the period it was asked for, or the one after.       *)
LEMMA CreateSchedules ==
  ASSUME AdvancesInv, SchedulesInv, NEW t \in Txns, NEW a \in Advances, CommitCreate(t, a)
  PROVE  SchedulesInv'
<1>1. PICK row, slot : row = txn[t].row /\ slot = txn[t].at
  OBVIOUS
<1>2. PICK now \in BOOLEAN : now = (slot # NoSlot /\ Standing(row))
  BY Zenon
<1>3. PICK final : final = IF now THEN Deducted(row, slot[1]) ELSE row
  OBVIOUS
<1>4. /\ txn[t].kind = "create" /\ advance' = [advance EXCEPT ![a] = final]
      /\ entry' = IF now THEN [entry EXCEPT ![slot[1]][slot[2]] = Carrying(@, a, row)] ELSE entry
      /\ txn' = IF now THEN Bumped({slot}, Ended(t)) ELSE Ended(t)
      /\ period' = WithPeriods({row.period} \cup PointedAt(final))
      /\ UNCHANGED <<cycleStatus, cycleLock>>
  BY <1>1, <1>2, <1>3 DEF CommitCreate
<1>5. slot # NoSlot => slot \in Slots
  BY <1>1, <1>4 DEF AdvancesInv, RequestOK, CreateOK
<1>6. final.period \in Months => final.period \in PointedAt(final)
  BY DEF PointedAt, Months
<1>7. PeriodsOK'
  BY <1>4, <1>6, OneAdvance DEF SchedulesInv
<1>8. \A c \in Months, e \in Employees : entry'[c][e].outcome = entry[c][e].outcome
  <2>1. CASE now
    <3>1. slot \in Slots
      BY <1>2, <1>5, <2>1
    <3>2. At(slot) \in EntryRecord /\ Typed
      BY <3>1 DEF AdvancesInv, Typed, Slots, At
    <3>3. PICK new : new = Carrying(At(slot), a, row)
      OBVIOUS
    <3>4. new.outcome = At(slot).outcome
      BY <3>2, <3>3, WrittenLine
    <3>5. entry' = [entry EXCEPT ![slot[1]][slot[2]] = new]
      BY <1>4, <2>1, <3>3 DEF At
    <3> QED
      BY <3>1, <3>2, <3>4, <3>5, SameOutcome
  <2>2. CASE ~now
    BY <1>4, <2>2
  <2> QED
    BY <2>1, <2>2
<1>9. txn' = Ended(t) \/ txn' = Bumped({slot}, Ended(t))
  BY <1>4
<1> QED
  BY <1>4, <1>7, <1>8, <1>9, CommitSchedules

(* An edit points it at the period after the entry that takes it again.                  *)
LEMMA EditSchedules ==
  ASSUME AdvancesInv, SchedulesInv, NEW t \in Txns, CommitEdit(t)
  PROVE  SchedulesInv'
<1>1. PICK a, slot, r, n : a = txn[t].id /\ slot = txn[t].at /\ r = Reversal(t) /\ n = txn[t].amount
  OBVIOUS
<1>2. PICK updated : updated = [advance[a] EXCEPT !.total = n, !.outstanding = n - (txn[t].row.total - Restored(t))]
  OBVIOUS
<1>3. PICK final : final = IF r > 0 THEN Deducted(updated, slot[1]) ELSE updated
  OBVIOUS
<1>4. /\ txn[t].kind = "edit" /\ txn[t].pc = "commit" /\ SameStatusAndBalance(t)
      /\ advance' = [advance EXCEPT ![a] = final]
      /\ entry' = IF r > 0 THEN [entry EXCEPT ![slot[1]][slot[2]] = Carrying(@, a, updated)] ELSE entry
      /\ txn' = IF r > 0 THEN Bumped({slot}, Ended(t)) ELSE Ended(t)
      /\ period' = WithPeriods(PointedAt(final))
      /\ UNCHANGED <<cycleStatus, cycleLock>>
  BY <1>1, <1>2, <1>3 DEF CommitEdit
<1>5. /\ a \in Advances
      /\ slot # NoSlot => slot \in Slots /\ At(slot) \in EntryRecord
      /\ slot = NoSlot => r = 0
  BY <1>1, <1>4, Reversed DEF Guarded
<1>6. final.period \in Months => final.period \in PointedAt(final)
  BY DEF PointedAt, Months
<1>7. PeriodsOK'
  BY <1>4, <1>5, <1>6, OneAdvance DEF SchedulesInv
<1>8. \A c \in Months, e \in Employees : entry'[c][e].outcome = entry[c][e].outcome
  <2>1. CASE r > 0
    <3>1. slot \in Slots /\ At(slot) \in EntryRecord /\ Typed
      BY <1>5, <2>1 DEF AdvancesInv
    <3>2. PICK new : new = Carrying(At(slot), a, updated)
      OBVIOUS
    <3>3. new.outcome = At(slot).outcome
      BY <3>1, <3>2, WrittenLine
    <3>4. entry' = [entry EXCEPT ![slot[1]][slot[2]] = new]
      BY <1>4, <2>1, <3>2 DEF At
    <3> QED
      BY <3>1, <3>3, <3>4, SameOutcome
  <2>2. CASE ~(r > 0)
    BY <1>4, <2>2
  <2> QED
    BY <2>1, <2>2
<1>9. txn' = Ended(t) \/ txn' = Bumped({slot}, Ended(t))
  BY <1>4
<1> QED
  BY <1>4, <1>7, <1>8, <1>9, CommitSchedules

(* A cancelled advance waits for nothing.                                                *)
LEMMA CancelSchedules ==
  ASSUME AdvancesInv, SchedulesInv, NEW t \in Txns, CommitCancel(t)
  PROVE  SchedulesInv'
<1>1. PICK a, slot, r : a = txn[t].id /\ slot = txn[t].at /\ r = Reversal(t)
  OBVIOUS
<1>2. PICK final : final = [advance[a] EXCEPT !.status = "CANCELLED", !.outstanding = Restored(t), !.period = 0]
  OBVIOUS
<1>3. /\ txn[t].kind = "cancel" /\ txn[t].pc = "commit" /\ SameStatusAndBalance(t)
      /\ advance' = [advance EXCEPT ![a] = final]
      /\ entry' = IF r > 0 THEN [entry EXCEPT ![slot[1]][slot[2]] = Cleared(@, txn[t].row.type)] ELSE entry
      /\ txn' = IF r > 0 THEN Bumped({slot}, Ended(t)) ELSE Ended(t)
      /\ UNCHANGED <<cycleStatus, period, cycleLock>>
  BY <1>1, <1>2 DEF CommitCancel
<1>4. /\ a \in Advances
      /\ slot # NoSlot => slot \in Slots /\ At(slot) \in EntryRecord
      /\ slot = NoSlot => r = 0
  BY <1>1, <1>3, Reversed DEF Guarded
<1>5. final.status = "CANCELLED"
  BY <1>2, <1>4 DEF AdvancesInv, Typed, AdvanceRecord
<1>6. PeriodsOK'
  BY <1>3, <1>4, <1>5, OneAdvance DEF SchedulesInv
<1>7. \A c \in Months, e \in Employees : entry'[c][e].outcome = entry[c][e].outcome
  <2>1. CASE r > 0
    <3>1. slot \in Slots /\ At(slot) \in EntryRecord /\ Typed
      BY <1>4, <2>1 DEF AdvancesInv
    <3>2. PICK new : new = Cleared(At(slot), txn[t].row.type)
      OBVIOUS
    <3>3. new.outcome = At(slot).outcome
      BY <3>1, <3>2, WrittenLine
    <3>4. entry' = [entry EXCEPT ![slot[1]][slot[2]] = new]
      BY <1>3, <2>1, <3>2 DEF At
    <3> QED
      BY <3>1, <3>3, <3>4, SameOutcome
  <2>2. CASE ~(r > 0)
    BY <1>3, <2>2
  <2> QED
    BY <2>1, <2>2
<1>8. txn' = Ended(t) \/ txn' = Bumped({slot}, Ended(t))
  BY <1>3
<1> QED
  BY <1>3, <1>6, <1>7, <1>8, CommitSchedules

(* A deferred one waits for the month it is deferred to.                                 *)
LEMMA DeferSchedules ==
  ASSUME AdvancesInv, SchedulesInv, NEW t \in Txns, CommitDefer(t)
  PROVE  SchedulesInv'
<1>1. PICK a, slot : a = txn[t].id /\ slot = txn[t].at
  OBVIOUS
<1>2. PICK final : final = [advance[a] EXCEPT !.status = "ACTIVE", !.outstanding = Restored(t), !.period = txn[t].month]
  OBVIOUS
<1>3. /\ txn[t].kind = "defer"
      /\ advance' = [advance EXCEPT ![a] = final]
      /\ entry' = [entry EXCEPT ![slot[1]][slot[2]] = [Cleared(@, txn[t].row.type) EXCEPT !.deferred = TRUE]]
      /\ txn' = Bumped({slot}, Ended(t))
      /\ period' = WithPeriods({slot[1], txn[t].month})
      /\ UNCHANGED <<cycleStatus, cycleLock>>
  BY <1>1, <1>2 DEF CommitDefer
<1>4. a \in Advances /\ slot \in Slots /\ At(slot) \in EntryRecord
  BY <1>1, Deferred
<1>5. final.period = txn[t].month
  BY <1>2, <1>4 DEF AdvancesInv, Typed, AdvanceRecord
<1>6. PeriodsOK'
  BY <1>3, <1>4, <1>5, OneAdvance, Zenon DEF SchedulesInv
<1>7. \A c \in Months, e \in Employees : entry'[c][e].outcome = entry[c][e].outcome
  <2>1. PICK new : new = [Cleared(At(slot), txn[t].row.type) EXCEPT !.deferred = TRUE]
    OBVIOUS
  <2>2. new.outcome = At(slot).outcome
    BY <1>4, <2>1, WrittenLine
  <2>3. entry' = [entry EXCEPT ![slot[1]][slot[2]] = new]
    BY <1>3, <2>1 DEF At
  <2>4. Typed
    BY DEF AdvancesInv
  <2> QED
    BY <1>4, <2>2, <2>3, <2>4, SameOutcome
<1> QED
  BY <1>3, <1>6, <1>7, CommitSchedules

(* A sweep that begins finds the month unlocked, and locks it.                           *)
LEMMA ReleaseRequestSchedules ==
  ASSUME AdvancesInv, SchedulesInv, NEW t \in Txns, NEW c \in Months, NEW chosen \in SUBSET Employees,
         RequestRelease(t, c, chosen)
  PROVE  SchedulesInv'
<1>1. PICK q : q = [Idle EXCEPT !.kind = "release", !.pc = "commit", !.month = c,
                                !.roster = chosen, !.valid = TRUE, !.read = entry[c]]
  OBVIOUS
<1>2. /\ txn' = [txn EXCEPT ![t] = q] /\ cycleLock[c] = None /\ cycleLock' = [cycleLock EXCEPT ![c] = t]
      /\ \A e \in chosen : entry[c][e].outcome = "OPEN"
      /\ UNCHANGED <<advance, entry, cycleStatus, period>>
  BY <1>1 DEF RequestRelease, Start
<1>3. q.kind = "release" /\ q.month = c /\ q.roster = chosen
  BY <1>1, IdleRequest DEF Requesting
<1>4. cycleLock \in [Months -> Txns \cup {None}] /\ PeriodsOK /\ \A u \in Txns : SweepOK(u) /\ TakingOK(u)
  BY DEF SchedulesInv
<1>5. cycleLock' \in [Months -> Txns \cup {None}] /\ cycleLock'[c] = t
      /\ \A m \in Months : m # c => cycleLock'[m] = cycleLock[m]
  BY <1>2, <1>4
<1>6. ASSUME NEW u \in Txns  PROVE SweepOK(u)' /\ TakingOK(u)'
  <2>1. CASE u = t
    <3>1. txn'[u] = q
      BY <1>2, <2>1 DEF AdvancesInv, Typed
    <3> QED
      BY <1>2, <1>3, <1>5, <2>1, <3>1 DEF SweepOK, TakingOK
  <2>2. CASE u # t
    <3>1. txn'[u] = txn[u] /\ Held(txn'[u], txn[u])
      BY <1>2, <2>2 DEF AdvancesInv, Typed, Held
    <3>2. txn[u].kind = "release" => txn[u].month \in Months /\ cycleLock[txn[u].month] = u
      BY <1>4 DEF AdvancesInv, RequestOK, ReleaseOK, SweepOK
    <3>3. txn[u].kind = "release" => cycleLock'[txn[u].month] = cycleLock[txn[u].month]
      BY <1>2, <1>5, <3>2, NoneAssumption
    <3> QED
      BY <1>2, <1>4, <3>1, <3>3, SweepKept, TakingKept
  <2> QED
    BY <2>1, <2>2
<1> QED
  BY <1>2, <1>4, <1>5, <1>6, NoAdvanceWritten DEF SchedulesInv

(* Releasing a lock frees no month another request has locked.                           *)
LEMMA LockReleased ==
  ASSUME SchedulesInv, NEW t \in Txns, cycleLock' = Unlocked(t)
  PROVE  /\ cycleLock' \in [Months -> Txns \cup {None}]
         /\ \A u \in Txns \ {t}, c \in Months : cycleLock[c] = u => cycleLock'[c] = cycleLock[c]
  BY DEF SchedulesInv, Unlocked

(* A sweep that commits resolves the entries of a month only it has locked.              *)
LEMMA ReleaseSchedules ==
  ASSUME AdvancesInv, SchedulesInv, NEW t \in Txns, NEW figure \in [Employees -> Figures], CommitRelease(t, figure)
  PROVE  SchedulesInv'
<1>1. PICK c, S : c = txn[t].month /\ S = txn[t].roster
  OBVIOUS
<1>2. /\ txn[t].kind = "release"
      /\ advance' = [a \in Advances |->
                       IF a \in Settled(c, S) THEN [advance[a] EXCEPT !.status = "PAID_OFF"] ELSE advance[a]]
      /\ txn' = Bumped({c} \X S, Ended(t)) /\ cycleLock' = Unlocked(t)
      /\ UNCHANGED <<cycleStatus, period>>
  BY <1>1, Zenon DEF CommitRelease
<1>3. PICK lines : entry' = [entry EXCEPT ![c] = lines]
  BY <1>1, Zenon DEF CommitRelease
<1>4. cycleLock[c] = t /\ c \in Months
  BY <1>1, <1>2 DEF SchedulesInv, SweepOK, AdvancesInv, RequestOK, ReleaseOK
<1>5. \A m \in Months : m # c => entry'[m] = entry[m]
  BY <1>3 DEF AdvancesInv, Typed
<1>6. /\ cycleLock' \in [Months -> Txns \cup {None}]
      /\ \A u \in Txns \ {t}, m \in Months : cycleLock[m] = u => cycleLock'[m] = cycleLock[m]
  BY <1>2, LockReleased
<1>7. /\ txn'[t].kind = "none"
      /\ \A u \in Txns \ {t} : Held(txn'[u], txn[u]) /\ txn[u].kind # "rollover"
  BY <1>2, EndedRequests
<1>8. \A a \in Advances : advance'[a].status = "ACTIVE" => advance'[a] = advance[a]
  BY <1>2 DEF AdvancesInv, Typed, AdvanceRecord
<1>9. PeriodsOK'
  BY <1>2, <1>8 DEF SchedulesInv, PeriodsOK
<1>10. ASSUME NEW u \in Txns  PROVE SweepOK(u)' /\ TakingOK(u)'
  <2>1. CASE u = t
    BY <1>7, <2>1, OtherKind
  <2>2. CASE u # t
    <3>1. txn[u].kind = "release" => txn[u].month \in Months /\ cycleLock[txn[u].month] = u
      BY DEF SchedulesInv, SweepOK, AdvancesInv, RequestOK, ReleaseOK
    <3>2. txn[u].kind = "release" => /\ entry'[txn[u].month] = entry[txn[u].month]
                                     /\ cycleLock'[txn[u].month] = cycleLock[txn[u].month]
      BY <1>4, <1>5, <1>6, <2>2, <3>1
    <3> QED
      BY <1>7, <2>2, <3>2, SweepKept, TakingKept DEF SchedulesInv
  <2> QED
    BY <2>1, <2>2
<1> QED
  BY <1>6, <1>9, <1>10 DEF SchedulesInv

(* A request that gives up lets go of its lock only.                                     *)
LEMMA AbortSchedules ==
  ASSUME AdvancesInv, SchedulesInv, NEW t \in Txns, Abort(t)
  PROVE  SchedulesInv'
<1>1. txn' = Ended(t) /\ cycleLock' = Unlocked(t) /\ UNCHANGED <<advance, entry, cycleStatus, period>>
  BY DEF Abort
<1>2. txn'[t] = Idle /\ \A u \in Txns \ {t} : txn'[u] = txn[u] /\ Held(txn'[u], txn[u])
  BY <1>1 DEF Ended, AdvancesInv, Typed, Held
<1>3. /\ cycleLock' \in [Months -> Txns \cup {None}]
      /\ \A u \in Txns \ {t}, m \in Months : cycleLock[m] = u => cycleLock'[m] = cycleLock[m]
  BY <1>1, LockReleased
<1>4. ASSUME NEW u \in Txns  PROVE SweepOK(u)' /\ TakingOK(u)'
  <2>1. CASE u = t
    BY <1>2, <2>1, IdleRequest, OtherKind
  <2>2. CASE u # t
    <3>1. txn[u].kind = "release" => txn[u].month \in Months /\ cycleLock[txn[u].month] = u
      BY DEF SchedulesInv, SweepOK, AdvancesInv, RequestOK, ReleaseOK
    <3>2. txn[u].kind = "release" => cycleLock'[txn[u].month] = cycleLock[txn[u].month]
      BY <1>3, <2>2, <3>1
    <3> QED
      BY <1>1, <1>2, <2>2, <3>2, SweepKept, TakingKept DEF SchedulesInv
  <2> QED
    BY <2>1, <2>2
<1> QED
  BY <1>1, <1>3, <1>4, NoAdvanceWritten DEF SchedulesInv

(* A rollover begins with every employee who has an advance due in the next month: the   *)
(* active ones, and the departed ones it looked for.                                     *)
LEMMA RolloverRequestSchedules ==
  ASSUME AdvancesInv, SchedulesInv, NEW t \in Txns, NEW c \in Months, RequestRollover(t, c)
  PROVE  SchedulesInv'
<1>1. PICK q : q = [Idle EXCEPT !.kind = "rollover", !.pc = "archive", !.month = c,
                                !.roster = Employees \ departed, !.held = DepartedWithDue(c + 1)]
  OBVIOUS
<1>2. /\ txn' = [txn EXCEPT ![t] = q]
      /\ UNCHANGED <<advance, entry, cycleStatus, period, cycleLock>>
  BY <1>1 DEF RequestRollover, Start
<1>3. /\ q.kind = "rollover" /\ q.pc = "archive" /\ q.month = c
      /\ q.roster = Employees \ departed /\ q.held = DepartedWithDue(c + 1)
  BY <1>1, IdleRequest DEF Requesting
<1>4. ASSUME NEW a \in Advances, Awaits(a, c + 1)
      PROVE  advance[a].employee \in q.roster \cup q.held
  <2>1. advance[a].employee \in Employees
    BY <1>4 DEF Awaits, AdvancesInv, RowsOK, BalancesOK, Made
  <2> QED
    BY <1>3, <1>4, <2>1 DEF Awaits, DepartedWithDue
<1>5. ASSUME NEW u \in Txns  PROVE SweepOK(u)' /\ TakingOK(u)'
  <2>1. CASE u = t
    <3>1. txn'[u] = q
      BY <1>2, <2>1 DEF AdvancesInv, Typed
    <3> QED
      BY <1>2, <1>3, <1>4, <3>1 DEF SweepOK, TakingOK, Awaits
  <2>2. CASE u # t
    <3>1. txn'[u] = txn[u] /\ Held(txn'[u], txn[u])
      BY <1>2, <2>2 DEF AdvancesInv, Typed, Held
    <3> QED
      BY <1>2, <3>1, SweepKept, TakingKept DEF SchedulesInv
  <2> QED
    BY <2>1, <2>2
<1> QED
  BY <1>2, <1>5, NoAdvanceWritten DEF SchedulesInv

(* Its query finds all of those advances, for the month they wait for is not resolved.   *)
LEMMA DueSchedules ==
  ASSUME AdvancesInv, SchedulesInv, NEW t \in Txns, ArchiveAndFindDue(t)
  PROVE  SchedulesInv'
<1>1. PICK p, c : p = txn[t] /\ c = p.month
  OBVIOUS
<1>2. PICK due : due = IF period[c + 1] = "PENDING"
                         THEN {a \in Advances : advance[a].status = "ACTIVE" /\ advance[a].period = c + 1}
                         ELSE {}
  OBVIOUS
<1>3. PICK q : q = [p EXCEPT !.pc = "commit", !.rows = advance, !.due = due]
  OBVIOUS
<1>4. /\ p.kind = "rollover" /\ txn' = [txn EXCEPT ![t] = q]
      /\ cycleLock' = [cycleLock EXCEPT ![c] = t]
      /\ UNCHANGED <<advance, entry, cycleStatus, period>>
  BY <1>1, <1>2, <1>3 DEF ArchiveAndFindDue, Becomes
<1>5. /\ q.kind = "rollover" /\ q.month = c /\ q.due = due /\ q.roster = p.roster /\ q.held = p.held
  <2>1. p \in Requesting
    BY <1>1 DEF AdvancesInv, Typed
  <2> QED
    BY <1>1, <1>3, <1>4, <2>1 DEF Requesting
<1>6. /\ c + 1 \in Months /\ cycleStatus[c + 1] = "NONE" /\ c \in Months
      /\ \A u \in Txns \ {t} : txn[u] = Idle
  BY <1>1, <1>4 DEF AdvancesInv, RequestOK, RolloverOK
<1>7. ASSUME NEW a \in Advances, Awaits(a, c + 1)
      PROVE  advance[a].employee \in q.roster \cup q.held /\ a \in due
  <2>1. period[c + 1] # "NONE" /\ period[c + 1] # "RESOLVED"
    BY <1>6, <1>7 DEF SchedulesInv, PeriodsOK, Awaits
  <2>2. period[c + 1] = "PENDING"
    BY <1>6, <2>1, MonthsArePeriods DEF SchedulesInv, PeriodsOK
  <2>3. a \in due
    BY <1>2, <1>7, <2>2 DEF Awaits
  <2> QED
    BY <1>1, <1>4, <1>5, <1>7, <2>3 DEF SchedulesInv, TakingOK
<1>8. ASSUME NEW u \in Txns  PROVE SweepOK(u)' /\ TakingOK(u)'
  <2>1. CASE u = t
    <3>1. txn'[u] = q
      BY <1>4, <2>1 DEF AdvancesInv, Typed
    <3> QED
      BY <1>4, <1>5, <1>7, <3>1 DEF SweepOK, TakingOK, Awaits
  <2>2. CASE u # t
    <3>1. txn'[u] = txn[u] /\ txn[u] = Idle
      BY <1>4, <1>6, <2>2 DEF AdvancesInv, Typed
    <3> QED
      BY <3>1, IdleRequest, OtherKind
  <2> QED
    BY <2>1, <2>2
<1>9. cycleLock' \in [Months -> Txns \cup {None}]
  BY <1>4, <1>6 DEF SchedulesInv
<1> QED
  BY <1>4, <1>8, <1>9, NoAdvanceWritten DEF SchedulesInv

(* When it commits, the month that begins is resolved and the advances it took wait for  *)
(* the next.                                                                             *)
LEMMA RolloverSchedules ==
  ASSUME AdvancesInv, SchedulesInv, NEW t \in Txns, CommitRollover(t)
  PROVE  SchedulesInv'
<1>1. PICK c, d, taking : c = txn[t].month /\ d = c + 1 /\ taking = Taken(t)
  OBVIOUS
<1> DEFINE final == [a \in Taken(t) |-> Deducted(txn[t].rows[a], txn[t].month + 1)]
<1>2. PICK months : /\ months = UNION {PointedAt(final[a]) : a \in taking}
                    /\ period' = [WithPeriods(months) EXCEPT ![d] = IF @ = "PENDING" THEN "RESOLVED" ELSE @]
                    /\ cycleLock' = Unlocked(t)
  <2>1. /\ period' = [WithPeriods(UNION {PointedAt(final[a]) : a \in Taken(t)}) EXCEPT
                        ![txn[t].month + 1] = IF @ = "PENDING" THEN "RESOLVED" ELSE @]
        /\ cycleLock' = Unlocked(t)
    BY Zenon DEF CommitRollover, Taken
  <2> HIDE DEF final
  <2> QED
    BY <1>1, <2>1, Zenon
<1>3. c \in Months /\ d \in Months
  BY <1>1, RolloverWrites
<1>4. ASSUME NEW a \in Advances
      PROVE  \/ advance'[a] = advance[a]
             \/ advance'[a].period \in Months => advance'[a].period \in months
  <2>1. CASE a \in taking
    <3>1. txn[t].rows[a] = advance[a] /\ advance'[a].period = Deducted(advance[a], d).period
      BY <1>1, <2>1, RolloverWrites
    <3>2. final[a] = Deducted(advance[a], d)
      BY <1>1, <2>1, <3>1
    <3>3. advance'[a].period \in Months => advance'[a].period \in PointedAt(final[a])
      BY <3>1, <3>2 DEF PointedAt, Months
    <3> HIDE DEF final
    <3> QED
      BY <1>2, <2>1, <3>3
  <2>2. CASE a \notin taking
    BY <1>1, <2>2, RolloverWrites
  <2> QED
    BY <2>1, <2>2
<1>5. /\ cycleStatus'[c] = "ARCHIVED" /\ cycleStatus'[d] = "DRAFT"
      /\ \A m \in Months : m # c /\ m # d => cycleStatus'[m] = cycleStatus[m]
      /\ \A u \in Txns : txn'[u] = Idle
  BY <1>1, RolloverWrites
<1>6. PICK known : known = WithPeriods(months)
  OBVIOUS
<1>7. /\ known \in [1 .. LastMonth + 1 -> {"NONE", "PENDING", "RESOLVED"}]
      /\ \A p \in 1 .. LastMonth + 1 :
           /\ period[p] # "NONE" => known[p] = period[p]
           /\ known[p] = "RESOLVED" => period[p] = "RESOLVED"
           /\ p \in months => known[p] # "NONE"
  BY <1>6, PeriodsKnown DEF SchedulesInv
<1>8. /\ period' \in [1 .. LastMonth + 1 -> {"NONE", "PENDING", "RESOLVED"}]
      /\ \A p \in 1 .. LastMonth + 1 : /\ p # d => period'[p] = known[p]
                                       /\ known[p] # "NONE" => period'[p] # "NONE"
  BY <1>2, <1>3, <1>6, <1>7, MonthsArePeriods
<1>9. PeriodsOK'
  <2>1. ASSUME NEW m \in Months, cycleStatus'[m] = "NONE"  PROVE period'[m] # "RESOLVED"
    <3>1. m # d /\ cycleStatus[m] = "NONE"
      BY <1>5, <2>1
    <3> QED
      BY <1>7, <1>8, <3>1, MonthsArePeriods DEF SchedulesInv, PeriodsOK
  <2>2. ASSUME NEW a \in Advances, advance'[a].status = "ACTIVE", advance'[a].period \in Months
        PROVE  period'[advance'[a].period] # "NONE"
    <3>1. known[advance'[a].period] # "NONE"
      BY <1>4, <1>7, <2>2, MonthsArePeriods, Zenon DEF SchedulesInv, PeriodsOK
    <3> QED
      BY <1>8, <2>2, <3>1, MonthsArePeriods
  <2> QED
    BY <1>8, <2>1, <2>2 DEF PeriodsOK
<1>10. cycleLock' \in [Months -> Txns \cup {None}]
  BY <1>2, LockReleased
<1>11. \A u \in Txns : SweepOK(u)' /\ TakingOK(u)'
  BY <1>5, IdleRequest, OtherKind
<1> QED
  BY <1>9, <1>10, <1>11 DEF SchedulesInv

(* A step of the office that keeps the entries it finds open, or takes the validity of   *)
(* the sweeps that read the ones it deletes.                                             *)
LEMMA OfficeSchedules ==
  ASSUME AdvancesInv, SchedulesInv, UNCHANGED <<advance, period, cycleLock>>,
         \A c \in Months : cycleStatus'[c] = "NONE" => cycleStatus[c] = "NONE",
         \A u \in Txns : /\ Held(txn'[u], txn[u])
                         /\ \A c \in Months, e \in Employees :
                              entry[c][e].outcome = "OPEN" /\ txn'[u].valid /\ <<c, e>> \in Swept(txn[u])
                                => entry'[c][e].outcome = "OPEN"
  PROVE  SchedulesInv'
<1>1. ASSUME NEW u \in Txns, txn[u].kind = "release", NEW e \in txn[u].roster
      PROVE  txn[u].month \in Months /\ e \in Employees /\ <<txn[u].month, e>> \in Swept(txn[u])
  BY <1>1 DEF AdvancesInv, RequestOK, ReleaseOK, Typed, Requesting, Swept
<1>2. ASSUME NEW u \in Txns  PROVE SweepOK(u)' /\ TakingOK(u)'
  BY <1>1, SweepKept, TakingKept, Zenon DEF SchedulesInv
<1> QED
  BY <1>2, NoAdvanceWritten DEF SchedulesInv

(* The hold flag and a typed deduction leave the outcome of the entry. *)
LEMMA EntrySchedules ==
  ASSUME AdvancesInv, SchedulesInv, NEW slot \in Slots, NEW new, new.outcome = At(slot).outcome,
         entry' = [entry EXCEPT ![slot[1]][slot[2]] = new], txn' = Bumped({slot}, txn),
         UNCHANGED <<advance, cycleStatus, period, cycleLock>>
  PROVE  SchedulesInv'
<1>1. txn \in [Txns -> Requesting] /\ Typed
  BY DEF AdvancesInv, Typed
<1>2. \A c \in Months, e \in Employees : entry'[c][e].outcome = entry[c][e].outcome
  BY <1>1, SameOutcome
<1>3. \A u \in Txns : Held(txn'[u], txn[u])
  BY <1>1, BumpedRequests
<1> QED
  BY <1>2, <1>3, OfficeSchedules

LEMMA HoldSchedules ==
  ASSUME AdvancesInv, SchedulesInv, NEW slot \in Slots, ToggleHold(slot)
  PROVE  SchedulesInv'
<1>1. PICK line, new : line = At(slot) /\ new = [line EXCEPT !.hold = ~@]
  OBVIOUS
<1>2. line \in EntryRecord
  BY <1>1 DEF AdvancesInv, Typed, Slots, At
<1>3. new.outcome = line.outcome
  BY <1>1, <1>2 DEF EntryRecord
<1>4. /\ entry' = [entry EXCEPT ![slot[1]][slot[2]] = new] /\ txn' = Bumped({slot}, txn)
      /\ UNCHANGED <<advance, cycleStatus, period, cycleLock>>
  BY <1>1 DEF ToggleHold, At
<1> QED
  BY <1>1, <1>3, <1>4, EntrySchedules

LEMMA TypedSchedules ==
  ASSUME AdvancesInv, SchedulesInv, NEW slot \in Slots, NEW x \in Types, NEW amount, TypeDeduction(slot, x, amount)
  PROVE  SchedulesInv'
<1>1. PICK line, given : line = At(slot) /\ given = [line.deduction EXCEPT ![x] = amount]
  OBVIOUS
<1>2. line \in EntryRecord
  BY <1>1 DEF AdvancesInv, Typed, Slots, At
<1>3. PICK new : new = [line EXCEPT !.deduction = given]
  OBVIOUS
<1>4. new.outcome = line.outcome
  BY <1>2, <1>3 DEF EntryRecord
<1>5. /\ entry' = [entry EXCEPT ![slot[1]][slot[2]] = new] /\ txn' = Bumped({slot}, txn)
      /\ UNCHANGED <<advance, cycleStatus, period, cycleLock>>
  BY <1>1, <1>3 DEF TypeDeduction, At
<1> QED
  BY <1>1, <1>4, <1>5, EntrySchedules

(* Deleting an entry, or deleting it for a departure, is noticed by the sweep that chose *)
(* it.                                                                                   *)
LEMMA DeleteSchedules ==
  ASSUME AdvancesInv, SchedulesInv, NEW slot \in Slots, DeleteEntry(slot)
  PROVE  SchedulesInv'
<1>1. /\ entry' = [entry EXCEPT ![slot[1]][slot[2]] = NoEntry] /\ txn' = Deleted(slot, txn)
      /\ UNCHANGED <<advance, cycleStatus, period, cycleLock>>
  BY DEF DeleteEntry
<1>2. txn \in [Txns -> Requesting] /\ entry \in [Months -> [Employees -> EntryRecord]]
  BY DEF AdvancesInv, Typed
<1>3. \A u \in Txns : /\ Held(txn'[u], txn[u])
                      /\ txn'[u].valid => slot \notin Swept(txn[u])
  BY <1>1, <1>2, DeletedRequests
<1>4. PICK m \in Months, x \in Employees : slot = <<m, x>>
  BY DEF Slots
<1>5. \A c \in Months, e \in Employees : <<c, e>> # slot => entry'[c][e] = entry[c][e]
  BY <1>1, <1>2, <1>4
<1> QED
  BY <1>1, <1>3, <1>5, OfficeSchedules

LEMMA LeaveSchedules ==
  ASSUME AdvancesInv, SchedulesInv, NEW e \in Employees, Leave(e)
  PROVE  SchedulesInv'
<1>1. PICK gone :
         /\ \A c \in Months, x \in Employees : <<c, x>> \notin gone => SameLine(entry'[c][x], entry[c][x])
         /\ \A u \in Txns : /\ Held(txn'[u], txn[u])
                            /\ txn'[u].valid => Swept(txn[u]) \cap gone = {}
  BY Departed
<1>2. ASSUME NEW u \in Txns, NEW c \in Months, NEW x \in Employees,
             entry[c][x].outcome = "OPEN", txn'[u].valid, <<c, x>> \in Swept(txn[u])
      PROVE  entry'[c][x].outcome = "OPEN"
  BY <1>1, <1>2 DEF SameLine
<1>3. UNCHANGED <<advance, cycleStatus, period, cycleLock>>
  BY DEF Leave
<1> QED
  BY <1>1, <1>2, <1>3, OfficeSchedules

LEMMA ReturnSchedules ==
  ASSUME AdvancesInv, SchedulesInv, NEW e \in Employees, Return(e)
  PROVE  SchedulesInv'
<1>1. /\ UNCHANGED <<advance, cycleStatus, period, cycleLock, txn>>
      /\ entry' = [c \in Months |-> [x \in Employees |->
                   IF c \in Drafts /\ x = e /\ entry[c][x].outcome = "NONE" THEN FreshEntry ELSE entry[c][x]]]
  BY DEF Return
<1>2. \A c \in Months, x \in Employees : entry[c][x].outcome = "OPEN" => entry'[c][x].outcome = "OPEN"
  BY <1>1
<1>3. \A u \in Txns : Held(txn'[u], txn[u])
  BY <1>1 DEF Held
<1> QED
  BY <1>1, <1>2, <1>3, OfficeSchedules

LEMMA FinalizeSchedules ==
  ASSUME AdvancesInv, SchedulesInv, NEW m \in Months, Finalize(m)
  PROVE  SchedulesInv'
<1>1. /\ UNCHANGED <<advance, entry, period, cycleLock, txn>>
      /\ cycleStatus' = [cycleStatus EXCEPT ![m] = "RELEASED"]
  BY DEF Finalize
<1>2. \A c \in Months : cycleStatus'[c] = "NONE" => cycleStatus[c] = "NONE"
  BY <1>1 DEF AdvancesInv, Typed
<1>3. \A u \in Txns : Held(txn'[u], txn[u])
  BY <1>1 DEF Held
<1> QED
  BY <1>1, <1>2, <1>3, OfficeSchedules

(* The requests that only read, and remember what they read. *)
LEMMA ReadSchedules ==
  ASSUME AdvancesInv, SchedulesInv, NEW t \in Txns,
         \/ \E e, y, terms, p : RequestCreate(t, e, y, terms, p)
         \/ ReadTarget(t)
         \/ \E kind \in Guarded : \E a, amount, month : RequestChange(t, kind, a, amount, month)
         \/ ReadLiveEntry(t) \/ \E slot : ReadCarrier(t, slot)
  PROVE  SchedulesInv'
<1>1. PICK p \in Requesting : p = txn[t]
  BY DEF AdvancesInv, Typed
<1>2. UNCHANGED <<advance, entry, cycleStatus, period, cycleLock>>
  BY Zenon DEF RequestCreate, ReadTarget, RequestChange, ReadLiveEntry, ReadCarrier
<1>3. \E q : txn' = [txn EXCEPT ![t] = q] /\ q.kind \notin {"release", "rollover"}
  <2>1. ASSUME NEW e, NEW y, NEW terms, NEW m, RequestCreate(t, e, y, terms, m)
        PROVE  \E q : txn' = [txn EXCEPT ![t] = q] /\ q.kind = "create"
    <3>1. PICK row : row = [status |-> "ACTIVE", employee |-> e, type |-> y, terms |-> terms,
                            total |-> terms.total, outstanding |-> terms.total, period |-> m]
      OBVIOUS
    <3>2. PICK q : q = [Idle EXCEPT !.kind = "create", !.pc = "target", !.row = row]
      OBVIOUS
    <3>3. q.kind = "create"
      BY <3>2, IdleRequest DEF Requesting
    <3> QED
      BY <2>1, <3>1, <3>2, <3>3 DEF RequestCreate, Start
  <2>2. ASSUME NEW kind \in Guarded, NEW a, NEW amount, NEW month, RequestChange(t, kind, a, amount, month)
        PROVE  \E q : txn' = [txn EXCEPT ![t] = q] /\ q.kind \in Guarded
    <3>1. PICK q : q = [Idle EXCEPT !.kind = kind, !.pc = "entry", !.id = a, !.row = advance[a],
                                    !.amount = amount, !.month = month]
      OBVIOUS
    <3>2. q.kind = kind
      BY <3>1, IdleRequest DEF Requesting
    <3> QED
      BY <2>2, <3>1, <3>2 DEF RequestChange, Start
  <2>3. ASSUME ReadTarget(t) \/ ReadLiveEntry(t) \/ \E slot : ReadCarrier(t, slot)
        PROVE  \E q : txn' = [txn EXCEPT ![t] = q] /\ q.kind \in {"create"} \cup Guarded
    <3>1. p.kind \in {"create"} \cup Guarded
      BY <1>1, <2>3, Zenon DEF ReadTarget, ReadLiveEntry, ReadCarrier, Guarded
    <3>2. \/ txn' = [txn EXCEPT ![t] = [p EXCEPT !.pc = "commit"]]
          \/ \E slot : txn' = [txn EXCEPT ![t] = [p EXCEPT !.pc = "commit", !.at = slot, !.valid = TRUE]]
      BY <1>1, <2>3, Zenon DEF ReadTarget, ReadLiveEntry, ReadCarrier, Becomes
    <3>3. /\ [p EXCEPT !.pc = "commit"].kind = p.kind
          /\ \A slot : [p EXCEPT !.pc = "commit", !.at = slot, !.valid = TRUE].kind = p.kind
      BY <1>1 DEF Requesting
    <3> QED
      BY <3>1, <3>2, <3>3
  <2> QED
    BY <2>1, <2>2, <2>3 DEF Guarded
<1> QED
  BY <1>2, <1>3, QuietSchedules

(* The periods, the locks and the requests a run starts with. *)
LEMMA SchedulesInvInit == Init => SchedulesInv
<1>1. SUFFICES ASSUME Init  PROVE SchedulesInv
  OBVIOUS
<1>2. /\ cycleLock = [c \in Months |-> None] /\ period = [p \in 1 .. LastMonth + 1 |-> "NONE"]
      /\ advance = [a \in Advances |-> NoAdvance] /\ \A t \in Txns : txn[t] = Idle
  BY <1>1 DEF Init
<1>3. PeriodsOK
  BY <1>2, MonthsArePeriods DEF PeriodsOK, NoAdvance
<1>4. \A t \in Txns : SweepOK(t) /\ TakingOK(t)
  BY <1>2, IdleRequest DEF SweepOK, TakingOK
<1> QED
  BY <1>2, <1>3, <1>4 DEF SchedulesInv

(* Every step keeps it. *)
LEMMA SchedulesInvNext ==
  ASSUME AdvancesInv, SchedulesInv, [Next]_vars
  PROVE  SchedulesInv'
<1>1. CASE UNCHANGED vars
  <2>1. UNCHANGED <<advance, entry, cycleStatus, period, cycleLock, txn>>
    BY <1>1 DEF vars
  <2>2. \A u \in Txns : Held(txn'[u], txn[u])
    BY <2>1 DEF Held
  <2> QED
    BY <2>1, <2>2, OfficeSchedules
<1>2. CASE Office
  BY <1>2, FinalizeSchedules, HoldSchedules, DeleteSchedules, TypedSchedules, LeaveSchedules, ReturnSchedules
     DEF Office
<1>3. ASSUME NEW t \in Txns, Step(t)  PROVE SchedulesInv'
  <2>1. CASE \/ \E e, y, terms, p : RequestCreate(t, e, y, terms, p)
             \/ ReadTarget(t)
             \/ \E kind \in Guarded : \E a, amount, month : RequestChange(t, kind, a, amount, month)
             \/ ReadLiveEntry(t) \/ \E slot : ReadCarrier(t, slot)
    BY <2>1, ReadSchedules
  <2>2. CASE \/ \E a \in Advances : CommitCreate(t, a)
             \/ CommitEdit(t) \/ CommitCancel(t) \/ CommitDefer(t) \/ Abort(t)
    BY <2>2, CreateSchedules, EditSchedules, CancelSchedules, DeferSchedules, AbortSchedules
  <2>3. CASE \/ \E c \in Months, chosen \in SUBSET Employees : RequestRelease(t, c, chosen)
             \/ \E figure \in [Employees -> Figures] : CommitRelease(t, figure)
    BY <2>3, ReleaseRequestSchedules, ReleaseSchedules
  <2>4. CASE \/ \E c \in Months : RequestRollover(t, c)
             \/ ArchiveAndFindDue(t) \/ CommitRollover(t)
    BY <2>4, RolloverRequestSchedules, DueSchedules, RolloverSchedules
  <2>5. "edit" \in Guarded /\ "cancel" \in Guarded /\ "defer" \in Guarded
    BY DEF Guarded
  <2> QED
    BY <1>3, <2>1, <2>2, <2>3, <2>4, <2>5 DEF Step
<1> QED
  BY <1>1, <1>2, <1>3 DEF Next

(* So both always hold. *)
LEMMA SchedulesInvAlways ==
  ASSUME "rollover" \in Alone
  PROVE  Spec => [](AdvancesInv /\ SchedulesInv)
<1>1. "rollover" \in Alone
  OBVIOUS
<1>2. Init => AdvancesInv /\ SchedulesInv
  BY AdvancesInvInit, SchedulesInvInit
<1>3. AdvancesInv /\ SchedulesInv /\ [Next]_vars => (AdvancesInv /\ SchedulesInv)'
  BY <1>1, AdvancesInvNext, SchedulesInvNext
<1> QED
  BY <1>2, <1>3, PTL DEF Spec

-----------------------------------------------------------------------------
(* What is collected: a third invariant, for the sums of what releases withheld and open *)
(* entries deduct.                                                                       *)

(* The shares of the months in what has been collected of one advance. *)
Shares(a) == [c \in Months |-> Share(entry[c][advance[a].employee], advance[a].type, a)]

LEMMA ShareType ==
  ASSUME NEW line \in EntryRecord, NEW y \in Types, NEW a
  PROVE  Share(line, y, a) \in Nat
  BY DEF Share, EntryRecord

(* What is missing changes by what is written to the advance and by what one entry       *)
(* collects otherwise.                                                                   *)
LEMMA MissingChange ==
  ASSUME Typed, Typed', NEW a \in Advances, Made(advance[a]), SameAdvance(advance'[a], advance[a]),
         NEW m \in Months, NEW e \in Employees, NEW y \in Types,
         e = advance[a].employee, y = advance[a].type,
         \A c \in Months : c # m => Share(entry'[c][e], y, a) = Share(entry[c][e], y, a)
  PROVE  /\ Missing(a) \in Int
         /\ Missing(a)' = Missing(a) + (advance'[a].total - advance[a].total)
                            - (advance'[a].outstanding - advance[a].outstanding)
                            + Share(entry[m][e], y, a) - Share(entry'[m][e], y, a)
<1>1. PICK f, g : f = Shares(a) /\ g = Shares(a)'
  OBVIOUS
<1>2. advance'[a].employee = e /\ advance'[a].type = y
  BY DEF SameAdvance
<1>3. \A c \in Months : f[c] = Share(entry[c][e], y, a) /\ g[c] = Share(entry'[c][e], y, a)
  BY <1>1, <1>2 DEF Shares
<1>4. DOMAIN entry = Months /\ DOMAIN entry' = Months
  BY DEF Typed
<1>5. Collected(a) = SumFunctionOnSet(f, Months) /\ Collected(a)' = SumFunctionOnSet(g, Months)
  BY <1>1, <1>4 DEF Collected, Shares
<1>6. \A c \in Months : entry[c][e] \in EntryRecord /\ entry'[c][e] \in EntryRecord
  BY DEF Typed
<1>7. \A c \in Months : f[c] \in Nat /\ g[c] \in Nat
  BY <1>3, <1>6, ShareType
<1>8. SumFunctionOnSet(g, Months) = SumFunctionOnSet(f, Months) - f[m] + g[m]
  <2>1. \A c \in Months : f[c] \in Int /\ g[c] \in Int
    BY <1>7
  <2>2. \A c \in Months : c # m => g[c] = f[c]
    BY <1>3
  <2> HIDE <1>1, <1>3
  <2> QED
    BY <2>1, <2>2, MonthsFinite, SumChange
<1>9. SumFunctionOnSet(f, Months) \in Nat /\ SumFunctionOnSet(g, Months) \in Nat
  <2> HIDE <1>1, <1>3
  <2> QED
    BY <1>7, MonthsFinite, SumOfNaturals
<1>10. PICK s, z : s = SumFunctionOnSet(f, Months) /\ z = SumFunctionOnSet(g, Months)
  OBVIOUS
<1>11. PICK o, o2, n, n2 : /\ o = advance[a].outstanding /\ o2 = advance'[a].outstanding
                           /\ n = advance[a].total /\ n2 = advance'[a].total
  OBVIOUS
<1>12. o \in Nat /\ o2 \in Nat /\ n \in Nat /\ n2 \in Nat
  BY <1>11 DEF Typed, AdvanceRecord
<1>13. Missing(a) = n - o - s /\ Missing(a)' = n2 - o2 - z
  BY <1>5, <1>10, <1>11 DEF Missing
<1>14. PICK p, q : p = Share(entry[m][e], y, a) /\ q = Share(entry'[m][e], y, a)
  OBVIOUS
<1>15. p \in Nat /\ q \in Nat /\ s \in Nat /\ z \in Nat /\ z = s - p + q
  BY <1>3, <1>7, <1>8, <1>9, <1>10, <1>14
<1>16. Missing(a) \in Int /\ Missing(a)' = Missing(a) + (n2 - n) - (o2 - o) + p - q
  <2> HIDE <1>1, <1>3, <1>5, <1>8, <1>9, <1>10, <1>11, <1>14
  <2> QED
    BY <1>12, <1>13, <1>15
<1> QED
  BY <1>11, <1>14, <1>16

(* Nothing becomes missing of an advance whose entries collect what they did. *)
LEMMA MissingKept ==
  ASSUME Typed, Typed', NEW a \in Advances, Made(advance[a]), SameAdvance(advance'[a], advance[a]),
         advance'[a].outstanding = advance[a].outstanding, advance'[a].total = advance[a].total,
         \A c \in Months : Share(entry'[c][advance[a].employee], advance[a].type, a)
                              = Share(entry[c][advance[a].employee], advance[a].type, a)
  PROVE  Missing(a)' = Missing(a) /\ Missing(a) \in Int
<1>1. PICK e \in Employees, y \in Types : e = advance[a].employee /\ y = advance[a].type
  BY DEF Made
<1>2. 1 \in Months
  BY LastMonthAssumption DEF Months
<1>3. PICK p : p = Share(entry[1][e], y, a) /\ p = Share(entry'[1][e], y, a)
  BY <1>1, <1>2
<1>4. p \in Nat
  BY <1>2, <1>3, ShareType DEF Typed
<1>5. PICK o, n : o = advance[a].outstanding /\ n = advance[a].total
  OBVIOUS
<1>6. o \in Nat /\ n \in Nat
  BY <1>5 DEF Typed, AdvanceRecord
<1>7. Missing(a) \in Int /\ Missing(a)' = Missing(a) + (n - n) - (o - o) + p - p
  BY <1>1, <1>2, <1>3, <1>5, MissingChange
<1> QED
  BY <1>4, <1>6, <1>7

-----------------------------------------------------------------------------
(* An entry that does not exist carries nothing; what a sweep withheld, or has read and  *)
(* will withhold, is for advances of the employee; an advance that is recorded into the  *)
(* entry that was read finds it there, in the current month.                             *)
LinesOK ==
    \A c \in Months, e \in Employees, y \in Types :
        /\ entry[c][e].outcome = "NONE" => entry[c][e].link[y] = None
        /\ \A a \in Advances : entry[c][e].of[y] = a =>
              Made(advance[a]) /\ advance[a].employee = e /\ advance[a].type = y
ReadOK(q) ==
    /\ q.kind = "release" =>
         \A e \in Employees, y \in Types, a \in Advances : q.read[e].link[y] = a =>
            Made(advance[a]) /\ advance[a].employee = e /\ advance[a].type = y
    /\ q.kind = "create" /\ q.pc = "commit" /\ q.at # NoSlot =>
         q.at[1] \in Months /\ Current(q.at[1]) /\ (q.valid => At(q.at).outcome # "NONE")

CollectInv == LinesOK /\ \A t \in Txns : ReadOK(txn[t])

KeepsAll == \A a \in Advances : advance'[a].status # "NONE" => Keeps(a)

LEMMA KeptIs ==
  ASSUME Typed, KeepsAll
  PROVE  KeptStep
<1>1. DOMAIN advance = Advances
  BY DEF Typed
<1> QED
  BY <1>1 DEF KeepsAll, KeptStep

(* A request whose entry is not deleted keeps what it has read. *)
LEMMA ReadKept ==
  ASSUME NEW u \in Txns, ReadOK(txn[u]), Held(txn'[u], txn[u]), AdvancesKept,
         txn[u].kind = "create" /\ txn[u].pc = "commit" /\ txn[u].at # NoSlot =>
            /\ Current(txn[u].at[1]) => Current(txn[u].at[1])'
            /\ txn'[u].valid /\ At(txn[u].at).outcome # "NONE" => At(txn[u].at)'.outcome # "NONE"
  PROVE  ReadOK(txn[u])'
<1>1. PICK q, p : q = txn'[u] /\ p = txn[u]
  OBVIOUS
<1>2. q.kind = p.kind /\ q.pc = p.pc /\ q.at = p.at /\ q.read = p.read /\ (q.valid => p.valid)
  BY <1>1 DEF Held
<1>3. q.kind = "release" =>
         \A e \in Employees, y \in Types, a \in Advances : q.read[e].link[y] = a =>
            Made(advance'[a]) /\ advance'[a].employee = e /\ advance'[a].type = y
  BY <1>1, <1>2 DEF ReadOK, AdvancesKept, SameAdvance
<1>4. q.kind = "create" /\ q.pc = "commit" /\ q.at # NoSlot =>
         q.at[1] \in Months /\ Current(q.at[1])' /\ (q.valid => At(q.at)'.outcome # "NONE")
  BY <1>1, <1>2 DEF ReadOK
<1> QED
  BY <1>1, <1>3, <1>4 DEF ReadOK, Current, At, Made

(* A step that writes neither an advance nor an entry.                                   *)
LEMMA QuietCollects ==
  ASSUME AdvancesInv, CollectInv, Typed', UNCHANGED <<advance, entry>>,
         \A c \in Months : Current(c) => Current(c)',
         \A u \in Txns : Held(txn'[u], txn[u]) \/ ReadOK(txn'[u])
  PROVE  CollectInv' /\ KeepsAll
<1>1. Typed
  BY DEF AdvancesInv
<1>2. ASSUME NEW a \in Advances, advance'[a].status # "NONE"  PROVE Keeps(a)
  <2>1. Made(advance[a])
    BY <1>2 DEF AdvancesInv, RowsOK, BalancesOK
  <2>2. Missing(a)' = Missing(a)
    BY <1>1, <2>1, MissingKept DEF SameAdvance
  <2> QED
    BY <2>1, <2>2 DEF Keeps, Made
<1>3. LinesOK'
  BY DEF CollectInv, LinesOK, Made
<1>4. ASSUME NEW u \in Txns  PROVE ReadOK(txn[u])'
  <2>1. CASE Held(txn'[u], txn[u])
    <3>1. AdvancesKept
      BY DEF AdvancesKept, SameAdvance
    <3>2. txn[u].kind = "create" /\ txn[u].pc = "commit" /\ txn[u].at # NoSlot => txn[u].at[1] \in Months
      BY DEF CollectInv, ReadOK
    <3>4. txn[u].kind = "create" /\ txn[u].pc = "commit" /\ txn[u].at # NoSlot =>
            /\ Current(txn[u].at[1]) => Current(txn[u].at[1])'
            /\ txn'[u].valid /\ At(txn[u].at).outcome # "NONE" => At(txn[u].at)'.outcome # "NONE"
      BY <2>1, <3>2 DEF At, Held, Current
    <3> QED
      BY <2>1, <3>1, <3>4, ReadKept DEF CollectInv
  <2>2. CASE ReadOK(txn'[u])
    <3>1. PICK q : q = txn'[u]
      OBVIOUS
    <3>2. q.kind = "create" /\ q.pc = "commit" /\ q.at # NoSlot =>
             q.at[1] \in Months /\ Current(q.at[1])' /\ (q.valid => At(q.at)'.outcome # "NONE")
      BY <2>2, <3>1 DEF ReadOK, At
    <3>3. q.kind = "release" =>
             \A e \in Employees, y \in Types, a \in Advances : q.read[e].link[y] = a =>
                Made(advance'[a]) /\ advance'[a].employee = e /\ advance'[a].type = y
      BY <2>2, <3>1 DEF ReadOK
    <3> QED
      BY <3>1, <3>2, <3>3 DEF ReadOK, At, Made, Current
  <2> QED
    BY <2>1, <2>2
<1> QED
  BY <1>2, <1>3, <1>4 DEF CollectInv, KeepsAll
(* A request that begins, reads or gives up. *)
LEMMA ReadCollects ==
  ASSUME AdvancesInv, AdvancesInv', CollectInv, NEW t \in Txns, NEW q,
         txn' = [txn EXCEPT ![t] = q], ReadOK(q), UNCHANGED <<advance, entry, cycleStatus>>
  PROVE  CollectInv' /\ KeepsAll
<1>1. Typed'
  BY DEF AdvancesInv
<1>2. \A c \in Months : Current(c) => Current(c)'
  BY DEF Current
<1>3. \A u \in Txns : Held(txn'[u], txn[u]) \/ ReadOK(txn'[u])
  <2>1. \A u \in Txns : txn'[u] = IF u = t THEN q ELSE txn[u]
    BY DEF AdvancesInv, Typed
  <2> QED
    BY <2>1 DEF Held
<1> QED
  BY <1>1, <1>2, <1>3, QuietCollects

(* The requests that are no sweep that has read, nor a creation that has. *)
LEMMA OtherReads ==
  ASSUME NEW q, q.kind \notin {"release", "create"} \/ (q.kind = "create" /\ q.pc = "target")
  PROVE  ReadOK(q)
  BY DEF ReadOK

LEMMA RequestsCollect ==
  ASSUME AdvancesInv, AdvancesInv', CollectInv, NEW t \in Txns,
         \/ \E e, y, terms, p : RequestCreate(t, e, y, terms, p)
         \/ ReadTarget(t)
         \/ \E kind \in Guarded : \E a, amount, month : RequestChange(t, kind, a, amount, month)
         \/ ReadLiveEntry(t) \/ \E slot : ReadCarrier(t, slot)
         \/ \E c \in Months, chosen \in SUBSET Employees : RequestRelease(t, c, chosen)
         \/ \E c \in Months : RequestRollover(t, c)
         \/ ArchiveAndFindDue(t) \/ Abort(t)
  PROVE  CollectInv' /\ KeepsAll
<1>1. ASSUME NEW e, NEW y, NEW terms, NEW p, RequestCreate(t, e, y, terms, p)
      PROVE  CollectInv' /\ KeepsAll
  <2>1. PICK q : /\ q = [Idle EXCEPT !.kind = "create", !.pc = "target",
                         !.row = [status |-> "ACTIVE", employee |-> e, type |-> y, terms |-> terms,
                                  total |-> terms.total, outstanding |-> terms.total, period |-> p]]
    OBVIOUS
  <2>2. txn' = [txn EXCEPT ![t] = q] /\ UNCHANGED <<advance, entry, cycleStatus>>
    BY <1>1, <2>1 DEF RequestCreate, Start
  <2>3. q.kind = "create" /\ q.pc = "target"
    BY <2>1 DEF Idle
  <2> QED
    BY <2>2, <2>3, OtherReads, ReadCollects
<1>2. CASE ReadTarget(t)
  <2>1. PICK slot : slot = <<txn[t].row.period, txn[t].row.employee>>
    OBVIOUS
  <2>2. PICK q : /\ q = IF slot[1] \in Drafts /\ At(slot).outcome \notin {"NONE", "PAID"}
                          THEN [txn[t] EXCEPT !.pc = "commit", !.at = slot, !.valid = TRUE]
                          ELSE [txn[t] EXCEPT !.pc = "commit"]
    OBVIOUS
  <2>3. /\ txn' = [txn EXCEPT ![t] = q] /\ UNCHANGED <<advance, entry, cycleStatus>>
        /\ txn[t].kind = "create" /\ txn[t].pc = "target"
    BY <1>2, <2>1, <2>2 DEF ReadTarget, Becomes
  <2>4. txn[t] \in Requesting /\ txn[t].at = NoSlot
    BY <2>3 DEF AdvancesInv, Typed, RequestOK, CreateOK
  <2>5. ReadOK(q)
    <3>1. CASE slot[1] \in Drafts /\ At(slot).outcome \notin {"NONE", "PAID"}
      <4>1. q = [txn[t] EXCEPT !.pc = "commit", !.at = slot, !.valid = TRUE]
        BY <2>2, <3>1
      <4>2. q.kind = "create" /\ q.at = slot
        BY <2>3, <2>4, <4>1 DEF Requesting
      <4>3. slot[1] \in Months /\ Current(slot[1]) /\ At(slot).outcome # "NONE"
        BY <3>1 DEF Drafts, Current
      <4> QED
        BY <4>2, <4>3 DEF ReadOK
    <3>2. CASE ~(slot[1] \in Drafts /\ At(slot).outcome \notin {"NONE", "PAID"})
      <4>1. q = [txn[t] EXCEPT !.pc = "commit"]
        BY <2>2, <3>2
      <4>2. q.kind = "create" /\ q.at = NoSlot
        BY <2>3, <2>4, <4>1 DEF Requesting
      <4> QED
        BY <4>2 DEF ReadOK
    <3> QED
      BY <3>1, <3>2
  <2> QED
    BY <2>3, <2>5, ReadCollects
<1>3. ASSUME NEW kind \in Guarded, NEW a, NEW amount, NEW month, RequestChange(t, kind, a, amount, month)
      PROVE  CollectInv' /\ KeepsAll
  <2>1. PICK q : q = [Idle EXCEPT !.kind = kind, !.pc = "entry", !.id = a, !.row = advance[a],
                             !.amount = amount, !.month = month]
    OBVIOUS
  <2>2. txn' = [txn EXCEPT ![t] = q] /\ UNCHANGED <<advance, entry, cycleStatus>>
    BY <1>3, <2>1 DEF RequestChange, Start
  <2>3. q.kind = kind
    BY <2>1 DEF Idle
  <2>4. kind \notin {"release", "create"}
    BY DEF Guarded
  <2> QED
    BY <2>2, <2>3, <2>4, OtherReads, ReadCollects
<1>4. CASE ReadLiveEntry(t) \/ \E slot : ReadCarrier(t, slot)
  <2>1. PICK q : /\ txn' = [txn EXCEPT ![t] = q] /\ UNCHANGED <<advance, entry, cycleStatus>>
                 /\ txn[t].kind \in Guarded
                 /\ \/ q = [txn[t] EXCEPT !.pc = "commit"]
                    \/ \E slot : q = [txn[t] EXCEPT !.pc = "commit", !.at = slot, !.valid = TRUE]
    BY <1>4, Zenon DEF ReadLiveEntry, ReadCarrier, Becomes, Guarded
  <2>2. q.kind = txn[t].kind
    <3>1. PICK p \in Requesting : p = txn[t]
      BY DEF AdvancesInv, Typed
    <3>2. CASE q = [txn[t] EXCEPT !.pc = "commit"]
      BY <3>1, <3>2 DEF Requesting
    <3>3. ASSUME NEW slot, q = [txn[t] EXCEPT !.pc = "commit", !.at = slot, !.valid = TRUE]
          PROVE  q.kind = p.kind
      BY <3>1, <3>3 DEF Requesting
    <3> QED
      BY <2>1, <3>1, <3>2, <3>3, Zenon
  <2>3. txn[t].kind \notin {"release", "create"}
    BY <2>1 DEF Guarded
  <2> QED
    BY <2>1, <2>2, <2>3, OtherReads, ReadCollects, Zenon
<1>5. ASSUME NEW c \in Months, NEW chosen \in SUBSET Employees, RequestRelease(t, c, chosen)
      PROVE  CollectInv' /\ KeepsAll
  <2>1. PICK q : q = [Idle EXCEPT !.kind = "release", !.pc = "commit", !.month = c,
                                  !.roster = chosen, !.valid = TRUE, !.read = entry[c]]
    OBVIOUS
  <2>2. txn' = [txn EXCEPT ![t] = q] /\ UNCHANGED <<advance, entry, cycleStatus>>
    BY <1>5, <2>1 DEF RequestRelease, Start
  <2>3. q.kind = "release" /\ q.read = entry[c]
    BY <2>1 DEF Idle
  <2>4. ReadOK(q)
    BY <2>3 DEF ReadOK, AdvancesInv, RowsOK, LinksOK
  <2> QED
    BY <2>2, <2>4, ReadCollects
<1>6. CASE \/ \E c \in Months : RequestRollover(t, c)
           \/ ArchiveAndFindDue(t) \/ Abort(t)
  <2>1. PICK q : /\ txn' = [txn EXCEPT ![t] = q] /\ UNCHANGED <<advance, entry, cycleStatus>>
                 /\ q.kind \in {"none", "rollover"}
    <3>1. ASSUME NEW c \in Months, RequestRollover(t, c)
          PROVE  \E q : /\ txn' = [txn EXCEPT ![t] = q] /\ UNCHANGED <<advance, entry, cycleStatus>>
                        /\ q.kind \in {"none", "rollover"}
      <4>1. PICK q : q = [Idle EXCEPT !.kind = "rollover", !.pc = "archive", !.month = c,
                                     !.roster = Employees \ departed, !.held = DepartedWithDue(c + 1)]
        OBVIOUS
      <4>2. txn' = [txn EXCEPT ![t] = q] /\ UNCHANGED <<advance, entry, cycleStatus>>
        BY <3>1, <4>1 DEF RequestRollover, Start
      <4>3. q.kind = "rollover"
        BY <4>1 DEF Idle
      <4> QED
        BY <4>2, <4>3
    <3>2. CASE ArchiveAndFindDue(t)
      <4>1. PICK rows, due : /\ txn' = [txn EXCEPT ![t] = [txn[t] EXCEPT !.pc = "commit", !.rows = rows, !.due = due]]
                             /\ UNCHANGED <<advance, entry, cycleStatus>> /\ txn[t].kind = "rollover"
        BY <3>2, Zenon DEF ArchiveAndFindDue, Becomes
      <4>2. [txn[t] EXCEPT !.pc = "commit", !.rows = rows, !.due = due].kind = "rollover"
        BY <4>1 DEF AdvancesInv, Typed, Requesting
      <4> QED
        BY <4>1, <4>2
    <3>3. CASE Abort(t)
      BY <3>3, IdleRequest DEF Abort, Ended
    <3> QED
      BY <1>6, <3>1, <3>2, <3>3
  <2> QED
    BY <2>1, OtherReads, ReadCollects
<1> QED
  BY <1>1, <1>2, <1>3, <1>4, <1>5, <1>6

(* Finalizing, or nothing at all. *)
LEMMA FinalizeCollects ==
  ASSUME AdvancesInv, AdvancesInv', CollectInv, UNCHANGED vars \/ \E m \in Months : Finalize(m)
  PROVE  CollectInv' /\ KeepsAll
<1>1. UNCHANGED <<advance, entry, txn>> /\ Typed'
  BY DEF Finalize, vars, AdvancesInv
<1>2. \A c \in Months : Current(c) => Current(c)'
  BY DEF Current, vars, Finalize, AdvancesInv, Typed
<1>3. \A u \in Txns : Held(txn'[u], txn[u])
  BY <1>1 DEF Held
<1> QED
  BY <1>1, <1>2, <1>3, QuietCollects

(* An entry that is written, and advances that are not: what it collects for them may be *)
(* dropped with it, and stays the same otherwise.                                        *)
LEMMA LineKeeps ==
  ASSUME Typed, Typed', NEW a \in Advances, Made(advance[a]), advance'[a] = advance[a],
         NEW m \in Months, NEW w \in Employees,
         \A c \in Months, e \in Employees, y \in Types :
            ~(c = m /\ e = w) => Share(entry'[c][e], y, a) = Share(entry[c][e], y, a),
         \A y \in Types : \/ Share(entry'[m][w], y, a) = Share(entry[m][w], y, a)
                          \/ /\ entry[m][w].outcome = "OPEN" /\ entry'[m][w].outcome = "NONE"
                             /\ entry[m][w].link[y] = a /\ entry'[m][w].link[y] = None
  PROVE  Keeps(a)
<1>1. PICK e \in Employees, y \in Types : e = advance[a].employee /\ y = advance[a].type
  BY DEF Made
<1>2. CASE e # w \/ Share(entry'[m][w], y, a) = Share(entry[m][w], y, a)
  <2>1. \A c \in Months : Share(entry'[c][e], y, a) = Share(entry[c][e], y, a)
    BY <1>2
  <2>2. Missing(a)' = Missing(a)
    BY <1>1, <2>1, MissingKept DEF SameAdvance
  <2> QED
    BY <2>2 DEF Keeps, Made
<1>3. CASE /\ e = w
           /\ entry[m][w].outcome = "OPEN" /\ entry'[m][w].outcome = "NONE"
           /\ entry[m][w].link[y] = a /\ entry'[m][w].link[y] = None
  <2>1. PICK o, n : o = advance[a].outstanding /\ n = advance[a].total
    OBVIOUS
  <2>2. o \in Nat /\ n \in Nat
    BY <2>1 DEF Typed, AdvanceRecord
  <2>3. PICK d : d = entry[m][w].deduction[y]
    OBVIOUS
  <2>4. d \in Nat
    BY <2>3 DEF Typed, EntryRecord
  <2>5. Share(entry[m][w], y, a) = d /\ Share(entry'[m][w], y, a) = 0
    BY <1>3, <2>3, NoneAssumption DEF Share, Resolutions
  <2>6. \A c \in Months : c # m => Share(entry'[c][e], y, a) = Share(entry[c][e], y, a)
    OBVIOUS
  <2>7. Missing(a) \in Int /\ Missing(a)' = Missing(a) + (n - n) - (o - o) + d - 0
    <3>1. SameAdvance(advance'[a], advance[a]) /\ advance'[a].outstanding = o /\ advance'[a].total = n
      BY <2>1 DEF SameAdvance
    <3>2. Share(entry[m][e], y, a) = d /\ Share(entry'[m][e], y, a) = 0
      BY <1>3, <2>5
    <3>3. \A c \in Months : c # m => Share(entry'[c][e], y, a) = Share(entry[c][e], y, a)
      BY <2>6
    <3>4. /\ Missing(a) \in Int
          /\ Missing(a)' = Missing(a) + (advance'[a].total - advance[a].total)
                            - (advance'[a].outstanding - advance[a].outstanding)
                            + Share(entry[m][e], y, a) - Share(entry'[m][e], y, a)
      BY <1>1, <3>1, <3>3, MissingChange
    <3> QED
      BY <2>1, <3>1, <3>2, <3>4
  <2>8. Missing(a)' = Missing(a) + d
    BY <2>2, <2>4, <2>7
  <2>9. m \in DOMAIN entry /\ advance[a].status # "NONE"
    BY DEF Typed, Made
  <2>10. Missing(a)' = Missing(a) + entry[m][w].deduction[y]
    BY <2>3, <2>8
  <2> QED
    BY <1>3, <2>9, <2>10 DEF Keeps
<1> QED
  BY <1>1, <1>2, <1>3

(* What an open line collects depends on its links and deductions only. *)
LEMMA SameShare ==
  ASSUME NEW line, NEW new, NEW a, NEW y, new.outcome = line.outcome, line.outcome \notin Resolutions,
         (new.link[y] = a) <=> (line.link[y] = a), line.link[y] = a => new.deduction[y] = line.deduction[y]
  PROVE  Share(new, y, a) = Share(line, y, a)
  BY DEF Share

(* Edits of one open entry that write no advance. *)
LEMMA EntryCollects ==
  ASSUME AdvancesInv, AdvancesInv', CollectInv, NEW slot \in Slots, NEW new \in EntryRecord,
         entry' = [entry EXCEPT ![slot[1]][slot[2]] = new], UNCHANGED <<advance, cycleStatus>>,
         At(slot).outcome = "OPEN",
         \A u \in Txns : Held(txn'[u], txn[u]),
         \/ /\ new.outcome = "OPEN" /\ new.of = At(slot).of /\ new.link = At(slot).link
            /\ \A y \in Types : At(slot).link[y] # None => new.deduction[y] = At(slot).deduction[y]
         \/ new = NoEntry /\ \A u \in Txns : txn'[u].valid => txn'[u].at # slot
  PROVE  CollectInv' /\ KeepsAll
<1>1. Typed /\ Typed'
  BY DEF AdvancesInv
<1>2. PICK m \in Months, w \in Employees : slot = <<m, w>> /\ At(slot) = entry[m][w]
  BY DEF Slots, At
<1>3. PICK line : line = entry[m][w]
  OBVIOUS
<1>4. entry'[m][w] = new /\ line.outcome = "OPEN"
  <2>1. entry'[slot[1]][slot[2]] = new
    BY <1>1, OneEntry
  <2> QED
    BY <1>2, <1>3, <2>1
<1>5. ASSUME NEW c \in Months, NEW e \in Employees, ~(c = m /\ e = w)  PROVE entry'[c][e] = entry[c][e]
  <2>1. <<c, e>> # slot
    BY <1>2, <1>5
  <2> QED
    BY <1>1, <2>1, OneEntry, Zenon
<1>6. NoEntry.outcome = "NONE" /\ \A y \in Types : NoEntry.link[y] = None /\ NoEntry.of[y] = None
  BY DEF NoEntry
<1>7. ASSUME NEW a \in Advances, advance'[a].status # "NONE"  PROVE Keeps(a)
  <2>1. Made(advance[a])
    BY <1>7 DEF AdvancesInv, RowsOK, BalancesOK
  <2>2. ASSUME NEW y \in Types
        PROVE  \/ Share(new, y, a) = Share(line, y, a)
               \/ /\ line.outcome = "OPEN" /\ new.outcome = "NONE" /\ line.link[y] = a /\ new.link[y] = None
    <3>1. CASE /\ new.outcome = "OPEN" /\ new.link = line.link
               /\ line.link[y] # None => new.deduction[y] = line.deduction[y]
      BY <1>4, <3>1, SameShare, NoneAssumption DEF Resolutions
    <3>2. CASE new = NoEntry
      BY <1>4, <1>6, <3>2, NoneAssumption DEF Share, Resolutions
    <3> QED
      BY <1>2, <1>3, <3>1, <3>2
  <2> QED
    <3>1. \A c \in Months, e \in Employees, y \in Types :
             ~(c = m /\ e = w) => Share(entry'[c][e], y, a) = Share(entry[c][e], y, a)
      BY <1>5
    <3> QED
      BY <1>1, <1>3, <1>4, <2>1, <2>2, <3>1, LineKeeps
<1>8. LinesOK'
  <2>1. SUFFICES ASSUME NEW c \in Months, NEW e \in Employees, NEW y \in Types
        PROVE  /\ entry'[c][e].outcome = "NONE" => entry'[c][e].link[y] = None
               /\ \A a \in Advances : entry'[c][e].of[y] = a =>
                    Made(advance[a]) /\ advance[a].employee = e /\ advance[a].type = y
    BY DEF LinesOK, Made
  <2>2. CASE c = m /\ e = w
    <3>1. entry'[c][e] = new
      BY <1>4, <2>2
    <3>2. \A a \in Advances : line.of[y] = a => Made(advance[a]) /\ advance[a].employee = e /\ advance[a].type = y
      BY <1>3, <2>2 DEF CollectInv, LinesOK
    <3> QED
      BY <1>2, <1>3, <1>6, <3>1, <3>2, NoneAssumption
  <2>3. CASE ~(c = m /\ e = w)
    BY <1>5, <2>3 DEF CollectInv, LinesOK
  <2> QED
    BY <2>2, <2>3
<1>9. ASSUME NEW u \in Txns  PROVE ReadOK(txn[u])'
  <2>1. AdvancesKept
    BY DEF AdvancesKept, SameAdvance
  <2>2. ASSUME txn[u].kind = "create", txn[u].pc = "commit", txn[u].at # NoSlot
        PROVE  /\ Current(txn[u].at[1]) => Current(txn[u].at[1])'
               /\ txn'[u].valid /\ At(txn[u].at).outcome # "NONE" => At(txn[u].at)'.outcome # "NONE"
    <3>1. txn[u].at \in Slots /\ txn'[u].at = txn[u].at
      BY <2>2 DEF AdvancesInv, RequestOK, CreateOK, Held
    <3>2. PICK c \in Months, e \in Employees : txn[u].at = <<c, e>>
      BY <3>1 DEF Slots
    <3>3. txn'[u].valid /\ entry[c][e].outcome # "NONE" => entry'[c][e].outcome # "NONE"
      <4>1. CASE c = m /\ e = w
        BY <1>2, <1>4, <3>1, <3>2, <4>1
      <4>2. CASE ~(c = m /\ e = w)
        BY <1>5, <4>2
      <4> QED
        BY <4>1, <4>2
    <3>4. /\ At(txn[u].at) = entry[c][e] /\ At(txn[u].at)' = entry'[c][e]
          /\ Current(txn[u].at[1]) => Current(txn[u].at[1])'
      BY <3>1, <3>2 DEF At, Current
    <3> QED
      BY <3>3, <3>4
  <2> QED
    BY <2>1, <2>2, ReadKept DEF CollectInv
<1> QED
  BY <1>7, <1>8, <1>9 DEF CollectInv, KeepsAll

(* The office's steps on one open entry. *)
LEMMA OfficeCollects ==
  ASSUME AdvancesInv, AdvancesInv', CollectInv, NEW slot \in Slots,
         \/ ToggleHold(slot) \/ DeleteEntry(slot)
         \/ \E y \in Types, amount \in ManualAmounts : TypeDeduction(slot, y, amount)
  PROVE  CollectInv' /\ KeepsAll
<1>1. PICK line : line = At(slot)
  OBVIOUS
<1>2. line \in EntryRecord /\ txn \in [Txns -> Requesting]
  BY <1>1 DEF AdvancesInv, Typed, Slots, At
<1>3. CASE ToggleHold(slot)
  <2>1. PICK new : new = [line EXCEPT !.hold = ~line.hold]
    OBVIOUS
  <2>2. /\ new \in EntryRecord /\ new.outcome = line.outcome /\ new.of = line.of /\ new.link = line.link
        /\ new.deduction = line.deduction
    BY <1>2, <2>1 DEF EntryRecord
  <2>3. /\ entry' = [entry EXCEPT ![slot[1]][slot[2]] = new] /\ UNCHANGED <<advance, cycleStatus>>
        /\ line.outcome = "OPEN" /\ txn' = Bumped({slot}, txn)
    BY <1>1, <1>3, <2>1 DEF ToggleHold, At, Editable
  <2>4. \A u \in Txns : Held(txn'[u], txn[u])
    BY <1>2, <2>3, BumpedRequests
  <2> QED
    BY <1>1, <2>2, <2>3, <2>4, EntryCollects
<1>4. ASSUME NEW x \in Types, NEW amount \in ManualAmounts, TypeDeduction(slot, x, amount)
      PROVE  CollectInv' /\ KeepsAll
  <2>1. PICK given : given = [line.deduction EXCEPT ![x] = amount]
    OBVIOUS
  <2>2. given \in [Types -> Nat] /\ \A y \in Types : y # x => given[y] = line.deduction[y]
    BY <1>2, <2>1, AmountsAssumption DEF EntryRecord
  <2>3. PICK new : new = [line EXCEPT !.deduction = given]
    OBVIOUS
  <2>4. /\ new \in EntryRecord /\ new.outcome = line.outcome /\ new.of = line.of /\ new.link = line.link
        /\ new.deduction = given
    BY <1>2, <2>2, <2>3 DEF EntryRecord
  <2>5. /\ entry' = [entry EXCEPT ![slot[1]][slot[2]] = new] /\ UNCHANGED <<advance, cycleStatus>>
        /\ line.outcome = "OPEN" /\ txn' = Bumped({slot}, txn) /\ line.link[x] = None
    BY <1>1, <1>4, <2>1, <2>3, Zenon DEF TypeDeduction, At, Editable
  <2>6. \A u \in Txns : Held(txn'[u], txn[u])
    BY <1>2, <2>5, BumpedRequests
  <2>7. \A y \in Types : line.link[y] # None => new.deduction[y] = line.deduction[y]
    BY <2>2, <2>4, <2>5
  <2> QED
    BY <1>1, <2>4, <2>5, <2>6, <2>7, EntryCollects, Zenon
<1>5. CASE DeleteEntry(slot)
  <2>1. /\ entry' = [entry EXCEPT ![slot[1]][slot[2]] = NoEntry] /\ UNCHANGED <<advance, cycleStatus>>
        /\ At(slot).outcome = "OPEN" /\ txn' = Deleted(slot, txn)
    BY <1>5 DEF DeleteEntry, Editable
  <2>2. \A u \in Txns : Held(txn'[u], txn[u]) /\ (txn'[u].valid => txn'[u].at # slot)
    BY <1>2, <2>1, DeletedRequests
  <2>3. PICK new \in EntryRecord : new = NoEntry
    BY EmptyRows
  <2> QED
    BY <2>1, <2>2, <2>3, EntryCollects
<1> QED
  BY <1>3, <1>4, <1>5

(* The lines that a step leaves as they are, but for their links and deductions. *)
LEMMA LinesWritten ==
  ASSUME CollectInv, AdvancesKept,
         \A c \in Months, e \in Employees :
            /\ entry'[c][e].outcome = entry[c][e].outcome /\ entry'[c][e].of = entry[c][e].of
            /\ entry[c][e].outcome = "NONE" => entry'[c][e].link = entry[c][e].link
  PROVE  LinesOK'
<1>1. SUFFICES ASSUME NEW c \in Months, NEW e \in Employees, NEW y \in Types
      PROVE  /\ entry'[c][e].outcome = "NONE" => entry'[c][e].link[y] = None
             /\ \A a \in Advances : entry'[c][e].of[y] = a =>
                  Made(advance'[a]) /\ advance'[a].employee = e /\ advance'[a].type = y
  BY DEF LinesOK, Made
<1>2. entry'[c][e].outcome = "NONE" => entry'[c][e].link[y] = None
  BY DEF CollectInv, LinesOK
<1>3. ASSUME NEW a \in Advances, entry'[c][e].of[y] = a
      PROVE  Made(advance'[a]) /\ advance'[a].employee = e /\ advance'[a].type = y
  <2>1. Made(advance[a]) /\ advance[a].employee = e /\ advance[a].type = y
    BY <1>3 DEF CollectInv, LinesOK
  <2> QED
    BY <2>1 DEF AdvancesKept, SameAdvance
<1> QED
  BY <1>2, <1>3

(* The office's steps and the commits that write other entries leave the requests what   *)
(* they have read.                                                                       *)
LEMMA ReadsKept ==
  ASSUME AdvancesInv, CollectInv, AdvancesKept, LinesOK', \A c \in Months : Current(c) => Current(c)',
         \A u \in Txns : Held(txn'[u], txn[u]) \/ txn'[u].kind = "none",
         \A c \in Months, e \in Employees, u \in Txns :
            entry[c][e].outcome # "NONE" /\ txn'[u].valid /\ txn'[u].at = <<c, e>> => entry'[c][e].outcome # "NONE"
  PROVE  CollectInv'
<1>1. ASSUME NEW u \in Txns  PROVE ReadOK(txn[u])'
  <2>1. CASE Held(txn'[u], txn[u])
    <3>1. ASSUME txn[u].kind = "create", txn[u].pc = "commit", txn[u].at # NoSlot
          PROVE  /\ Current(txn[u].at[1]) => Current(txn[u].at[1])'
                 /\ txn'[u].valid /\ At(txn[u].at).outcome # "NONE" => At(txn[u].at)'.outcome # "NONE"
      <4>1. txn[u].at \in Slots /\ txn'[u].at = txn[u].at
        BY <2>1, <3>1 DEF AdvancesInv, RequestOK, CreateOK, Held
      <4>2. PICK c \in Months, e \in Employees : txn[u].at = <<c, e>>
        BY <4>1 DEF Slots
      <4>3. /\ At(txn[u].at) = entry[c][e] /\ At(txn[u].at)' = entry'[c][e]
            /\ Current(txn[u].at[1]) => Current(txn[u].at[1])'
        BY <4>1, <4>2 DEF At, Current
      <4> QED
        BY <4>1, <4>2, <4>3
    <3> QED
      BY <2>1, <3>1, ReadKept DEF CollectInv
  <2>2. CASE txn'[u].kind = "none"
    BY <2>2 DEF ReadOK
  <2> QED
    BY <2>1, <2>2
<1> QED
  BY <1>1 DEF CollectInv

(* A departure drops what the entry it deletes deducts. *)
LEMMA LeaveCollects ==
  ASSUME AdvancesInv, AdvancesInv', CollectInv, NEW w \in Employees, Leave(w)
  PROVE  CollectInv' /\ KeepsAll
<1>1. UNCHANGED <<advance, cycleStatus>> /\ Typed /\ Typed'
  BY DEF Leave, AdvancesInv
<1>2. PICK gone :
         /\ \A c \in Months, x \in Employees :
              /\ <<c, x>> \in gone => entry'[c][x] = NoEntry
              /\ <<c, x>> \notin gone => SameLine(entry'[c][x], entry[c][x])
         /\ \A s, r \in gone : s = r
         /\ \A s \in gone : s \in Slots /\ At(s).outcome = "OPEN"
         /\ \A u \in Txns : /\ Held(txn'[u], txn[u])
                            /\ txn'[u].valid => txn'[u].at \notin gone
  BY Departed
<1>3. /\ NoEntry.outcome = "NONE" /\ \A y \in Types : NoEntry.link[y] = None /\ NoEntry.of[y] = None
  BY EmptyRows
<1>4. AdvancesKept
  BY <1>1 DEF AdvancesKept, SameAdvance
<1>5. ASSUME NEW c \in Months, NEW e \in Employees, <<c, e>> \notin gone
      PROVE  \A y \in Types, a \in Advances : Share(entry'[c][e], y, a) = Share(entry[c][e], y, a)
  BY <1>2, <1>5 DEF SameLine, Share
<1>6. ASSUME NEW a \in Advances, advance'[a].status # "NONE"  PROVE Keeps(a)
  <2>1. Made(advance[a]) /\ advance'[a] = advance[a]
    BY <1>1, <1>6 DEF AdvancesInv, RowsOK, BalancesOK
  <2>2. CASE gone = {}
    <3>1. \A c \in Months : Share(entry'[c][advance[a].employee], advance[a].type, a)
                              = Share(entry[c][advance[a].employee], advance[a].type, a)
      BY <1>5, <2>1, <2>2 DEF Made
    <3>2. Missing(a)' = Missing(a)
      BY <1>1, <2>1, <3>1, MissingKept DEF SameAdvance
    <3> QED
      BY <2>1, <3>2 DEF Keeps, Made
  <2>3. CASE gone # {}
    <3>1. PICK m \in Months, x \in Employees : <<m, x>> \in gone /\ At(<<m, x>>) = entry[m][x]
      BY <1>2, <2>3 DEF Slots, At
    <3>2. ASSUME NEW c \in Months, NEW e \in Employees, NEW y \in Types, ~(c = m /\ e = x)
          PROVE  Share(entry'[c][e], y, a) = Share(entry[c][e], y, a)
      <4>1. <<c, e>> \notin gone
        BY <1>2, <3>1, <3>2
      <4> QED
        BY <1>5, <4>1
    <3>3. ASSUME NEW y \in Types
          PROVE  \/ Share(entry'[m][x], y, a) = Share(entry[m][x], y, a)
                 \/ /\ entry[m][x].outcome = "OPEN" /\ entry'[m][x].outcome = "NONE"
                    /\ entry[m][x].link[y] = a /\ entry'[m][x].link[y] = None
      <4>1. PICK line, new : line = entry[m][x] /\ new = entry'[m][x]
        OBVIOUS
      <4>2. line.outcome = "OPEN" /\ new.outcome = "NONE" /\ new.link[y] = None
        BY <1>2, <1>3, <3>1, <4>1
      <4> QED
        BY <4>1, <4>2, NoneAssumption DEF Share, Resolutions
    <3> QED
      BY <1>1, <2>1, <3>2, <3>3, LineKeeps
  <2> QED
    BY <2>2, <2>3
<1>7. LinesOK'
  <2>1. SUFFICES ASSUME NEW c \in Months, NEW e \in Employees, NEW y \in Types
        PROVE  /\ entry'[c][e].outcome = "NONE" => entry'[c][e].link[y] = None
               /\ \A a \in Advances : entry'[c][e].of[y] = a =>
                    Made(advance[a]) /\ advance[a].employee = e /\ advance[a].type = y
    BY <1>1 DEF LinesOK, Made
  <2>2. CASE <<c, e>> \in gone
    BY <1>2, <1>3, <2>2, NoneAssumption
  <2>3. CASE <<c, e>> \notin gone
    BY <1>2, <2>3 DEF SameLine, CollectInv, LinesOK
  <2> QED
    BY <2>2, <2>3
<1>8. CollectInv'
  <2>1. \A c \in Months, e \in Employees, u \in Txns :
          entry[c][e].outcome # "NONE" /\ txn'[u].valid /\ txn'[u].at = <<c, e>> => entry'[c][e].outcome # "NONE"
    BY <1>2, Zenon DEF SameLine
  <2>2. \A c \in Months : Current(c) => Current(c)'
    BY <1>1 DEF Current
  <2> QED
    BY <1>2, <1>4, <1>7, <2>1, <2>2, ReadsKept
<1> QED
  BY <1>6, <1>8 DEF KeepsAll

(* A return opens an entry that collects nothing. *)
LEMMA ReturnCollects ==
  ASSUME AdvancesInv, AdvancesInv', CollectInv, NEW w \in Employees, Return(w)
  PROVE  CollectInv' /\ KeepsAll
<1>1. /\ UNCHANGED <<advance, cycleStatus, txn>> /\ Typed /\ Typed'
      /\ entry' = [c \in Months |-> [x \in Employees |->
                   IF c \in Drafts /\ x = w /\ entry[c][x].outcome = "NONE" THEN FreshEntry ELSE entry[c][x]]]
  BY DEF Return, AdvancesInv
<1>2. \A c \in Months, x \in Employees :
         \/ entry'[c][x] = entry[c][x]
         \/ entry'[c][x] = FreshEntry /\ entry[c][x].outcome = "NONE"
  BY <1>1
<1>3. FreshEntry.outcome = "OPEN" /\ \A y \in Types : FreshEntry.link[y] = None /\ FreshEntry.of[y] = None
  BY EmptyRows
<1>4. AdvancesKept
  BY <1>1 DEF AdvancesKept, SameAdvance
<1>5. ASSUME NEW c \in Months, NEW e \in Employees, NEW y \in Types, NEW a \in Advances
      PROVE  Share(entry'[c][e], y, a) = Share(entry[c][e], y, a)
  <2>1. CASE entry'[c][e] = entry[c][e]
    BY <2>1
  <2>2. CASE entry'[c][e] = FreshEntry /\ entry[c][e].outcome = "NONE"
    <3>1. PICK line, new : line = entry[c][e] /\ new = entry'[c][e]
      OBVIOUS
    <3>2. line.outcome = "NONE" /\ line.link[y] = None /\ new.outcome = "OPEN" /\ new.link[y] = None
      BY <1>3, <2>2, <3>1 DEF CollectInv, LinesOK
    <3> QED
      BY <3>1, <3>2, NoneAssumption DEF Share, Resolutions
  <2> QED
    BY <1>2, <2>1, <2>2
<1>6. ASSUME NEW a \in Advances, advance'[a].status # "NONE"  PROVE Keeps(a)
  <2>1. Made(advance[a]) /\ advance'[a] = advance[a]
    BY <1>1, <1>6 DEF AdvancesInv, RowsOK, BalancesOK
  <2>2. Missing(a)' = Missing(a)
    BY <1>1, <1>5, <2>1, MissingKept DEF SameAdvance, Made
  <2> QED
    BY <2>1, <2>2 DEF Keeps, Made
<1>7. LinesOK'
  <2>1. SUFFICES ASSUME NEW c \in Months, NEW e \in Employees, NEW y \in Types
        PROVE  /\ entry'[c][e].outcome = "NONE" => entry'[c][e].link[y] = None
               /\ \A a \in Advances : entry'[c][e].of[y] = a =>
                    Made(advance[a]) /\ advance[a].employee = e /\ advance[a].type = y
    BY <1>1 DEF LinesOK, Made
  <2>2. CASE entry'[c][e] = entry[c][e]
    BY <2>2 DEF CollectInv, LinesOK
  <2>3. CASE entry'[c][e] = FreshEntry
    BY <1>3, <2>3, NoneAssumption
  <2> QED
    BY <1>2, <2>2, <2>3
<1>8. CollectInv'
  <2>1. \A c \in Months, e \in Employees : entry[c][e].outcome # "NONE" => entry'[c][e].outcome # "NONE"
    BY <1>2
  <2>2. \A c \in Months : Current(c) => Current(c)'
    BY <1>1 DEF Current
  <2>3. \A u \in Txns : Held(txn'[u], txn[u])
    BY <1>1 DEF Held
  <2> QED
    BY <1>4, <1>7, <2>1, <2>2, <2>3, ReadsKept
<1> QED
  BY <1>6, <1>8 DEF KeepsAll

(* A write of one entry, by its month and its employee. *)
LEMMA OneSlot ==
  ASSUME Typed, NEW slot \in Slots, NEW new \in EntryRecord, entry' = [entry EXCEPT ![slot[1]][slot[2]] = new]
  PROVE  \E m \in Months, w \in Employees :
            /\ slot = <<m, w>> /\ At(slot) = entry[m][w] /\ entry'[m][w] = new
            /\ \A c \in Months, e \in Employees : ~(c = m /\ e = w) => entry'[c][e] = entry[c][e]
<1>1. PICK m \in Months, w \in Employees : slot = <<m, w>> /\ At(slot) = entry[m][w]
  BY DEF Slots, At
<1>2. /\ entry'[slot[1]][slot[2]] = new
      /\ \A c \in Months, e \in Employees : <<c, e>> # slot => entry'[c][e] = entry[c][e]
  BY OneEntry
<1>3. entry'[m][w] = new
  BY <1>1, <1>2
<1>4. ASSUME NEW c \in Months, NEW e \in Employees, ~(c = m /\ e = w)  PROVE entry'[c][e] = entry[c][e]
  <2>1. <<c, e>> # slot
    BY <1>1, <1>4
  <2> QED
    BY <1>2, <2>1
<1> QED
  BY <1>1, <1>3, <1>4

(* A commit that rewrites one entry that exists. *)
LEMMA LineCommitted ==
  ASSUME AdvancesInv, CollectInv, NEW t \in Txns, txn[t].kind # "none", NEW slot \in Slots,
         NEW new \in EntryRecord, entry' = [entry EXCEPT ![slot[1]][slot[2]] = new],
         txn' = Bumped({slot}, Ended(t)), AdvancesKept, cycleStatus' = cycleStatus,
         new.outcome = At(slot).outcome, new.of = At(slot).of, At(slot).outcome # "NONE"
  PROVE  CollectInv'
<1>1. PICK m \in Months, w \in Employees :
            /\ slot = <<m, w>> /\ At(slot) = entry[m][w] /\ entry'[m][w] = new
            /\ \A c \in Months, e \in Employees : ~(c = m /\ e = w) => entry'[c][e] = entry[c][e]
  BY OneSlot, Zenon DEF AdvancesInv
<1>2. ASSUME NEW c \in Months, NEW e \in Employees
      PROVE  /\ entry'[c][e].outcome = entry[c][e].outcome /\ entry'[c][e].of = entry[c][e].of
             /\ entry[c][e].outcome = "NONE" => entry'[c][e].link = entry[c][e].link
  <2>1. CASE c = m /\ e = w
    BY <1>1, <2>1
  <2>2. CASE ~(c = m /\ e = w)
    BY <1>1, <2>2
  <2> QED
    BY <2>1, <2>2
<1>3. LinesOK'
  BY <1>2, LinesWritten
<1>4. \A u \in Txns : Held(txn'[u], txn[u]) \/ txn'[u].kind = "none"
  BY EndedRequests, Zenon
<1>5. \A c \in Months : Current(c) => Current(c)'
  BY DEF Current
<1> QED
  BY <1>2, <1>3, <1>4, <1>5, ReadsKept, Zenon

(* What is given back to a balance is no longer deducted, and what is deducted again is  *)
(* taken off the balance: a cancellation, a deferral or an edit of an advance in an      *)
(* entry.                                                                                *)
LEMMA RepaysCollect ==
  ASSUME AdvancesInv, AdvancesInv', CollectInv, NEW t \in Txns, txn[t].kind # "none",
         NEW a \in Advances, Made(advance[a]), NEW slot \in Slots, slot[2] = advance[a].employee,
         At(slot).outcome = "OPEN", At(slot).link[advance[a].type] = a,
         NEW new \in EntryRecord, new.outcome = "OPEN", new.of = At(slot).of, NEW d \in Nat,
         \/ new.link[advance[a].type] = None /\ d = 0
         \/ new.link[advance[a].type] = a /\ new.deduction[advance[a].type] = d,
         \A x \in Types : x # advance[a].type =>
            new.link[x] = At(slot).link[x] /\ new.deduction[x] = At(slot).deduction[x],
         NEW final \in AdvanceRecord, Made(final), SameAdvance(final, advance[a]),
         (final.total - advance[a].total) - (final.outstanding - advance[a].outstanding)
            + At(slot).deduction[advance[a].type] - d = 0,
         advance' = [advance EXCEPT ![a] = final],
         entry' = [entry EXCEPT ![slot[1]][slot[2]] = new],
         txn' = Bumped({slot}, Ended(t)), cycleStatus' = cycleStatus
  PROVE  CollectInv' /\ KeepsAll
<1>1. Typed /\ Typed'
  BY DEF AdvancesInv
<1>2. advance'[a] = final /\ \A b \in Advances : b # a => advance'[b] = advance[b]
  BY <1>1 DEF Typed
<1>3. AdvancesKept
  BY <1>2 DEF AdvancesKept, SameAdvance
<1>4. CollectInv'
  <2>1. new.outcome = At(slot).outcome /\ At(slot).outcome # "NONE"
    OBVIOUS
  <2> QED
    BY <1>3, <2>1, LineCommitted
<1>5. PICK m \in Months, w \in Employees :
              /\ slot = <<m, w>> /\ At(slot) = entry[m][w] /\ entry'[m][w] = new
              /\ \A c \in Months, e \in Employees : ~(c = m /\ e = w) => entry'[c][e] = entry[c][e]
  BY <1>1, OneSlot, ZenonT(60)
<1>6. PICK y \in Types : y = advance[a].type
  BY DEF Made
<1>7. PICK line : line = entry[m][w] /\ line.outcome = "OPEN" /\ line.link[y] = a
  BY <1>5, <1>6
<1>8. PICK r : r = line.deduction[y] /\ r \in Nat
  BY <1>1, <1>6, <1>7 DEF Typed, EntryRecord
<1>9. a # None
  BY NoneAssumption
<1>10. Keeps(a)
  <2>1. w = advance[a].employee
    BY <1>5
  <2>2. \A c \in Months : c # m => Share(entry'[c][w], y, a) = Share(entry[c][w], y, a)
    BY <1>5
  <2>3. Share(line, y, a) = r /\ Share(new, y, a) = d
    BY <1>6, <1>7, <1>8, <1>9 DEF Share, Resolutions
  <2>4. PICK o, n, o2, n2 : o = advance[a].outstanding /\ n = advance[a].total /\ o2 = final.outstanding /\ n2 = final.total
    OBVIOUS
  <2>5. o \in Nat /\ n \in Nat /\ o2 \in Nat /\ n2 \in Nat
    BY <1>1, <2>4 DEF Typed, AdvanceRecord
  <2>6. (n2 - n) - (o2 - o) + r - d = 0
    BY <1>5, <1>6, <1>7, <1>8, <2>4
  <2>7. SameAdvance(advance'[a], advance[a])
    BY <1>2
  <2>8. /\ Missing(a) \in Int
        /\ Missing(a)' = Missing(a) + (advance'[a].total - advance[a].total)
                            - (advance'[a].outstanding - advance[a].outstanding)
                            + Share(entry[m][w], y, a) - Share(entry'[m][w], y, a)
    BY <1>1, <1>6, <2>1, <2>2, <2>7, MissingChange
  <2>9. Missing(a) \in Int /\ Missing(a)' = Missing(a) + (n2 - n) - (o2 - o) + r - d
    BY <1>2, <1>5, <1>7, <2>3, <2>4, <2>8
  <2>10. Missing(a)' = Missing(a)
    BY <1>8, <2>5, <2>6, <2>9
  <2> QED
    BY <2>10 DEF Keeps, Made
<1>11. ASSUME NEW b \in Advances, b # a, advance'[b].status # "NONE"  PROVE Keeps(b)
  <2>1. Made(advance[b]) /\ advance'[b] = advance[b]
    BY <1>2, <1>11 DEF AdvancesInv, RowsOK, BalancesOK
  <2>2. ASSUME NEW x \in Types  PROVE Share(new, x, b) = Share(line, x, b)
    <3>1. CASE x = y
      BY <1>6, <1>7, <1>11, <3>1, NoneAssumption DEF Share, Resolutions
    <3>2. CASE x # y
      BY <1>5, <1>6, <1>7, <3>2 DEF Share, Resolutions
    <3> QED
      BY <3>1, <3>2
  <2>3. ASSUME NEW c \in Months, NEW e \in Employees, NEW x \in Types
        PROVE  Share(entry'[c][e], x, b) = Share(entry[c][e], x, b)
    <3>1. CASE c = m /\ e = w
      BY <1>5, <1>7, <2>2, <3>1
    <3>2. CASE ~(c = m /\ e = w)
      BY <1>5, <3>2
    <3> QED
      BY <3>1, <3>2
  <2>4. Missing(b)' = Missing(b)
    BY <1>1, <2>1, <2>3, MissingKept DEF SameAdvance, Made
  <2> QED
    BY <2>1, <2>4 DEF Keeps, Made
<1> QED
  BY <1>4, <1>10, <1>11 DEF KeepsAll

(* A cancellation or an edit of an advance that no entry deducts for. *)
LEMMA BalanceCollects ==
  ASSUME AdvancesInv, AdvancesInv', CollectInv, NEW t \in Txns, txn[t].kind # "none",
         NEW a \in Advances, Made(advance[a]),
         NEW final \in AdvanceRecord, Made(final), SameAdvance(final, advance[a]),
         final.total - final.outstanding = advance[a].total - advance[a].outstanding,
         advance' = [advance EXCEPT ![a] = final], UNCHANGED <<entry, cycleStatus>>, txn' = Ended(t)
  PROVE  CollectInv' /\ KeepsAll
<1>1. Typed /\ Typed'
  BY DEF AdvancesInv
<1>2. advance'[a] = final /\ \A b \in Advances : b # a => advance'[b] = advance[b]
  BY <1>1 DEF Typed
<1>3. AdvancesKept
  BY <1>2 DEF AdvancesKept, SameAdvance
<1>4. CollectInv'
  <2>1. LinesOK'
    BY <1>3, LinesWritten
  <2>2. \A u \in Txns : Held(txn'[u], txn[u]) \/ txn'[u].kind = "none"
    BY EndedRequests
  <2>3. \A c \in Months : Current(c) => Current(c)'
    BY DEF Current
  <2> QED
    BY <1>3, <2>1, <2>2, <2>3, ReadsKept
<1>5. ASSUME NEW b \in Advances, advance'[b].status # "NONE"  PROVE Keeps(b)
  <2>1. Made(advance[b])
    BY <1>2, <1>5 DEF AdvancesInv, RowsOK, BalancesOK, Made
  <2>2. CASE b # a
    <3>1. Missing(b)' = Missing(b)
      BY <1>1, <1>2, <2>1, <2>2, MissingKept DEF SameAdvance
    <3> QED
      BY <2>1, <3>1 DEF Keeps, Made
  <2>3. CASE b = a
    <3>1. PICK e \in Employees, y \in Types : e = advance[a].employee /\ y = advance[a].type
      BY DEF Made
    <3>2. 1 \in Months
      BY LastMonthAssumption DEF Months
    <3>3. PICK p : p = Share(entry[1][e], y, a) /\ p \in Nat
      BY <1>1, <3>2, ShareType DEF Typed
    <3>4. PICK o, n, o2, n2 : o = advance[a].outstanding /\ n = advance[a].total /\ o2 = final.outstanding /\ n2 = final.total
      OBVIOUS
    <3>5. o \in Nat /\ n \in Nat /\ o2 \in Nat /\ n2 \in Nat /\ n2 - o2 = n - o
      BY <1>1, <3>4 DEF Typed, AdvanceRecord
    <3>6. SameAdvance(advance'[a], advance[a]) /\ advance'[a].outstanding = o2 /\ advance'[a].total = n2
      BY <1>2, <3>4
    <3>7. \A c \in Months : c # 1 => Share(entry'[c][e], y, a) = Share(entry[c][e], y, a)
      OBVIOUS
    <3>8. /\ Missing(a) \in Int
          /\ Missing(a)' = Missing(a) + (advance'[a].total - advance[a].total)
                            - (advance'[a].outstanding - advance[a].outstanding)
                            + Share(entry[1][e], y, a) - Share(entry'[1][e], y, a)
      BY <1>1, <3>1, <3>2, <3>6, <3>7, MissingChange
    <3>9. Missing(a) \in Int /\ Missing(a)' = Missing(a) + (n2 - n) - (o2 - o) + p - p
      BY <3>3, <3>4, <3>6, <3>8
    <3>10. Missing(a)' = Missing(a)
      BY <3>3, <3>5, <3>9
    <3> QED
      BY <2>1, <2>3, <3>10 DEF Keeps, Made
  <2> QED
    BY <2>2, <2>3
<1> QED
  BY <1>4, <1>5 DEF KeepsAll

LEMMA CancelCollects ==
  ASSUME AdvancesInv, AdvancesInv', CollectInv, NEW t \in Txns, CommitCancel(t)
  PROVE  CollectInv' /\ KeepsAll
<1>1. PICK a, slot, r : a = txn[t].id /\ slot = txn[t].at /\ r = Reversal(t)
  OBVIOUS
<1>2. PICK final : final = [advance[a] EXCEPT !.status = "CANCELLED", !.outstanding = Restored(t), !.period = 0]
  OBVIOUS
<1>3. /\ txn[t].kind = "cancel" /\ txn[t].pc = "commit" /\ EntryUnchanged(t) /\ SameStatusAndBalance(t)
      /\ advance' = [advance EXCEPT ![a] = final]
      /\ UNCHANGED cycleStatus
  BY <1>1, <1>2 DEF CommitCancel
<1>4. /\ a \in Advances /\ Made(advance[a]) /\ txn[t].row.type = advance[a].type
      /\ txn[t].row.outstanding = advance[a].outstanding
      /\ r \in Nat
      /\ slot # NoSlot =>
           /\ slot \in Slots /\ slot[2] = advance[a].employee
           /\ r = At(slot).deduction[advance[a].type] /\ At(slot) \in EntryRecord
           /\ txn[t].valid => At(slot).outcome = "OPEN" /\ At(slot).link[advance[a].type] = a
      /\ slot = NoSlot => r = 0
  BY <1>1, <1>3, Reversed DEF Guarded
<1>5. PICK y \in Types : y = advance[a].type
  BY <1>4 DEF Made
<1>6. advance[a] \in AdvanceRecord /\ advance[a].outstanding \in Nat /\ advance[a].total \in Nat
  BY <1>4 DEF AdvancesInv, Typed, AdvanceRecord
<1>7. /\ final \in AdvanceRecord /\ Made(final) /\ SameAdvance(final, advance[a])
      /\ final.total = advance[a].total /\ final.outstanding = advance[a].outstanding + r
  <2>1. PICK o \in Nat : o = Restored(t) /\ o = advance[a].outstanding + r
    BY <1>1, <1>4, <1>6 DEF Restored
  <2>2. PICK row \in AdvanceRecord : row = advance[a] /\ Made(row)
    BY <1>4, <1>6
  <2>3. final = [row EXCEPT !.status = "CANCELLED", !.outstanding = o, !.period = 0]
    BY <1>2, <2>1, <2>2
  <2>4. 0 \in 0 .. LastMonth + 1
    BY LastMonthAssumption
  <2>5. final \in AdvanceRecord /\ Made(final) /\ SameAdvance(final, row) /\ final.total = row.total /\ final.outstanding = o
    BY <2>1, <2>2, <2>3, <2>4, Zenon DEF AdvanceRecord, SameAdvance, Made
  <2> QED
    BY <2>1, <2>2, <2>5
<1>8. PICK o, n : o = advance[a].outstanding /\ n = advance[a].total
  OBVIOUS
<1>9. CASE r > 0
  <2>1. slot # NoSlot /\ txn[t].valid
    BY <1>1, <1>3, <1>4, <1>9 DEF EntryUnchanged
  <2>2. PICK line, new : line = At(slot) /\ new = Cleared(line, y)
    OBVIOUS
  <2>3. /\ new \in EntryRecord /\ new.outcome = line.outcome /\ new.link[y] = None /\ new.of = line.of
        /\ \A x \in Types : x # y => new.link[x] = line.link[x] /\ new.deduction[x] = line.deduction[x]
    BY <1>4, <2>1, <2>2, ClearedLine
  <2>4. entry' = [entry EXCEPT ![slot[1]][slot[2]] = new] /\ txn' = Bumped({slot}, Ended(t))
    BY <1>1, <1>4, <1>5, <1>9, <2>2, Zenon DEF CommitCancel, At
  <2>5. /\ new.outcome = "OPEN" /\ new.of = At(slot).of /\ new.link[advance[a].type] = None
        /\ \A x \in Types : x # advance[a].type =>
              new.link[x] = At(slot).link[x] /\ new.deduction[x] = At(slot).deduction[x]
    BY <1>4, <1>5, <2>1, <2>2, <2>3
  <2>6. /\ slot \in Slots /\ slot[2] = advance[a].employee /\ At(slot).outcome = "OPEN"
        /\ At(slot).link[advance[a].type] = a
    BY <1>4, <2>1
  <2>7. (n - n) - ((o + r) - o) + r - 0 = 0 /\ 0 \in Nat /\ txn[t].kind # "none"
    BY <1>3, <1>4, <1>6, <1>8
  <2>8. /\ (final.total - advance[a].total) - (final.outstanding - advance[a].outstanding)
               + At(slot).deduction[advance[a].type] - 0 = 0
    BY <1>4, <1>7, <1>8, <2>1, <2>7
  <2> QED
    BY <1>3, <1>4, <1>7, <2>3, <2>4, <2>5, <2>6, <2>7, <2>8, RepaysCollect, Zenon
<1>10. CASE ~(r > 0)
  <2>1. r = 0 /\ UNCHANGED entry /\ txn' = Ended(t) /\ txn[t].kind # "none"
    BY <1>1, <1>3, <1>4, <1>10 DEF CommitCancel
  <2>2. final.total - final.outstanding = advance[a].total - advance[a].outstanding
    BY <1>6, <1>7, <2>1
  <2> QED
    BY <1>3, <1>4, <1>7, <2>1, <2>2, BalanceCollects
<1> QED
  BY <1>9, <1>10

LEMMA DeferCollects ==
  ASSUME AdvancesInv, AdvancesInv', CollectInv, NEW t \in Txns, CommitDefer(t)
  PROVE  CollectInv' /\ KeepsAll
<1>1. PICK a, slot, r : a = txn[t].id /\ slot = txn[t].at /\ r = Reversal(t)
  OBVIOUS
<1>2. PICK final : final = [advance[a] EXCEPT !.status = "ACTIVE", !.outstanding = Restored(t), !.period = txn[t].month]
  OBVIOUS
<1>3. /\ txn[t].kind = "defer" /\ advance' = [advance EXCEPT ![a] = final]
      /\ txn' = Bumped({slot}, Ended(t)) /\ UNCHANGED cycleStatus
  BY <1>1, <1>2 DEF CommitDefer
<1>4. /\ a \in Advances /\ Made(advance[a]) /\ txn[t].row.type = advance[a].type
      /\ txn[t].row.outstanding = advance[a].outstanding
      /\ r \in Nat /\ slot \in Slots /\ slot[2] = advance[a].employee
      /\ r = At(slot).deduction[advance[a].type] /\ At(slot) \in EntryRecord
      /\ At(slot).outcome = "OPEN" /\ At(slot).link[advance[a].type] = a
  BY <1>1, Deferred
<1>5. PICK y \in Types : y = advance[a].type
  BY <1>4 DEF Made
<1>6. advance[a] \in AdvanceRecord /\ advance[a].outstanding \in Nat /\ advance[a].total \in Nat
  BY <1>4 DEF AdvancesInv, Typed, AdvanceRecord
<1>7. /\ final \in AdvanceRecord /\ Made(final) /\ SameAdvance(final, advance[a])
      /\ final.total = advance[a].total /\ final.outstanding = advance[a].outstanding + r
  <2>1. PICK o \in Nat : o = Restored(t) /\ o = advance[a].outstanding + r
    BY <1>1, <1>4, <1>6 DEF Restored
  <2>2. PICK row \in AdvanceRecord : row = advance[a] /\ Made(row)
    BY <1>4, <1>6
  <2>3. PICK m \in 0 .. LastMonth + 1 : m = txn[t].month
    BY LastMonthAssumption DEF AdvancesInv, Typed, Requesting
  <2>4. final = [row EXCEPT !.status = "ACTIVE", !.outstanding = o, !.period = m]
    BY <1>2, <2>1, <2>2, <2>3
  <2>5. final \in AdvanceRecord /\ Made(final) /\ SameAdvance(final, row) /\ final.total = row.total /\ final.outstanding = o
    BY <2>1, <2>2, <2>3, <2>4 DEF AdvanceRecord, SameAdvance, Made
  <2> QED
    BY <2>1, <2>2, <2>5
<1>8. PICK line, cleared, new : line = At(slot) /\ cleared = Cleared(line, y) /\ new = [cleared EXCEPT !.deferred = TRUE]
  OBVIOUS
<1>9. /\ cleared \in EntryRecord /\ cleared.outcome = line.outcome /\ cleared.link[y] = None /\ cleared.of = line.of
      /\ \A x \in Types : x # y => cleared.link[x] = line.link[x] /\ cleared.deduction[x] = line.deduction[x]
  BY <1>4, <1>8, ClearedLine
<1>10. /\ new \in EntryRecord /\ new.outcome = cleared.outcome /\ new.of = cleared.of
       /\ new.link = cleared.link /\ new.deduction = cleared.deduction
  BY <1>8, <1>9, Zenon DEF EntryRecord
<1>11. entry' = [entry EXCEPT ![slot[1]][slot[2]] = new]
  BY <1>1, <1>4, <1>5, <1>8, Zenon DEF CommitDefer, At
<1>12. /\ new.outcome = "OPEN" /\ new.of = At(slot).of /\ new.link[advance[a].type] = None
       /\ \A x \in Types : x # advance[a].type =>
             new.link[x] = At(slot).link[x] /\ new.deduction[x] = At(slot).deduction[x]
  BY <1>4, <1>5, <1>8, <1>9, <1>10
<1>13. PICK o, n : o = advance[a].outstanding /\ n = advance[a].total
  OBVIOUS
<1>14. (n - n) - ((o + r) - o) + r - 0 = 0 /\ 0 \in Nat /\ txn[t].kind # "none"
  BY <1>3, <1>4, <1>6, <1>13
<1>15. (final.total - advance[a].total) - (final.outstanding - advance[a].outstanding)
          + At(slot).deduction[advance[a].type] - 0 = 0
  BY <1>4, <1>7, <1>13, <1>14
<1> QED
  BY <1>3, <1>4, <1>7, <1>10, <1>11, <1>12, <1>14, <1>15, RepaysCollect

LEMMA EditCollects ==
  ASSUME AdvancesInv, AdvancesInv', CollectInv, NEW t \in Txns, CommitEdit(t)
  PROVE  CollectInv' /\ KeepsAll
<1>1. PICK a, slot, r, n : a = txn[t].id /\ slot = txn[t].at /\ r = Reversal(t) /\ n = txn[t].amount
  OBVIOUS
<1>2. PICK updated : updated = [advance[a] EXCEPT !.total = n, !.outstanding = n - (txn[t].row.total - Restored(t))]
  OBVIOUS
<1>3. PICK final : final = IF r > 0 THEN Deducted(updated, slot[1]) ELSE updated
  OBVIOUS
<1>4. /\ txn[t].kind = "edit" /\ txn[t].pc = "commit" /\ EntryUnchanged(t) /\ SameStatusAndBalance(t)
      /\ advance[a].total = txn[t].row.total
      /\ n >= txn[t].row.total - Restored(t)
      /\ advance' = [advance EXCEPT ![a] = final]
      /\ cycleStatus' = cycleStatus
  BY <1>1, <1>2, <1>3 DEF CommitEdit
<1>5. /\ a \in Advances /\ Made(advance[a]) /\ txn[t].row.type = advance[a].type
      /\ txn[t].row.outstanding = advance[a].outstanding
      /\ r \in Nat
      /\ slot # NoSlot =>
           /\ slot \in Slots /\ slot[2] = advance[a].employee
           /\ r = At(slot).deduction[advance[a].type] /\ At(slot) \in EntryRecord
           /\ txn[t].valid => At(slot).outcome = "OPEN" /\ At(slot).link[advance[a].type] = a
      /\ slot = NoSlot => r = 0
  BY <1>1, <1>4, Reversed DEF Guarded
<1>6. PICK y \in Types : y = advance[a].type
  BY <1>5 DEF Made
<1>7. advance[a] \in AdvanceRecord /\ n \in Nat
  BY <1>1, <1>5 DEF AdvancesInv, Typed, Requesting
<1>8. PICK o, total : o = advance[a].outstanding /\ total = advance[a].total
  OBVIOUS
<1>9. o \in Nat /\ total \in Nat
  BY <1>7, <1>8 DEF AdvanceRecord
<1>10. txn[t].row.total - Restored(t) = total - (o + r)
  BY <1>1, <1>4, <1>5, <1>8 DEF Restored
<1>11. PICK k \in Nat : k = n - (total - (o + r))
  BY <1>4, <1>5, <1>7, <1>9, <1>10
<1>12. /\ updated \in AdvanceRecord /\ Made(updated) /\ SameAdvance(updated, advance[a])
       /\ updated.total = n /\ updated.outstanding = k
  <2>1. PICK row \in AdvanceRecord : row = advance[a] /\ Made(row)
    BY <1>5, <1>7
  <2>2. updated = [row EXCEPT !.total = n, !.outstanding = k]
    BY <1>2, <1>10, <1>11, <2>1
  <2> HIDE <1>2, <1>4, <1>10
  <2>3. /\ updated \in AdvanceRecord /\ Made(updated) /\ SameAdvance(updated, row)
        /\ updated.total = n /\ updated.outstanding = k
    BY <1>7, <1>11, <2>1, <2>2 DEF AdvanceRecord, SameAdvance, Made
  <2> QED
    BY <2>1, <2>3
<1>13. txn[t].kind # "none"
  BY <1>4
<1>14. CASE r > 0
  <2>1. slot # NoSlot /\ txn[t].valid
    BY <1>1, <1>4, <1>5, <1>14 DEF EntryUnchanged
  <2>2. PICK m \in Months : slot[1] = m
    BY <1>5, <2>1 DEF Slots
  <2>3. PICK line, new, d : line = At(slot) /\ new = Carrying(line, a, updated) /\ d = Due(updated)
    OBVIOUS
  <2>4. m \in 0 .. LastMonth /\ final = Deducted(updated, m)
    BY <1>3, <1>14, <2>2, LastMonthAssumption DEF Months
  <2>5. /\ d \in Nat /\ d <= updated.outstanding
        /\ final \in AdvanceRecord /\ Open(final) /\ SameAdvance(final, updated)
        /\ final.outstanding = k - d /\ final.total = n
    BY <1>12, <2>3, <2>4, DeductedRow
  <2>6. SameAdvance(final, advance[a]) /\ Made(final) /\ updated.type = y
    BY <1>6, <1>12, <2>5 DEF SameAdvance, Made, Open
  <2>7. line \in EntryRecord /\ line.outcome = "OPEN" /\ line.link[y] = a /\ line.deduction[y] = r
    BY <1>5, <1>6, <2>1, <2>3
  <2>8. /\ new \in EntryRecord /\ new.outcome = line.outcome /\ new.link[y] = a /\ new.deduction[y] = d
        /\ new.of = line.of
        /\ \A x \in Types : x # y => new.link[x] = line.link[x] /\ new.deduction[x] = line.deduction[x]
    BY <1>5, <2>3, <2>5, <2>6, <2>7, CarryingLine
  <2>9. entry' = [entry EXCEPT ![slot[1]][slot[2]] = new] /\ txn' = Bumped({slot}, Ended(t))
    <3>1. Reversal(t) > 0
      BY <1>1, <1>14
    <3> QED
      BY <1>1, <1>2, <2>3, <3>1 DEF CommitEdit, At
  <2>10. (n - total) - ((k - d) - o) + r - d = 0
    BY <1>5, <1>7, <1>9, <1>11, <2>5
  <2>11. (final.total - advance[a].total) - (final.outstanding - advance[a].outstanding)
            + At(slot).deduction[advance[a].type] - d = 0
    BY <1>5, <1>8, <2>1, <2>5, <2>10
  <2>12. /\ new.outcome = "OPEN" /\ new.of = At(slot).of
         /\ new.link[advance[a].type] = a /\ new.deduction[advance[a].type] = d
         /\ \A x \in Types : x # advance[a].type =>
               new.link[x] = At(slot).link[x] /\ new.deduction[x] = At(slot).deduction[x]
    BY <1>6, <2>3, <2>7, <2>8
  <2>13. /\ slot \in Slots /\ slot[2] = advance[a].employee /\ At(slot).outcome = "OPEN"
         /\ At(slot).link[advance[a].type] = a
    BY <1>5, <2>1
  <2> QED
    BY <1>4, <1>5, <1>13, <2>5, <2>6, <2>8, <2>9, <2>11, <2>12, <2>13, RepaysCollect, Zenon
<1>15. CASE ~(r > 0)
  <2>1. r = 0 /\ UNCHANGED entry /\ txn' = Ended(t) /\ final = updated
    BY <1>1, <1>3, <1>5, <1>15 DEF CommitEdit
  <2>2. final.total - final.outstanding = advance[a].total - advance[a].outstanding
    <3>1. n - k = total - o
      BY <1>7, <1>9, <1>11, <2>1
    <3> QED
      BY <1>8, <1>12, <2>1, <3>1
  <2> QED
    BY <1>4, <1>5, <1>12, <1>13, <2>1, <2>2, BalanceCollects
<1> QED
  BY <1>14, <1>15

(* A sum with one term. *)
LEMMA SumOfOne ==
  ASSUME NEW g, NEW m \in Months, \A c \in Months : g[c] \in Nat, \A c \in Months : c # m => g[c] = 0
  PROVE  SumFunctionOnSet(g, Months) = g[m]
<1>1. PICK f : f = [c \in Months |-> 0]
  OBVIOUS
<1>2. \A c \in Months : f[c] = 0
  BY <1>1
<1>3. SumFunctionOnSet(f, Months) = 0
  BY <1>2, MonthsFinite, SumOfZeros
<1>4. (\A c \in Months : f[c] \in Int) /\ (\A c \in Months : g[c] \in Int)
  BY <1>2
<1>5. \A c \in Months : c # m => g[c] = f[c]
  BY <1>2
<1> HIDE <1>1
<1>6. SumFunctionOnSet(g, Months) = SumFunctionOnSet(f, Months) - f[m] + g[m]
  BY <1>4, <1>5, MonthsFinite, SumChange
<1> QED
  BY <1>2, <1>3, <1>6

(* What is missing of an advance that only one entry collects for. *)
LEMMA FirstMissing ==
  ASSUME Typed', NEW a \in Advances, NEW m \in Months, NEW e \in Employees, NEW y \in Types,
         e = advance'[a].employee, y = advance'[a].type,
         \A c \in Months : c # m => Share(entry'[c][e], y, a) = 0
  PROVE  Missing(a)' = advance'[a].total - advance'[a].outstanding - Share(entry'[m][e], y, a)
<1>1. PICK g : g = Shares(a)'
  OBVIOUS
<1>2. \A c \in Months : g[c] = Share(entry'[c][e], y, a)
  BY <1>1 DEF Shares
<1>3. Collected(a)' = SumFunctionOnSet(g, Months)
  BY <1>1 DEF Collected, Shares, Typed
<1>4. \A c \in Months : g[c] \in Nat
  BY <1>2, ShareType DEF Typed
<1>6. SumFunctionOnSet(g, Months) = g[m]
  <2>1. \A c \in Months : c # m => g[c] = 0
    BY <1>2
  <2> HIDE <1>1, <1>2, <1>3
  <2> QED
    BY <1>4, <2>1, SumOfOne
<1> QED
  BY <1>2, <1>3, <1>6 DEF Missing

(* A recorded advance is collected by the entry it is written to, unless that is         *)
(* resolved already; the others keep their share, for the columns it takes were free.    *)
LEMMA CreateCollects ==
  ASSUME AdvancesInv, AdvancesInv', CollectInv, NEW t \in Txns, NEW a \in Advances, CommitCreate(t, a)
  PROVE  CollectInv' /\ KeepsAll
<1>1. PICK row, slot : row = txn[t].row /\ slot = txn[t].at
  OBVIOUS
<1>2. PICK now \in BOOLEAN : now = (slot # NoSlot /\ Standing(row))
  BY Zenon
<1>3. PICK final : final = IF now THEN Deducted(row, slot[1]) ELSE row
  OBVIOUS
<1>4. /\ txn[t].kind = "create" /\ txn[t].pc = "commit" /\ advance[a].status = "NONE"
      /\ slot # NoSlot => txn[t].valid
      /\ advance' = [advance EXCEPT ![a] = final] /\ OnePerType(advance')
      /\ entry' = IF now THEN [entry EXCEPT ![slot[1]][slot[2]] = Carrying(@, a, row)] ELSE entry
      /\ txn' = IF now THEN Bumped({slot}, Ended(t)) ELSE Ended(t)
      /\ cycleStatus' = cycleStatus
  BY <1>1, <1>2, <1>3, Zenon DEF CommitCreate
<1>5. /\ row \in AdvanceRecord /\ Made(row) /\ row.status = "ACTIVE" /\ row.outstanding = row.total
      /\ slot # NoSlot => slot \in Slots /\ slot[2] = row.employee
      /\ Typed /\ Typed'
  BY <1>1, <1>4, Zenon DEF AdvancesInv, Typed, Requesting, RequestOK, CreateOK
<1>6. PICK y \in Types, w \in Employees : y = row.type /\ w = row.employee
  BY <1>5 DEF Made
<1>7. row.total \in Nat
  BY <1>5 DEF AdvanceRecord
<1>8. \A c \in Months, e \in Employees, x \in Types : entry[c][e].link[x] # a /\ entry[c][e].of[x] # a
  BY <1>4 DEF AdvancesInv, RowsOK, LinksOK, Made, CollectInv, LinesOK
<1>9. \A b \in Advances : b # a => advance'[b] = advance[b]
  BY <1>4, <1>5 DEF Typed
<1>10. advance'[a] = final
  BY <1>4, <1>5 DEF Typed
<1>11. AdvancesKept
  <2>1. \A b \in Advances : Made(advance[b]) => b # a
    BY <1>4 DEF Made
  <2> QED
    BY <1>9, <2>1 DEF AdvancesKept, SameAdvance
<1>12. \A c \in Months, e \in Employees, x \in Types : Share(entry[c][e], x, a) = 0
  BY <1>8 DEF Share
<1>13. txn[t].kind # "none"
  BY <1>4
<1>14. CASE now
  <2>1. slot \in Slots /\ slot # NoSlot /\ txn[t].valid
    BY <1>2, <1>4, <1>5, <1>14
  <2>2. ReadOK(txn[t])
    BY DEF CollectInv
  <2>3. Current(slot[1]) /\ At(slot).outcome # "NONE" /\ slot[1] \in Months
    BY <1>1, <1>4, <2>1, <2>2 DEF ReadOK
  <2>4. PICK line, new : line = At(slot) /\ new = Carrying(line, a, row)
    OBVIOUS
  <2>5. line \in EntryRecord
    BY <1>5, <2>1, <2>4 DEF Typed, Slots, At
  <2>6. PICK d, month : d = Due(row) /\ month = slot[1]
    OBVIOUS
  <2>7. month \in 0 .. LastMonth /\ final = Deducted(row, month)
    BY <1>3, <1>14, <2>3, <2>6, LastMonthAssumption DEF Months
  <2>8. /\ d \in Nat /\ d <= row.outstanding
        /\ final \in AdvanceRecord /\ Open(final) /\ SameAdvance(final, row)
        /\ final.outstanding = row.outstanding - d /\ final.total = row.total
    BY <1>5, <2>6, <2>7, DeductedRow
  <2>9. /\ new \in EntryRecord /\ new.outcome = line.outcome /\ new.link[y] = a /\ new.deduction[y] = d
        /\ new.withheld = line.withheld /\ new.of = line.of
        /\ \A x \in Types : x # y => new.link[x] = line.link[x] /\ new.deduction[x] = line.deduction[x]
    BY <1>6, <2>4, <2>5, <2>6, <2>8, CarryingLine
  <2>10. entry' = [entry EXCEPT ![slot[1]][slot[2]] = new] /\ txn' = Bumped({slot}, Ended(t))
    BY <1>4, <1>14, <2>1, <2>4 DEF At
  <2>11. CollectInv'
    <3>1. new.outcome = At(slot).outcome /\ new.of = At(slot).of
      BY <2>4, <2>9
    <3> QED
      BY <1>4, <1>11, <1>13, <2>1, <2>3, <2>9, <2>10, <3>1, LineCommitted
  <2>12. PICK m \in Months, v \in Employees :
              /\ slot = <<m, v>> /\ At(slot) = entry[m][v] /\ entry'[m][v] = new
              /\ \A c \in Months, e \in Employees : ~(c = m /\ e = v) => entry'[c][e] = entry[c][e]
    BY <1>5, <2>1, <2>9, <2>10, OneSlot, Zenon
  <2>13. /\ entry[m][w] = line /\ entry'[m][w] = new
         /\ \A c \in Months, e \in Employees : ~(c = m /\ e = w) => entry'[c][e] = entry[c][e]
    <3>1. v = w
      BY <1>5, <1>6, <2>1, <2>12
    <3> QED
      BY <2>4, <2>12, <3>1
  <2>14. final.employee = w /\ final.type = y /\ Made(final)
    BY <1>5, <1>6, <2>8 DEF SameAdvance, Made, Open
  <2>15. Keeps(a)
    <3>1. \A c \in Months : c # m => Share(entry'[c][w], y, a) = 0
      BY <1>12, <2>13
    <3>2. Missing(a)' = final.total - final.outstanding - Share(new, y, a)
      <4>1. w = advance'[a].employee /\ y = advance'[a].type
        BY <1>10, <2>14
      <4>2. Missing(a)' = advance'[a].total - advance'[a].outstanding - Share(entry'[m][w], y, a)
        BY <1>5, <3>1, <4>1, FirstMissing
      <4> QED
        BY <1>10, <2>13, <4>2
    <3>3. CASE line.outcome \in Resolutions
      <4>1. Share(new, y, a) = 0
        <5>1. new.outcome \in Resolutions /\ new.of[y] # a
          BY <1>8, <2>9, <2>13, <3>3
        <5> QED
          BY <5>1 DEF Share
      <4>2. Missing(a)' = d
        <5>1. PICK k : k = row.total
          OBVIOUS
        <5>2. Missing(a)' = k - (k - d) - 0
          BY <1>5, <2>8, <3>2, <4>1, <5>1
        <5> QED
          BY <1>7, <2>8, <5>1, <5>2
      <4>3. Missing(a)' = entry'[m][w].deduction[y] /\ entry'[m][w].link[y] = a /\ m \in DOMAIN entry
        BY <1>5, <2>9, <2>13, <4>2 DEF Typed
      <4> QED
        BY <1>4, <2>13, <3>3, <4>3 DEF Keeps
    <3>4. CASE line.outcome \notin Resolutions
      <4>1. Share(new, y, a) = d
        <5>1. new.outcome \notin Resolutions
          BY <2>9, <3>4
        <5> QED
          BY <2>9, <5>1 DEF Share
      <4>2. Missing(a)' = 0
        <5>1. PICK k : k = row.total
          OBVIOUS
        <5>2. Missing(a)' = k - (k - d) - d
          BY <1>5, <2>8, <3>2, <4>1, <5>1
        <5> QED
          BY <1>7, <2>8, <5>1, <5>2
      <4> QED
        BY <1>4, <4>2 DEF Keeps
    <3> QED
      BY <3>3, <3>4
  <2>16. ASSUME NEW b \in Advances, b # a, advance'[b].status # "NONE"  PROVE Keeps(b)
    <3>1. Made(advance[b]) /\ advance'[b] = advance[b]
      BY <1>9, <2>16 DEF AdvancesInv, RowsOK, BalancesOK
    <3>2. ASSUME line.outcome \notin Resolutions, line.link[y] = b  PROVE line.deduction[y] = 0
      <4>1. line.outcome = "OPEN"
        BY <2>3, <2>4, <2>5, <3>2 DEF EntryRecord
      <4>2. Current(m) /\ advance[b].employee = w /\ advance[b].type = y
        BY <2>3, <2>12, <2>13, <3>2 DEF AdvancesInv, RowsOK, LinksOK
      <4>3. line.deduction[y] > 0 => Open(advance[b])
        BY <2>13, <3>2, <4>1, <4>2 DEF AdvancesInv, RowsOK, LinksOK
      <4>4. ~Open(advance[b])
        BY <1>4, <1>10, <2>8, <2>14, <2>16, <3>1, <4>2 DEF OnePerType
      <4>5. line.deduction[y] \in Nat
        BY <2>5 DEF EntryRecord
      <4> QED
        BY <4>3, <4>4, <4>5
    <3>3. ASSUME NEW x \in Types  PROVE Share(new, x, b) = Share(line, x, b)
      <4>1. CASE line.outcome \in Resolutions
        BY <2>9, <4>1 DEF Share
      <4>2. CASE line.outcome \notin Resolutions /\ x # y
        BY <2>9, <4>2 DEF Share
      <4>3. CASE line.outcome \notin Resolutions /\ x = y
        <5>1. Share(new, x, b) = 0
          BY <2>9, <2>16, <4>3 DEF Share
        <5>2. Share(line, x, b) = 0
          BY <3>2, <4>3 DEF Share
        <5> QED
          BY <5>1, <5>2
      <4> QED
        BY <4>1, <4>2, <4>3
    <3>4. ASSUME NEW c \in Months, NEW e \in Employees, NEW x \in Types
          PROVE  Share(entry'[c][e], x, b) = Share(entry[c][e], x, b)
      <4>1. CASE c = m /\ e = w
        BY <2>13, <3>3, <4>1
      <4>2. CASE ~(c = m /\ e = w)
        BY <2>13, <4>2
      <4> QED
        BY <4>1, <4>2
    <3>5. Missing(b)' = Missing(b)
      BY <1>5, <3>1, <3>4, MissingKept DEF SameAdvance, Made
    <3> QED
      BY <3>1, <3>5 DEF Keeps, Made
  <2> QED
    BY <2>11, <2>15, <2>16 DEF KeepsAll
<1>15. CASE ~now
  <2>1. final = row /\ UNCHANGED entry /\ txn' = Ended(t)
    BY <1>3, <1>4, <1>15
  <2>2. CollectInv'
    <3>1. LinesOK'
      BY <1>11, <2>1, LinesWritten
    <3>2. \A u \in Txns : Held(txn'[u], txn[u]) \/ txn'[u].kind = "none"
      BY <1>13, <2>1, EndedRequests
    <3>3. \A c \in Months : Current(c) => Current(c)'
      BY <1>4 DEF Current
    <3> QED
      BY <1>11, <2>1, <3>1, <3>2, <3>3, ReadsKept
  <2>3. Keeps(a)
    <3>1. 1 \in Months
      BY LastMonthAssumption DEF Months
    <3>2. Share(entry'[1][w], y, a) = 0 /\ \A c \in Months : c # 1 => Share(entry'[c][w], y, a) = 0
      BY <1>12, <2>1, <3>1
    <3>3. w = advance'[a].employee /\ y = advance'[a].type
      BY <1>6, <1>10, <2>1
    <3>4. Missing(a)' = advance'[a].total - advance'[a].outstanding - Share(entry'[1][w], y, a)
      BY <1>5, <3>1, <3>2, <3>3, FirstMissing
    <3>5. Missing(a)' = 0
      BY <1>5, <1>7, <1>10, <2>1, <3>2, <3>4
    <3> QED
      BY <1>4, <3>5 DEF Keeps
  <2>4. ASSUME NEW b \in Advances, b # a, advance'[b].status # "NONE"  PROVE Keeps(b)
    <3>1. Made(advance[b]) /\ advance'[b] = advance[b]
      BY <1>9, <2>4 DEF AdvancesInv, RowsOK, BalancesOK
    <3>2. Missing(b)' = Missing(b)
      BY <1>5, <2>1, <3>1, MissingKept DEF SameAdvance
    <3> QED
      BY <3>1, <3>2 DEF Keeps, Made
  <2> QED
    BY <2>2, <2>3, <2>4 DEF KeepsAll
<1> QED
  BY <1>14, <1>15

(* A sweep withholds what it read: what the row deducts, unless it was overtaken.        *)
LEMMA ReleaseCollects ==
  ASSUME AdvancesInv, AdvancesInv', SchedulesInv, CollectInv, NEW t \in Txns,
         NEW figure \in [Employees -> Figures], CommitRelease(t, figure)
  PROVE  CollectInv' /\ KeepsAll
<1>1. PICK c, S : c = txn[t].month /\ S = txn[t].roster
  OBVIOUS
<1>2. /\ txn[t].kind = "release" /\ txn[t].valid /\ txn' = Bumped({c} \X S, Ended(t))
      /\ cycleStatus' = cycleStatus
  BY <1>1, Zenon DEF CommitRelease
<1>3. c \in Months /\ S \subseteq Employees /\ Typed /\ Typed'
  BY <1>1, ReleaseWrites DEF AdvancesInv
<1>4. \A d \in Months, e \in Employees : (d # c \/ e \notin S) => entry'[d][e] = entry[d][e]
  BY <1>1, ReleaseWrites
<1>5. ASSUME NEW e \in S
      PROVE  LET line == entry[c][e]  new == entry'[c][e]  read == txn[t].read[e] IN
             /\ line.outcome = "OPEN" /\ new.outcome \in Resolutions
             /\ new.withheld = read.deduction /\ new.of = read.link
             /\ new.stale = {y \in Types : read.link[y] # line.link[y] \/ read.deduction[y] # line.deduction[y]}
  <2>1. entry[c][e].outcome = "OPEN"
    BY <1>1, <1>2 DEF SchedulesInv, SweepOK
  <2> QED
    BY <1>1, <2>1, ReleaseWrites
<1>6. ASSUME NEW a \in Advances
      PROVE  /\ SameAdvance(advance'[a], advance[a])
             /\ advance'[a].outstanding = advance[a].outstanding /\ advance'[a].total = advance[a].total
             /\ advance[a].status = "NONE" <=> advance'[a].status = "NONE"
  BY <1>1, ReleaseWrites
<1>7. AdvancesKept
  BY <1>6 DEF AdvancesKept, Made, SameAdvance
<1>8. LinesOK'
  <2>1. SUFFICES ASSUME NEW d \in Months, NEW e \in Employees, NEW y \in Types
        PROVE  /\ entry'[d][e].outcome = "NONE" => entry'[d][e].link[y] = None
               /\ \A a \in Advances : entry'[d][e].of[y] = a =>
                    Made(advance'[a]) /\ advance'[a].employee = e /\ advance'[a].type = y
    BY DEF LinesOK, Made
  <2>2. CASE d # c \/ e \notin S
    <3>1. entry'[d][e] = entry[d][e]
      BY <1>4, <2>2
    <3>2. /\ entry[d][e].outcome = "NONE" => entry[d][e].link[y] = None
          /\ \A a \in Advances : entry[d][e].of[y] = a =>
               Made(advance[a]) /\ advance[a].employee = e /\ advance[a].type = y
      BY DEF CollectInv, LinesOK
    <3> QED
      BY <1>7, <3>1, <3>2 DEF AdvancesKept, SameAdvance
  <2>3. CASE d = c /\ e \in S
    <3>1. entry'[d][e].outcome # "NONE" /\ entry'[d][e].of = txn[t].read[e].link
      BY <1>5, <2>3 DEF Resolutions
    <3>2. \A a \in Advances : txn[t].read[e].link[y] = a =>
             Made(advance[a]) /\ advance[a].employee = e /\ advance[a].type = y
      BY <1>2 DEF CollectInv, ReadOK
    <3> QED
      BY <1>7, <3>1, <3>2 DEF AdvancesKept, SameAdvance
  <2> QED
    BY <2>2, <2>3
<1>9. CollectInv'
  <2>1. ASSUME NEW d \in Months, NEW e \in Employees, entry[d][e].outcome # "NONE"
        PROVE  entry'[d][e].outcome # "NONE"
    <3>1. CASE d # c \/ e \notin S
      BY <1>4, <2>1, <3>1
    <3>2. CASE d = c /\ e \in S
      BY <1>5, <3>2 DEF Resolutions
    <3> QED
      BY <3>1, <3>2
  <2>2. \A u \in Txns : Held(txn'[u], txn[u]) \/ txn'[u].kind = "none"
    <3>1. txn[t].kind # "none"
      BY <1>2
    <3> QED
      BY <1>2, <3>1, EndedRequests
  <2>3. \A d \in Months : Current(d) => Current(d)'
    BY <1>2 DEF Current
  <2> QED
    BY <1>7, <1>8, <2>1, <2>2, <2>3, ReadsKept
<1>10. ASSUME NEW a \in Advances, advance'[a].status # "NONE"  PROVE Keeps(a)
  <2>1. Made(advance[a])
    BY <1>6, <1>10 DEF AdvancesInv, RowsOK, BalancesOK
  <2>2. PICK e \in Employees, y \in Types : e = advance[a].employee /\ y = advance[a].type
    BY <2>1 DEF Made
  <2>3. \A d \in Months : d # c => Share(entry'[d][e], y, a) = Share(entry[d][e], y, a)
    BY <1>4
  <2>4. CASE Share(entry'[c][e], y, a) = Share(entry[c][e], y, a)
    <3>1. \A d \in Months : Share(entry'[d][e], y, a) = Share(entry[d][e], y, a)
      BY <2>3, <2>4
    <3>2. Missing(a)' = Missing(a)
      BY <1>3, <1>6, <2>1, <2>2, <3>1, MissingKept
    <3> QED
      BY <2>1, <3>2 DEF Keeps, Made
  <2>5. CASE Share(entry'[c][e], y, a) # Share(entry[c][e], y, a)
    <3>1. e \in S
      BY <1>3, <1>4, <2>5
    <3>2. PICK line, new, read : line = entry[c][e] /\ new = entry'[c][e] /\ read = txn[t].read[e]
      OBVIOUS
    <3>3. /\ line.outcome = "OPEN" /\ new.outcome \in Resolutions
          /\ new.withheld = read.deduction /\ new.of = read.link
          /\ new.stale = {x \in Types : read.link[x] # line.link[x] \/ read.deduction[x] # line.deduction[x]}
      BY <1>5, <3>1, <3>2
    <3>4. Share(new, y, a) = IF new.of[y] = a THEN new.withheld[y] ELSE 0
      BY <3>3 DEF Share
    <3>5. Share(line, y, a) = IF line.link[y] = a THEN line.deduction[y] ELSE 0
      BY <3>3 DEF Share, Resolutions
    <3>6. y \in new.stale
      BY <2>5, <3>2, <3>3, <3>4, <3>5
    <3>7. c \in DOMAIN entry
      BY <1>3 DEF Typed
    <3>8. CASE new.of[y] = a
      BY <3>2, <3>3, <3>6, <3>7, <3>8 DEF Keeps
    <3>9. CASE new.of[y] # a
      <4>1. line.link[y] = a /\ Share(new, y, a) = 0 /\ Share(line, y, a) = line.deduction[y]
        BY <2>5, <3>2, <3>4, <3>5, <3>9
      <4>2. PICK o, n, d : o = advance[a].outstanding /\ n = advance[a].total /\ d = line.deduction[y]
        OBVIOUS
      <4>3. o \in Nat /\ n \in Nat /\ d \in Nat
        BY <1>3, <3>2, <4>2 DEF Typed, AdvanceRecord, EntryRecord
      <4>4. /\ Missing(a) \in Int
            /\ Missing(a)' = Missing(a) + (advance'[a].total - advance[a].total)
                              - (advance'[a].outstanding - advance[a].outstanding)
                              + Share(entry[c][e], y, a) - Share(entry'[c][e], y, a)
        BY <1>3, <1>6, <2>1, <2>2, <2>3, MissingChange
      <4>5. Missing(a) \in Int /\ Missing(a)' = Missing(a) + (n - n) - (o - o) + d - 0
        BY <1>6, <3>2, <4>1, <4>2, <4>4
      <4>6. Missing(a)' = Missing(a) + line.deduction[y]
        <5>1. Missing(a)' = Missing(a) + d
          BY <4>3, <4>5
        <5> QED
          BY <4>2, <5>1
      <4>7. advance[a].status # "NONE"
        BY <2>1 DEF Made
      <4> QED
        BY <3>2, <3>3, <3>6, <3>7, <3>9, <4>1, <4>6, <4>7 DEF Keeps
    <3> QED
      BY <3>8, <3>9
  <2> QED
    BY <2>4, <2>5
<1> QED
  BY <1>9, <1>10 DEF KeepsAll

(* A rollover deducts in the entries it opens what it takes off the balances.            *)
LEMMA RolloverCollects ==
  ASSUME AdvancesInv, AdvancesInv', CollectInv, NEW t \in Txns, CommitRollover(t)
  PROVE  CollectInv' /\ KeepsAll
<1>1. PICK c, d, taking : c = txn[t].month /\ d = c + 1 /\ taking = Taken(t)
  OBVIOUS
<1>2. d \in Months /\ cycleStatus[d] = "NONE" /\ Typed /\ Typed'
  BY <1>1, RolloverWrites DEF AdvancesInv
<1>3. \A a \in taking :
         /\ a \in Advances /\ Made(advance[a])
         /\ Due(advance[a]) \in Nat
         /\ Open(advance'[a]) /\ SameAdvance(advance'[a], advance[a])
         /\ advance'[a].outstanding = advance[a].outstanding - Due(advance[a])
         /\ advance'[a].total = advance[a].total
  BY <1>1, RolloverWrites
<1>4. \A a \in Advances : a \notin taking => advance'[a] = advance[a]
  BY <1>1, RolloverWrites
<1>5. \A m \in Months, e \in Employees : m # d => entry'[m][e] = entry[m][e]
  BY <1>1, RolloverWrites
<1>6. \A e \in Employees, y \in Types, a \in Advances :
         /\ entry'[d][e].link[y] = a <=> a \in taking /\ advance[a].employee = e /\ advance[a].type = y
         /\ entry'[d][e].link[y] = a => entry'[d][e].deduction[y] = Due(advance[a])
  BY <1>1, RolloverWrites
<1>7. \A e \in Employees, y \in Types :
         /\ entry'[d][e].outcome \in {"NONE", "OPEN"} /\ entry'[d][e].of[y] = None
         /\ entry'[d][e].outcome = "NONE" => entry'[d][e].link[y] = None
  BY <1>1, RolloverWrites
<1>8. \A u \in Txns : txn'[u] = Idle
  BY RolloverWrites
<1>9. AdvancesKept
  BY <1>3, <1>4 DEF AdvancesKept, SameAdvance, Made, Open
<1>10. LinesOK'
  <2>1. SUFFICES ASSUME NEW m \in Months, NEW e \in Employees, NEW y \in Types
        PROVE  /\ entry'[m][e].outcome = "NONE" => entry'[m][e].link[y] = None
               /\ \A a \in Advances : entry'[m][e].of[y] = a =>
                    Made(advance'[a]) /\ advance'[a].employee = e /\ advance'[a].type = y
    BY DEF LinesOK, Made
  <2>2. CASE m # d
    <3>1. entry'[m][e] = entry[m][e]
      BY <1>5, <2>2
    <3>2. /\ entry[m][e].outcome = "NONE" => entry[m][e].link[y] = None
          /\ \A a \in Advances : entry[m][e].of[y] = a =>
               Made(advance[a]) /\ advance[a].employee = e /\ advance[a].type = y
      BY DEF CollectInv, LinesOK
    <3> QED
      BY <1>9, <3>1, <3>2 DEF AdvancesKept, SameAdvance
  <2>3. CASE m = d
    BY <1>7, <2>3, NoneAssumption
  <2> QED
    BY <2>2, <2>3
<1>11. CollectInv'
  <2>1. \A u \in Txns : ReadOK(txn[u])'
    BY <1>8, IdleRequest DEF ReadOK
  <2> QED
    BY <1>10, <2>1 DEF CollectInv
<1>12. ASSUME NEW a \in Advances, advance'[a].status # "NONE"  PROVE Keeps(a)
  <2>1. Made(advance[a]) /\ SameAdvance(advance'[a], advance[a])
    BY <1>3, <1>4, <1>12 DEF AdvancesInv, RowsOK, BalancesOK, SameAdvance
  <2>2. PICK e \in Employees, y \in Types : e = advance[a].employee /\ y = advance[a].type
    BY <2>1 DEF Made
  <2>3. \A m \in Months : m # d => Share(entry'[m][e], y, a) = Share(entry[m][e], y, a)
    BY <1>5
  <2>4. PICK line, new : line = entry[d][e] /\ new = entry'[d][e]
    OBVIOUS
  <2>5. Share(line, y, a) = 0
    <3>1. line.outcome = "NONE" /\ line.link[y] = None
      BY <1>2, <2>4 DEF AdvancesInv, RowsOK, MonthsOK
    <3> QED
      BY <3>1, NoneAssumption DEF Share, Resolutions
  <2>6. Share(new, y, a) = IF new.link[y] = a THEN new.deduction[y] ELSE 0
    <3>1. new.outcome \in {"NONE", "OPEN"}
      BY <1>7, <2>4
    <3>2. new.outcome \notin Resolutions
      BY <3>1 DEF Resolutions
    <3> QED
      BY <3>2 DEF Share
  <2>7. CASE a \notin taking
    <3>1. Share(new, y, a) = 0
      BY <1>6, <2>4, <2>6, <2>7
    <3>2. \A m \in Months : Share(entry'[m][e], y, a) = Share(entry[m][e], y, a)
      BY <2>3, <2>4, <2>5, <3>1
    <3>3. advance'[a].outstanding = advance[a].outstanding /\ advance'[a].total = advance[a].total
      BY <1>4, <2>7
    <3>4. Missing(a)' = Missing(a)
      BY <1>2, <2>1, <2>2, <3>2, <3>3, MissingKept
    <3> QED
      BY <2>1, <3>4 DEF Keeps, Made
  <2>8. CASE a \in taking
    <3>1. PICK o, n, r : o = advance[a].outstanding /\ n = advance[a].total /\ r = Due(advance[a])
      OBVIOUS
    <3>2. o \in Nat /\ n \in Nat /\ r \in Nat
      BY <1>2, <1>3, <2>8, <3>1 DEF Typed, AdvanceRecord
    <3>3. Share(new, y, a) = r
      BY <1>6, <2>2, <2>4, <2>6, <2>8, <3>1
    <3>4. /\ Missing(a) \in Int
          /\ Missing(a)' = Missing(a) + (advance'[a].total - advance[a].total)
                            - (advance'[a].outstanding - advance[a].outstanding)
                            + Share(entry[d][e], y, a) - Share(entry'[d][e], y, a)
      BY <1>2, <2>1, <2>2, <2>3, MissingChange
    <3>5. Missing(a) \in Int /\ Missing(a)' = Missing(a) + (n - n) - ((o - r) - o) + 0 - r
      BY <1>3, <2>4, <2>5, <2>8, <3>1, <3>3, <3>4
    <3>6. Missing(a)' = Missing(a)
      BY <3>2, <3>5
    <3> QED
      BY <2>1, <3>6 DEF Keeps, Made
  <2> QED
    BY <2>7, <2>8
<1> QED
  BY <1>11, <1>12 DEF KeepsAll

LEMMA CollectInvInit == Init => CollectInv
<1> SUFFICES ASSUME Init  PROVE CollectInv
  OBVIOUS
<1>1. /\ entry = [c \in Months |-> [e \in Employees |-> IF c = 1 THEN FreshEntry ELSE NoEntry]]
      /\ txn = [t \in Txns |-> Idle]
  BY DEF Init
<1>2. /\ NoEntry.outcome = "NONE" /\ FreshEntry.outcome = "OPEN"
      /\ \A y \in Types : /\ NoEntry.link[y] = None /\ FreshEntry.link[y] = None
                          /\ NoEntry.of[y] = None /\ FreshEntry.of[y] = None
  BY EmptyRows
<1>3. \A c \in Months, e \in Employees : entry[c][e] = FreshEntry \/ entry[c][e] = NoEntry
  BY <1>1
<1>4. LinesOK
  BY <1>2, <1>3, NoneAssumption DEF LinesOK
<1>5. \A t \in Txns : ReadOK(txn[t])
  BY <1>1, IdleRequest DEF ReadOK
<1> QED
  BY <1>4, <1>5 DEF CollectInv

(* Every step keeps what is collected, but for the exceptions.                           *)
LEMMA CollectNext ==
  ASSUME AdvancesInv, AdvancesInv', SchedulesInv, CollectInv, [Next]_vars
  PROVE  CollectInv' /\ KeepsAll
<1>1. CASE UNCHANGED vars
  BY <1>1, FinalizeCollects
<1>2. CASE Office
  <2>1. ASSUME NEW m \in Months, Finalize(m)  PROVE CollectInv' /\ KeepsAll
    BY <2>1, FinalizeCollects
  <2>2. ASSUME NEW slot \in Slots,
               \/ ToggleHold(slot) \/ DeleteEntry(slot)
               \/ \E y \in Types, amount \in ManualAmounts : TypeDeduction(slot, y, amount)
        PROVE  CollectInv' /\ KeepsAll
    BY <2>2, OfficeCollects
  <2>3. ASSUME NEW e \in Employees, Leave(e) \/ Return(e)  PROVE CollectInv' /\ KeepsAll
    BY <2>3, LeaveCollects, ReturnCollects
  <2> QED
    BY <1>2, <2>1, <2>2, <2>3 DEF Office
<1>3. ASSUME NEW t \in Txns, Step(t)  PROVE CollectInv' /\ KeepsAll
  <2>1. CASE \/ \E e, y, terms, p : RequestCreate(t, e, y, terms, p)
             \/ ReadTarget(t)
             \/ \E kind \in Guarded : \E a, amount, month : RequestChange(t, kind, a, amount, month)
             \/ ReadLiveEntry(t) \/ \E slot : ReadCarrier(t, slot)
             \/ \E c \in Months, chosen \in SUBSET Employees : RequestRelease(t, c, chosen)
             \/ \E c \in Months : RequestRollover(t, c)
             \/ ArchiveAndFindDue(t) \/ Abort(t)
    BY <2>1, RequestsCollect
  <2>2. CASE \/ \E a \in Advances : CommitCreate(t, a)
             \/ CommitEdit(t) \/ CommitCancel(t) \/ CommitDefer(t)
    BY <2>2, CreateCollects, EditCollects, CancelCollects, DeferCollects
  <2>3. CASE \E figure \in [Employees -> Figures] : CommitRelease(t, figure)
    BY <2>3, ReleaseCollects
  <2>4. CASE CommitRollover(t)
    BY <2>4, RolloverCollects
  <2>5. "edit" \in Guarded /\ "cancel" \in Guarded /\ "defer" \in Guarded
    BY DEF Guarded
  <2> QED
    BY <1>3, <2>1, <2>2, <2>3, <2>4, <2>5 DEF Step
<1> QED
  BY <1>1, <1>2, <1>3 DEF Next

(* What a release withheld, and for whom, is never written again.                        *)
ResolvedStays ==
    \A c \in Months, e \in Employees : entry[c][e].outcome \in Resolutions =>
        /\ entry'[c][e].outcome \in Resolutions
        /\ entry'[c][e].of = entry[c][e].of /\ entry'[c][e].stale = entry[c][e].stale

LEMMA OneStays ==
  ASSUME Typed, NEW slot \in Slots, NEW new, entry' = [entry EXCEPT ![slot[1]][slot[2]] = new],
         \/ At(slot).outcome \notin Resolutions
         \/ new.outcome = At(slot).outcome /\ new.of = At(slot).of /\ new.stale = At(slot).stale
  PROVE  ResolvedStays
<1>1. PICK m \in Months, x \in Employees : slot = <<m, x>> /\ At(slot) = entry[m][x]
  BY DEF Slots, At
<1>2. \A c \in Months, e \in Employees : entry'[c][e] = IF c = m /\ e = x THEN new ELSE entry[c][e]
  BY <1>1 DEF Typed
<1> QED
  BY <1>1, <1>2 DEF ResolvedStays

LEMMA StaysNext ==
  ASSUME AdvancesInv, SchedulesInv, [Next]_vars
  PROVE  ResolvedStays
<1>1. Typed /\ "OPEN" \notin Resolutions /\ "NONE" \notin Resolutions
  BY DEF AdvancesInv, Resolutions
<1>2. CASE UNCHANGED entry
  BY <1>2 DEF ResolvedStays
<1>3. CASE Office
  <2>1. ASSUME NEW m \in Months, Finalize(m)  PROVE ResolvedStays
    BY <1>2, <2>1 DEF Finalize
  <2>2. ASSUME NEW slot \in Slots,
               \/ ToggleHold(slot) \/ DeleteEntry(slot)
               \/ \E y \in Types, amount \in ManualAmounts : TypeDeduction(slot, y, amount)
        PROVE  ResolvedStays
    <3>1. At(slot).outcome = "OPEN"
      BY <2>2 DEF ToggleHold, DeleteEntry, TypeDeduction, Editable
    <3>2. \E new : entry' = [entry EXCEPT ![slot[1]][slot[2]] = new]
      <4>1. CASE ToggleHold(slot)
        BY <4>1 DEF ToggleHold
      <4>2. CASE DeleteEntry(slot)
        BY <4>2 DEF DeleteEntry
      <4>3. CASE \E y \in Types, amount \in ManualAmounts : TypeDeduction(slot, y, amount)
        BY <4>3 DEF TypeDeduction
      <4> QED
        BY <2>2, <4>1, <4>2, <4>3
    <3> QED
      BY <1>1, <3>1, <3>2, OneStays, Zenon
  <2>3. ASSUME NEW w \in Employees, Leave(w)  PROVE ResolvedStays
    <3>1. PICK gone :
            /\ \A c \in Months, x \in Employees : <<c, x>> \notin gone => SameLine(entry'[c][x], entry[c][x])
            /\ \A s \in gone : s \in Slots /\ At(s).outcome = "OPEN"
      BY <2>3, Departed
    <3>2. \A c \in Months, x \in Employees : entry[c][x].outcome \in Resolutions => <<c, x>> \notin gone
      BY <1>1, <3>1 DEF At
    <3> QED
      BY <3>1, <3>2 DEF ResolvedStays, SameLine
  <2>4. ASSUME NEW w \in Employees, Return(w)  PROVE ResolvedStays
    <3>1. \A c \in Months, x \in Employees : entry[c][x].outcome # "NONE" => entry'[c][x] = entry[c][x]
      BY <2>4 DEF Return
    <3> QED
      BY <1>1, <3>1 DEF ResolvedStays
  <2> QED
    BY <1>3, <2>1, <2>2, <2>3, <2>4 DEF Office
<1>4. ASSUME NEW t \in Txns, NEW a \in Advances, CommitCreate(t, a)  PROVE ResolvedStays
  <2>1. PICK slot, row : slot = txn[t].at /\ row = txn[t].row
    OBVIOUS
  <2>2. \/ UNCHANGED entry
        \/ slot # NoSlot /\ entry' = [entry EXCEPT ![slot[1]][slot[2]] = Carrying(@, a, row)]
    BY <1>4, <2>1 DEF CommitCreate
  <2>3. slot # NoSlot => slot \in Slots
    BY <1>4, <2>1 DEF CommitCreate, AdvancesInv, RequestOK, CreateOK
  <2>4. ASSUME slot # NoSlot, entry' = [entry EXCEPT ![slot[1]][slot[2]] = Carrying(@, a, row)]
        PROVE  ResolvedStays
    <3>1. PICK line, new : line = At(slot) /\ new = Carrying(line, a, row)
      OBVIOUS
    <3>2. entry' = [entry EXCEPT ![slot[1]][slot[2]] = new]
      BY <2>4, <3>1 DEF At
    <3>3. line \in EntryRecord
      BY <1>1, <2>3, <2>4, <3>1 DEF Typed, Slots, At
    <3>4. PICK link, deduction : new = [line EXCEPT !.link = link, !.deduction = deduction]
      BY <3>1 DEF Carrying
    <3>5. new.outcome = line.outcome /\ new.of = line.of /\ new.stale = line.stale
      BY <3>3, <3>4 DEF EntryRecord
    <3> QED
      BY <1>1, <2>3, <2>4, <3>1, <3>2, <3>5, OneStays
  <2> QED
    BY <1>2, <2>2, <2>4
<1>5. ASSUME NEW t \in Txns, CommitEdit(t) \/ CommitCancel(t)  PROVE ResolvedStays
  <2>1. PICK slot, q : slot = txn[t].at /\ q = txn[t]
    OBVIOUS
  <2>2. \/ UNCHANGED entry
        \/ Reversal(t) > 0 /\ \E new : entry' = [entry EXCEPT ![slot[1]][slot[2]] = new]
    BY <1>5, <2>1 DEF CommitEdit, CommitCancel
  <2>3. /\ q.kind \in Guarded /\ q.pc = "commit" /\ SameStatusAndBalance(t)
        /\ Reversal(t) > 0 => q.valid
    BY <1>5, <2>1 DEF CommitEdit, CommitCancel, Guarded, EntryUnchanged
  <2>4. ASSUME Reversal(t) > 0  PROVE slot \in Slots /\ At(slot).outcome = "OPEN"
    BY <2>1, <2>3, <2>4, Reversed
  <2> QED
    BY <1>1, <1>2, <2>2, <2>4, OneStays, Zenon
<1>6. ASSUME NEW t \in Txns, CommitDefer(t)  PROVE ResolvedStays
  <2>1. PICK slot : slot = txn[t].at
    OBVIOUS
  <2>2. slot \in Slots /\ At(slot).outcome = "OPEN"
    BY <1>6, <2>1, Deferred
  <2>3. \E new : entry' = [entry EXCEPT ![slot[1]][slot[2]] = new]
    BY <1>6, <2>1, Zenon DEF CommitDefer
  <2> QED
    BY <1>1, <2>2, <2>3, OneStays
<1>7. ASSUME NEW t \in Txns, NEW figure \in [Employees -> Figures], CommitRelease(t, figure)  PROVE ResolvedStays
  <2>1. PICK c, S : c = txn[t].month /\ S = txn[t].roster
    OBVIOUS
  <2>2. \A m \in Months, e \in Employees : m # c \/ e \notin S => entry'[m][e] = entry[m][e]
    BY <1>7, <2>1, ReleaseWrites
  <2>3. \A e \in S : entry[c][e].outcome = "OPEN"
    BY <1>7, <2>1, Zenon DEF CommitRelease, SchedulesInv, SweepOK
  <2> QED
    BY <1>1, <2>2, <2>3 DEF ResolvedStays
<1>8. ASSUME NEW t \in Txns, CommitRollover(t)  PROVE ResolvedStays
  <2>1. PICK d : d = txn[t].month + 1
    OBVIOUS
  <2>2. \A m \in Months, e \in Employees : m # d => entry'[m][e] = entry[m][e]
    BY <1>8, <2>1, RolloverWrites
  <2>3. \A e \in Employees : entry[d][e].outcome = "NONE"
    BY <1>8, <2>1, RolloverWrites DEF AdvancesInv, RowsOK, MonthsOK
  <2> QED
    BY <1>1, <2>2, <2>3 DEF ResolvedStays
<1>9. ASSUME NEW t \in Txns, Step(t)  PROVE ResolvedStays
  BY <1>2, <1>4, <1>5, <1>6, <1>7, <1>8, <1>9, Zenon
     DEF Step, RequestCreate, ReadTarget, RequestChange, ReadLiveEntry, ReadCarrier, RequestRelease,
         RequestRollover, ArchiveAndFindDue, Abort
<1> QED
  BY <1>2, <1>3, <1>9 DEF Next, vars

(* So nothing is collected twice, but for what a sweep was overtaken in.                 *)
BooksOK == \A a \in Advances : Made(advance[a]) => Overtaken(a) \/ (Missing(a) \in Int /\ Missing(a) >= 0)

LEMMA BooksNext ==
  ASSUME AdvancesInv, AdvancesInv', BooksOK, KeepsAll, ResolvedStays
  PROVE  BooksOK'
<1>1. SUFFICES ASSUME NEW a \in Advances, advance'[a].status # "NONE"
      PROVE  Overtaken(a)' \/ (Missing(a)' \in Int /\ Missing(a)' >= 0)
  BY DEF BooksOK, Made
<1>2. Keeps(a)
  BY <1>1 DEF KeepsAll
<1>3. DOMAIN entry = Months /\ DOMAIN entry' = Months
  BY DEF AdvancesInv, Typed
<1>4. \A c \in Months, e \in Employees, y \in Types :
         entry[c][e].deduction[y] \in Nat /\ entry'[c][e].deduction[y] \in Nat
  BY DEF AdvancesInv, Typed, EntryRecord
<1>5. Overtaken(a) => Overtaken(a)'
  BY <1>3 DEF Overtaken, ResolvedStays
<1>6. advance[a].status # "NONE" => Overtaken(a) \/ (Missing(a) \in Int /\ Missing(a) >= 0)
  BY DEF BooksOK, AdvancesInv, RowsOK, BalancesOK
<1>7. CASE Missing(a)' = IF advance[a].status = "NONE" THEN 0 ELSE Missing(a)
  BY <1>5, <1>6, <1>7
<1>8. ASSUME NEW c \in Months, NEW e \in Employees, NEW y \in Types,
             advance[a].status # "NONE", Missing(a)' = Missing(a) + entry[c][e].deduction[y]
      PROVE  Overtaken(a)' \/ (Missing(a)' \in Int /\ Missing(a)' >= 0)
  <2>1. PICK d \in Nat : d = entry[c][e].deduction[y]
    BY <1>4
  <2>2. PICK p, q : p = Missing(a) /\ q = Missing(a)'
    OBVIOUS
  <2>3. q = p + d
    BY <1>8, <2>1, <2>2
  <2>4. p \in Int /\ p >= 0 => q \in Int /\ q >= 0
    <3> HIDE <2>2
    <3> QED
      BY <2>3
  <2> QED
    BY <1>5, <1>6, <1>8, <2>2, <2>4
<1>9. ASSUME NEW c \in Months, NEW e \in Employees, NEW y \in Types,
             entry'[c][e].outcome \in Resolutions, y \in entry'[c][e].stale, entry'[c][e].of[y] = a
      PROVE  Overtaken(a)'
  BY <1>3, <1>9 DEF Overtaken
<1>10. ASSUME NEW c \in Months, NEW e \in Employees, NEW y \in Types, Missing(a)' = entry'[c][e].deduction[y]
       PROVE  Missing(a)' \in Int /\ Missing(a)' >= 0
  BY <1>4, <1>10
<1>11. CASE \E c \in Months, e \in Employees, y \in Types :
              \/ advance[a].status # "NONE" /\ Missing(a)' = Missing(a) + entry[c][e].deduction[y]
              \/ entry'[c][e].outcome \in Resolutions /\ y \in entry'[c][e].stale /\ entry'[c][e].of[y] = a
              \/ Missing(a)' = entry'[c][e].deduction[y]
  BY <1>8, <1>9, <1>10, <1>11
<1> QED
  BY <1>2, <1>3, <1>7, <1>11 DEF Keeps

(* All of it always holds.                                                               *)
LEMMA CollectAlways ==
  ASSUME "rollover" \in Alone
  PROVE  Spec => [](AdvancesInv /\ SchedulesInv /\ CollectInv /\ BooksOK)
<1>1. "rollover" \in Alone
  OBVIOUS
<1>2. Init => BooksOK
  <2>1. Init => \A a \in Advances : advance[a].status = "NONE"
    BY DEF Init, NoAdvance
  <2> QED
    BY <2>1 DEF BooksOK, Made
<1>3. AdvancesInv /\ SchedulesInv /\ CollectInv /\ BooksOK /\ [Next]_vars => (CollectInv /\ BooksOK)'
  BY <1>1, AdvancesInvNext, CollectNext, StaysNext, BooksNext
<1> QED
  BY <1>2, <1>3, CollectInvInit, SchedulesInvAlways, PTL DEF Spec

(* The invariants say what CollectedOnce says.                                           *)
LEMMA InvariantCollects ==
  ASSUME AdvancesInv, BooksOK
  PROVE  CollectedOnce
<1>1. ASSUME NEW s \in Slots, NEW y \in Types, NEW a \in Advances, At(s).link[y] = a
      PROVE  /\ advance[a].employee = s[2] /\ advance[a].type = y
             /\ Editable(s) /\ At(s).deduction[y] > 0 => Open(advance[a])
  <2>1. PICK c \in Months, e \in Employees : s = <<c, e>> /\ At(s) = entry[c][e]
    BY DEF Slots, At
  <2>2. /\ advance[a].employee = e /\ advance[a].type = y
        /\ entry[c][e].outcome = "OPEN" /\ Current(c) /\ entry[c][e].deduction[y] > 0 => Open(advance[a])
    BY <1>1, <2>1 DEF AdvancesInv, RowsOK, LinksOK
  <2>3. Editable(s) => Current(c) /\ entry[c][e].outcome = "OPEN"
    BY <2>1 DEF Editable, AdvancesInv, Typed, RowsOK, MonthsOK, Current
  <2> QED
    BY <2>1, <2>2, <2>3
<1>2. ASSUME NEW a \in Advances, advance[a].status # "NONE"
      PROVE  /\ 0 <= advance[a].outstanding
             /\ advance[a].outstanding + CarriedAmount(a) <= advance[a].total
             /\ Overtaken(a) \/ advance[a].outstanding + Collected(a) <= advance[a].total
  <2>1. DOMAIN entry = Months
    BY DEF AdvancesInv, Typed
  <2>2. CarriedAmount(a) = SumFunctionOnSet(Deductions(a), Months)
    BY <2>1 DEF CarriedAmount, Deductions
  <2>3. PICK o, n : o = advance[a].outstanding /\ n = advance[a].total
    OBVIOUS
  <2>4. o \in Nat /\ n \in Nat
    BY <2>3 DEF AdvancesInv, Typed, AdvanceRecord
  <2>5. Made(advance[a]) /\ o + CarriedAmount(a) <= n
    BY <1>2, <2>2, <2>3 DEF AdvancesInv, RowsOK, BalancesOK
  <2>6. Collected(a) \in Nat
    <3>1. PICK f : f = Shares(a)
      OBVIOUS
    <3>2. Collected(a) = SumFunctionOnSet(f, Months)
      BY <2>1, <3>1 DEF Collected, Shares
    <3>3. \A c \in Months : f[c] \in Nat
      BY <2>5, <3>1, ShareType DEF Shares, AdvancesInv, Typed, Made
    <3>4. SumFunctionOnSet(f, Months) \in Nat
      BY <3>3, MonthsFinite, SumOfNaturals
    <3> QED
      BY <3>2, <3>4
  <2>7. Overtaken(a) \/ o + Collected(a) <= n
    <3>1. PICK s : s = Collected(a)
      OBVIOUS
    <3>2. ASSUME ~Overtaken(a)  PROVE n - o - s >= 0
      BY <2>3, <2>5, <3>1, <3>2 DEF BooksOK, Missing
    <3>3. n - o - s >= 0 => o + s <= n
      BY <2>4, <2>6, <3>1
    <3> QED
      BY <3>1, <3>2, <3>3
  <2> QED
    BY <2>3, <2>4, <2>5, <2>7
<1>3. OnePerType(advance)
  BY DEF AdvancesInv, RowsOK, BalancesOK
<1>4. NoDanglingDeduction
  BY <1>1 DEF NoDanglingDeduction
<1>5. DOMAIN advance = Advances
  BY DEF AdvancesInv, Typed
<1> QED
  BY <1>1, <1>2, <1>3, <1>4, <1>5 DEF CollectedOnce

(* Nothing lent is collected twice, whatever creations, edits, cancellations, deferrals, *)
(* sweeps, deletions and departures overlap: what an advance still owes, what releases   *)
(* withheld for it (as their snapshots have it) and what its open entries are to         *)
(* withhold never exceed its total, but where a cancellation, an edit or a deferral came *)
(* between the read and the write of a sweep. An entry carries an advance of its         *)
(* employee in the columns of its type, nobody has two open advances of a type, and no   *)
(* editable entry deducts for a settled one. A rollover is taken to overlap no other     *)
(* request, because it writes each advance from a row it read before ("rollover" \in     *)
(* Alone).                                                                               *)
THEOREM NothingCollectedTwice ==
  ASSUME "rollover" \in Alone
  PROVE  Spec => []CollectedOnce
<1>1. AdvancesInv /\ BooksOK => CollectedOnce
  BY InvariantCollects
<1> QED
  BY <1>1, CollectAlways, PTL

-----------------------------------------------------------------------------
(* What the two invariants say of the steps. *)

(* No commit but a sweep's pays an advance off. *)
NonePaidOff == \A a \in Advances : advance'[a].status = "PAID_OFF" => advance[a].status = "PAID_OFF"

LEMMA OneNotPaidOff ==
  ASSUME AdvancesInv, NEW a \in Advances, NEW new, advance' = [advance EXCEPT ![a] = new], new.status # "PAID_OFF"
  PROVE  NonePaidOff
  BY DEF NonePaidOff, AdvancesInv, Typed

LEMMA CreatedNotPaidOff ==
  ASSUME AdvancesInv, NEW t \in Txns, NEW a \in Advances, CommitCreate(t, a)
  PROVE  NonePaidOff
<1>1. PICK row : row = txn[t].row
  OBVIOUS
<1>2. row \in AdvanceRecord /\ row.status = "ACTIVE"
  BY <1>1 DEF CommitCreate, AdvancesInv, RequestOK, CreateOK, Typed, Requesting
<1>3. "status" \in DOMAIN row /\ "period" \in DOMAIN row
  BY <1>2 DEF AdvanceRecord
<1>4. PICK new : advance' = [advance EXCEPT ![a] = new] /\ (new = row \/ \E c : new = Deducted(row, c))
  BY <1>1 DEF CommitCreate
<1>5. new.status # "PAID_OFF"
  BY <1>2, <1>3, <1>4, DeductedStatus
<1> QED
  BY <1>4, <1>5, OneNotPaidOff

LEMMA EditedNotPaidOff ==
  ASSUME AdvancesInv, NEW t \in Txns, CommitEdit(t)
  PROVE  NonePaidOff
<1>1. PICK a, n : a = txn[t].id /\ n = txn[t].amount
  OBVIOUS
<1>2. PICK updated : updated = [advance[a] EXCEPT !.total = n, !.outstanding = n - (txn[t].row.total - Restored(t))]
  OBVIOUS
<1>3. PICK new : advance' = [advance EXCEPT ![a] = new] /\ (new = updated \/ \E c : new = Deducted(updated, c))
  BY <1>1, <1>2 DEF CommitEdit
<1>4. txn[t].kind = "edit" /\ txn[t].pc = "commit" /\ SameStatusAndBalance(t)
  BY DEF CommitEdit
<1>5. a \in Advances /\ Open(advance[a]) /\ advance[a] \in AdvanceRecord
  BY <1>1, <1>4, Reversed DEF Guarded, AdvancesInv, Typed
<1>6. updated.status = advance[a].status /\ "status" \in DOMAIN updated /\ "period" \in DOMAIN updated
  BY <1>2, <1>5 DEF AdvanceRecord
<1>7. new.status # "PAID_OFF"
  BY <1>3, <1>5, <1>6, DeductedStatus DEF Open
<1> QED
  BY <1>3, <1>5, <1>7, OneNotPaidOff

LEMMA ChangedNotPaidOff ==
  ASSUME AdvancesInv, NEW t \in Txns, CommitCancel(t) \/ CommitDefer(t)
  PROVE  NonePaidOff
<1>1. PICK a : a = txn[t].id
  OBVIOUS
<1>2. a \in Advances
  BY <1>1, Reversed, Deferred, Zenon DEF CommitCancel, Guarded
<1>3. advance[a] \in AdvanceRecord
  BY <1>2 DEF AdvancesInv, Typed
<1>4. PICK status \in {"CANCELLED", "ACTIVE"} :
         \E p : advance' = [advance EXCEPT ![a] = [advance[a] EXCEPT !.status = status, !.outstanding = Restored(t), !.period = p]]
  <2>1. CASE CommitCancel(t)
    BY <1>1, <2>1, Zenon DEF CommitCancel
  <2>2. CASE CommitDefer(t)
    BY <1>1, <2>2, Zenon DEF CommitDefer
  <2> QED
    BY <2>1, <2>2, Zenon
<1>p. PICK p : advance' = [advance EXCEPT ![a] = [advance[a] EXCEPT !.status = status, !.outstanding = Restored(t), !.period = p]]
  BY <1>4
<1>5. PICK new : new = [advance[a] EXCEPT !.status = status, !.outstanding = Restored(t), !.period = p]
  OBVIOUS
<1>6. new.status # "PAID_OFF"
  BY <1>3, <1>5 DEF AdvanceRecord
<1> QED
  BY <1>2, <1>p, <1>5, <1>6, OneNotPaidOff

(* The sweep that pays an advance off resolves an open entry that carries it: the ones   *)
(* it chose are open still, when its validity says that none was deleted.                *)
LEMMA PayOffNext ==
  ASSUME AdvancesInv, SchedulesInv, [Next]_vars
  PROVE  PayOffStep
<1>1. ASSUME NonePaidOff  PROVE PayOffStep
  BY <1>1 DEF NonePaidOff, PayOffStep
<1>2. CASE UNCHANGED advance
  BY <1>1, <1>2 DEF NonePaidOff
<1>3. ASSUME NEW t \in Txns, NEW figure \in [Employees -> Figures], CommitRelease(t, figure)  PROVE PayOffStep
  <2>1. PICK c, S : c = txn[t].month /\ S = txn[t].roster
    OBVIOUS
  <2>2. /\ c \in Months /\ S \subseteq Employees
        /\ \A e \in S : entry'[c][e].outcome \in Resolutions
        /\ \A a \in Advances : a \notin Settled(c, S) => advance'[a] = advance[a]
    BY <1>3, <2>1, ReleaseWrites
  <2>3. \A e \in S : entry[c][e].outcome = "OPEN"
    BY <1>3, <2>1 DEF CommitRelease, SchedulesInv, SweepOK
  <2>4. SUFFICES ASSUME NEW a \in Advances, advance[a].status # "PAID_OFF", advance'[a].status = "PAID_OFF"
        PROVE  \E m \in DOMAIN entry, e \in Employees, y \in Types :
                 /\ entry[m][e].outcome = "OPEN" /\ entry[m][e].link[y] = a
                 /\ entry'[m][e].outcome \in Resolutions
    BY DEF PayOffStep
  <2>5. PICK e \in S, y \in Types : entry[c][e].link[y] = a
    BY <2>2, <2>4 DEF Settled, CarriedBy
  <2>6. c \in DOMAIN entry
    BY <2>2 DEF AdvancesInv, Typed
  <2> QED
    BY <2>2, <2>3, <2>5, <2>6
<1>4. ASSUME NEW t \in Txns, CommitRollover(t)  PROVE NonePaidOff
  <2>1. ASSUME NEW a \in Advances, advance'[a] # advance[a]  PROVE advance'[a].status # "PAID_OFF"
    BY <1>4, <2>1, RolloverWrites DEF Open
  <2> QED
    BY <2>1 DEF NonePaidOff
<1>5. CASE UNCHANGED vars
  BY <1>2, <1>5 DEF vars
<1>6. CASE Office
  BY <1>2, <1>6 DEF Office, Finalize, ToggleHold, DeleteEntry, TypeDeduction, Leave, Return
<1>7. ASSUME NEW t \in Txns, Step(t)  PROVE PayOffStep
  <2>1. CASE \/ \E a \in Advances : CommitCreate(t, a)
             \/ CommitEdit(t) \/ CommitCancel(t) \/ CommitDefer(t) \/ CommitRollover(t)
    BY <1>1, <1>4, <2>1, CreatedNotPaidOff, EditedNotPaidOff, ChangedNotPaidOff
  <2>2. CASE \E figure \in [Employees -> Figures] : CommitRelease(t, figure)
    BY <1>3, <2>2
  <2> QED
    BY <1>2, <1>7, <2>1, <2>2, Zenon
       DEF Step, RequestCreate, ReadTarget, RequestChange, ReadLiveEntry, ReadCarrier, RequestRelease,
           RequestRollover, ArchiveAndFindDue, Abort
<1> QED
  BY <1>5, <1>6, <1>7 DEF Next

(* A month begins only with the commit of a rollover, which has taken every advance that *)
(* waits for it.                                                                         *)
LEMMA OpeningNext ==
  ASSUME AdvancesInv, SchedulesInv, [Next]_vars
  PROVE  OpeningStep
<1>1. CASE \A c \in Months : cycleStatus[c] = "NONE" => cycleStatus'[c] # "DRAFT"
  BY <1>1 DEF OpeningStep
<1>2. ASSUME NEW m \in Months, Finalize(m)  PROVE \A c \in Months : cycleStatus[c] = "NONE" => cycleStatus'[c] # "DRAFT"
  BY <1>2 DEF Finalize, AdvancesInv, Typed
<1>3. ASSUME NEW t \in Txns, CommitRollover(t)  PROVE OpeningStep
  <2>1. PICK d, taking : d = txn[t].month + 1 /\ taking = Taken(t)
    OBVIOUS
  <2>2. SUFFICES ASSUME NEW c \in Months, NEW a \in Advances, cycleStatus[c] = "NONE", cycleStatus'[c] = "DRAFT",
                        Awaits(a, c), Standing(advance[a])
        PROVE  At(<<c, advance[a].employee>>)'.link[advance[a].type] = a
    BY DEF OpeningStep, Awaits
  <2>3. c = d
    BY <1>3, <2>1, <2>2, RolloverWrites
  <2>4. /\ txn[t].kind = "rollover" /\ txn[t].pc = "commit"
        /\ txn[t].rows[a] = advance[a] \/ a \notin txn[t].due
    BY <1>3, <2>2, Zenon DEF CommitRollover, AdvancesInv, RequestOK, RolloverOK
  <2>5. a \in txn[t].due /\ advance[a].employee \in txn[t].roster \cup txn[t].held
    BY <2>1, <2>2, <2>3, <2>4 DEF SchedulesInv, TakingOK
  <2>6. a \in taking
    BY <2>1, <2>2, <2>4, <2>5 DEF Taken
  <2>7. /\ advance[a].employee \in Employees /\ advance[a].type \in Types
        /\ advance'[a].employee = advance[a].employee
    BY <1>3, <2>1, <2>6, RolloverWrites DEF Made, SameAdvance
  <2>8. entry'[d][advance[a].employee].link[advance[a].type] = a
    BY <1>3, <2>1, <2>6, <2>7, RolloverWrites
  <2> QED
    BY <2>3, <2>7, <2>8 DEF At
<1>4. CASE UNCHANGED cycleStatus
  BY <1>1, <1>4
<1>5. CASE UNCHANGED vars
  BY <1>4, <1>5 DEF vars
<1>6. CASE Office
  BY <1>1, <1>2, <1>4, <1>6 DEF Office, ToggleHold, DeleteEntry, TypeDeduction, Leave, Return
<1>7. ASSUME NEW t \in Txns, Step(t)  PROVE OpeningStep
  BY <1>3, <1>4, <1>7, Zenon
     DEF Step, RequestCreate, ReadTarget, CommitCreate, RequestChange, ReadLiveEntry, ReadCarrier, CommitEdit,
         CommitCancel, CommitDefer, RequestRelease, CommitRelease, RequestRollover, ArchiveAndFindDue, Abort
<1> QED
  BY <1>5, <1>6, <1>7 DEF Next

(* What is withheld settles: an advance is paid off only by the release of an open entry *)
(* that carries it, whatever was edited, deleted or rolled over since the sweep chose    *)
(* its entries; no rollover misses a deduction, the departed employees' included; and no *)
(* step takes anything off a balance, or drops a deduction, that nothing collects, but   *)
(* in the three ways KeptStep names: an open entry is deleted or resolved by a sweep     *)
(* that read it before, and loses exactly what it deducted; a sweep withholds what the   *)
(* row no longer deducts; an advance is recorded into a resolved entry. A rollover is    *)
(* taken to overlap no other request, because it writes each advance from a row it read  *)
(* before.                                                                               *)
THEOREM DeductionsAlwaysSettle ==
  ASSUME "rollover" \in Alone
  PROVE  Spec => DeductionsSettle
<1>1. ASSUME AdvancesInv, AdvancesInv', SchedulesInv, CollectInv, [Next]_vars
      PROVE  PayOffStep /\ OpeningStep /\ KeptStep
  <2>1. KeepsAll /\ Typed
    BY <1>1, CollectNext DEF AdvancesInv
  <2> QED
    BY <1>1, <2>1, PayOffNext, OpeningNext, KeptIs
<1>2. AdvancesInv /\ AdvancesInv' /\ SchedulesInv /\ CollectInv /\ [Next]_vars
         => [PayOffStep /\ OpeningStep /\ KeptStep]_vars
  BY <1>1
<1> QED
  BY <1>2, CollectAlways, PTL DEF Spec, DeductionsSettle

-----------------------------------------------------------------------------
(* What is paid is final: a fourth invariant, on top of the first two. *)

(* A creation that overlaps with nothing writes an entry that is not paid.               *)
CreateApart(t) ==
    txn[t].kind = "create" =>
        /\ \A u \in Txns \ {t} : txn[u] = Idle
        /\ txn[t].at # NoSlot => At(txn[t].at).outcome # "PAID"
CreatesApart == "create" \in Alone => \A t \in Txns : CreateApart(t)

(* No paid entry is written; no entry becomes paid.                                      *)
PaidStays == \A c \in Months, e \in Employees : entry[c][e].outcome = "PAID" => entry'[c][e] = entry[c][e]
NonePaid  == \A c \in Months, e \in Employees : entry'[c][e].outcome = "PAID" => entry[c][e].outcome = "PAID"

LEMMA OneLine ==
  ASSUME AdvancesInv, NEW slot \in Slots, NEW new, At(slot).outcome # "PAID",
         entry' = [entry EXCEPT ![slot[1]][slot[2]] = new]
  PROVE  PaidStays /\ (new.outcome # "PAID" => NonePaid)
<1>1. PICK m \in Months, x \in Employees : slot = <<m, x>> /\ At(slot) = entry[m][x]
  BY DEF Slots, At
<1>2. \A c \in Months, e \in Employees : entry'[c][e] = IF c = m /\ e = x THEN new ELSE entry[c][e]
  BY <1>1 DEF AdvancesInv, Typed
<1> QED
  BY <1>1, <1>2 DEF PaidStays, NonePaid

(* What goes on in the office leaves the requests, and touches open entries only.        *)
LEMMA OfficeLeaves ==
  ASSUME AdvancesInv, Office
  PROVE  /\ PaidStays /\ NonePaid
         /\ \A u \in Txns : Held(txn'[u], txn[u]) /\ (txn[u] = Idle => txn'[u] = Idle)
<1>1. txn \in [Txns -> Requesting] /\ \A c \in Months, e \in Employees : entry[c][e] \in EntryRecord
  BY DEF AdvancesInv, Typed
<1>2. \A u \in Txns : Held(txn[u], txn[u])
  BY DEF Held
<1>3. ASSUME NEW m \in Months, Finalize(m)  PROVE PaidStays /\ NonePaid /\ UNCHANGED txn
  BY <1>3 DEF Finalize, PaidStays, NonePaid
<1>4. ASSUME NEW slot \in Slots, ToggleHold(slot)
      PROVE  PaidStays /\ NonePaid /\ txn' = Bumped({slot}, txn)
  <2>1. PICK line, new : line = At(slot) /\ new = [line EXCEPT !.hold = ~@]
    BY Zenon
  <2>2. line \in EntryRecord /\ line.outcome = "OPEN"
    BY <1>1, <1>4, <2>1 DEF ToggleHold, Editable, Slots, At
  <2>3. new.outcome = "OPEN" /\ entry' = [entry EXCEPT ![slot[1]][slot[2]] = new]
    BY <1>4, <2>1, <2>2 DEF ToggleHold, At, EntryRecord
  <2> QED
    BY <1>4, <2>1, <2>2, <2>3, OneLine, Zenon DEF ToggleHold
<1>5. ASSUME NEW slot \in Slots, NEW y \in Types, NEW amount, TypeDeduction(slot, y, amount)
      PROVE  PaidStays /\ NonePaid /\ txn' = Bumped({slot}, txn)
  <2>1. PICK line, given : line = At(slot) /\ given = [line.deduction EXCEPT ![y] = amount]
    OBVIOUS
  <2>2. PICK new : new = [line EXCEPT !.deduction = given]
    OBVIOUS
  <2>3. line \in EntryRecord /\ line.outcome = "OPEN"
    BY <1>1, <1>5, <2>1 DEF TypeDeduction, Editable, Slots, At
  <2>4. new.outcome = "OPEN"
    BY <2>2, <2>3 DEF EntryRecord
  <2>5. entry' = [entry EXCEPT ![slot[1]][slot[2]] = new]
    BY <1>5, <2>1, <2>2 DEF TypeDeduction, At
  <2> QED
    BY <1>5, <2>1, <2>3, <2>4, <2>5, OneLine, Zenon DEF TypeDeduction
<1>6. ASSUME NEW slot \in Slots, DeleteEntry(slot)
      PROVE  PaidStays /\ NonePaid /\ txn' = Deleted(slot, txn)
  BY <1>6, EmptyRows, OneLine DEF DeleteEntry, Editable
<1>7. ASSUME NEW e \in Employees, Leave(e)
      PROVE  PaidStays /\ NonePaid
             /\ \A u \in Txns : Held(txn'[u], txn[u]) /\ (txn[u] = Idle => txn'[u] = Idle)
  <2>1. PICK gone :
          /\ \A c \in Months, x \in Employees :
               /\ <<c, x>> \in gone => entry'[c][x] = NoEntry
               /\ <<c, x>> \notin gone => SameLine(entry'[c][x], entry[c][x])
          /\ \A u \in Txns : Held(txn'[u], txn[u]) /\ (txn[u] = Idle => txn'[u] = Idle)
    BY <1>7, Departed
  <2>2. NonePaid
    BY <2>1, EmptyRows, Zenon DEF NonePaid, SameLine
  <2>3. ASSUME NEW c \in Months, NEW x \in Employees, entry[c][x].outcome = "PAID"
        PROVE  entry'[c][x] = entry[c][x]
    <3>1. PICK open : open = {<<m, e>> : m \in Drafts} \cap {s \in Slots : At(s).outcome = "OPEN"}
      OBVIOUS
    <3>2. <<c, x>> \notin open
      BY <2>3, <3>1 DEF At
    <3>3. PICK deferred : deferred = {s \in open : At(s).deferred}
      OBVIOUS
    <3>4. entry' = [m \in Months |-> [z \in Employees |->
                      CASE <<m, z>> \in deferred        -> [entry[m][z] EXCEPT !.hold = TRUE]
                        [] <<m, z>> \in open \ deferred -> NoEntry
                        [] OTHER                        -> entry[m][z]]]
      BY <1>7, <3>1, <3>3 DEF Leave
    <3> QED
      BY <3>2, <3>3, <3>4
  <2> QED
    BY <2>1, <2>2, <2>3 DEF PaidStays
<1>8. ASSUME NEW e \in Employees, Return(e)  PROVE PaidStays /\ NonePaid /\ UNCHANGED txn
  BY <1>8, EmptyRows DEF Return, PaidStays, NonePaid
<1>9. ASSUME NEW slots, txn' = Bumped(slots, txn) \/ txn' = txn
      PROVE  \A u \in Txns : Held(txn'[u], txn[u]) /\ (txn[u] = Idle => txn'[u] = Idle)
  BY <1>1, <1>2, <1>9, BumpedRequests
<1>10. ASSUME NEW slot, txn' = Deleted(slot, txn)
       PROVE  \A u \in Txns : Held(txn'[u], txn[u]) /\ (txn[u] = Idle => txn'[u] = Idle)
  BY <1>1, <1>10, DeletedRequests
<1> QED
  BY <1>3, <1>4, <1>5, <1>6, <1>7, <1>8, <1>9, <1>10 DEF Office

(* A creation that has begun is alone: only its own read goes on with it.                *)
LEMMA AloneWithCreate ==
  ASSUME "create" \in Alone, AdvancesInv, NEW t \in Txns, txn[t].kind = "create", CreateApart(t),
         NEW u \in Txns, Step(u), txn'[t].kind = "create"
  PROVE  u = t /\ ReadTarget(t)
<1>1. Idle.kind = "none" /\ txn[t] # Idle
  BY IdleRequest
<1>2. ASSUME NEW request  PROVE ~Start(u, request)
  BY <1>1 DEF Start
<1>3. txn[u].kind \in {"none", "create"} /\ (u # t => txn[u] = Idle)
  BY <1>1 DEF CreateApart
<1>4. \/ ReadTarget(u) \/ \E a \in Advances : CommitCreate(u, a)
      \/ Abort(u)
  BY <1>2, <1>3, Zenon DEF Step, RequestCreate, RequestChange, ReadLiveEntry, ReadCarrier, CommitEdit,
     CommitCancel, CommitDefer,
     RequestRelease, CommitRelease, RequestRollover, ArchiveAndFindDue, CommitRollover
<1>5. u = t
  BY <1>1, <1>3, <1>4 DEF ReadTarget, CommitCreate, Abort
<1>6. ~Abort(t)
  BY <1>1 DEF Abort, Ended, AdvancesInv, Typed
<1>7. ASSUME NEW a \in Advances, CommitCreate(t, a)  PROVE FALSE
  <2>1. PICK slots : txn' = Ended(t) \/ txn' = Bumped(slots, Ended(t))
    BY <1>7 DEF CommitCreate
  <2> QED
    BY <2>1, EndedRequests
<1> QED
  BY <1>4, <1>5, <1>6, <1>7

(* A request that is not a creation becomes one only when it begins.                     *)
LEMMA BeginsCreate ==
  ASSUME AdvancesInv, NEW t \in Txns, txn[t].kind # "create", txn'[t].kind = "create", NEW u \in Txns, Step(u)
  PROVE  u = t /\ \E e, y, terms, p : RequestCreate(t, e, y, terms, p)
<1>1. Idle.kind = "none" /\ txn \in [Txns -> Requesting]
  BY IdleRequest DEF AdvancesInv, Typed
<1>2. ASSUME NEW q, txn' = [txn EXCEPT ![u] = q], q.kind # "create"  PROVE FALSE
  BY <1>1, <1>2
<1>3. ASSUME NEW slots, txn[u].kind # "none", txn' = Ended(u) \/ txn' = Bumped(slots, Ended(u))  PROVE FALSE
  BY <1>3, EndedRequests DEF Held
<1>4. ASSUME NEW e \in Employees, NEW y \in Types, NEW terms \in Terms, NEW p \in Months, RequestCreate(u, e, y, terms, p)
      PROVE  u = t
  BY <1>1, <1>4 DEF RequestCreate, Start
<1>5. ASSUME NEW kind \in Guarded, NEW a, NEW amount, NEW month, RequestChange(u, kind, a, amount, month)
      PROVE  FALSE
  <2>1. PICK q : q = [Idle EXCEPT !.kind = kind, !.pc = "entry", !.id = a, !.row = advance[a],
                                  !.amount = amount, !.month = month]
    OBVIOUS
  <2>2. q.kind = kind
    BY <2>1, IdleRequest DEF Requesting
  <2> QED
    BY <1>2, <1>5, <2>1, <2>2 DEF RequestChange, Start, Guarded
<1>6. ASSUME ReadTarget(u) \/ ReadLiveEntry(u) \/ \E slot : ReadCarrier(u, slot)  PROVE FALSE
  <2>1. PICK p \in Requesting : p = txn[u]
    BY <1>1
  <2>2. \/ txn' = [txn EXCEPT ![u] = [p EXCEPT !.pc = "commit"]]
        \/ \E slot : txn' = [txn EXCEPT ![u] = [p EXCEPT !.pc = "commit", !.at = slot, !.valid = TRUE]]
    BY <1>6, <2>1, Zenon DEF ReadTarget, ReadLiveEntry, ReadCarrier, Becomes
  <2>3. PICK q : txn' = [txn EXCEPT ![u] = q] /\ q.kind = p.kind
    <3>1. CASE txn' = [txn EXCEPT ![u] = [p EXCEPT !.pc = "commit"]]
      <4>1. PICK q : q = [p EXCEPT !.pc = "commit"]
        OBVIOUS
      <4>2. q.kind = p.kind
        BY <2>1, <4>1 DEF Requesting
      <4> QED
        BY <3>1, <4>1, <4>2
    <3>2. ASSUME NEW slot, txn' = [txn EXCEPT ![u] = [p EXCEPT !.pc = "commit", !.at = slot, !.valid = TRUE]]
          PROVE  \E q : txn' = [txn EXCEPT ![u] = q] /\ q.kind = p.kind
      <4>1. PICK q : q = [p EXCEPT !.pc = "commit", !.at = slot, !.valid = TRUE]
        OBVIOUS
      <4>2. q.kind = p.kind
        BY <2>1, <4>1 DEF Requesting
      <4> QED
        BY <3>2, <4>1, <4>2
    <3> QED
      BY <2>2, <3>1, <3>2, Zenon
  <2>4. txn'[t].kind = txn[t].kind
    BY <1>1, <2>1, <2>3
  <2> QED
    BY <2>4
<1>7. ASSUME NEW c \in Months, NEW chosen \in SUBSET Employees, RequestRelease(u, c, chosen)  PROVE FALSE
  <2>1. PICK q : q = [Idle EXCEPT !.kind = "release", !.pc = "commit", !.month = c,
                                  !.roster = chosen, !.valid = TRUE, !.read = entry[c]]
    OBVIOUS
  <2>2. q.kind = "release"
    BY <2>1, IdleRequest DEF Requesting
  <2> QED
    BY <1>2, <1>7, <2>1, <2>2 DEF RequestRelease, Start
<1>8. ASSUME NEW c \in Months, RequestRollover(u, c)  PROVE FALSE
  <2>1. PICK q : q = [Idle EXCEPT !.kind = "rollover", !.pc = "archive", !.month = c,
                                  !.roster = Employees \ departed, !.held = DepartedWithDue(c + 1)]
    OBVIOUS
  <2>2. q.kind = "rollover"
    BY <2>1, IdleRequest DEF Requesting
  <2> QED
    BY <1>2, <1>8, <2>1, <2>2 DEF RequestRollover, Start
<1>9. ASSUME ArchiveAndFindDue(u)  PROVE FALSE
  <2>1. PICK p, found :
          /\ p \in Requesting /\ p = txn[u] /\ p.kind = "rollover"
          /\ txn' = [txn EXCEPT ![u] = [p EXCEPT !.pc = "commit", !.rows = advance, !.due = found]]
    BY <1>1, <1>9, Zenon DEF ArchiveAndFindDue, Becomes
  <2>2. [p EXCEPT !.pc = "commit", !.rows = advance, !.due = found].kind = p.kind
    BY <2>1 DEF Requesting
  <2> QED
    BY <1>2, <2>1, <2>2
<1>10. ASSUME NEW a \in Advances, CommitCreate(u, a)  PROVE FALSE
  BY <1>3, <1>10 DEF CommitCreate
<1>11. ASSUME CommitEdit(u) \/ CommitCancel(u) \/ CommitDefer(u)  PROVE FALSE
  BY <1>3, <1>11, Zenon DEF CommitEdit, CommitCancel, CommitDefer
<1>12. ASSUME NEW figure \in [Employees -> Figures], CommitRelease(u, figure)  PROVE FALSE
  BY <1>3, <1>12, Zenon DEF CommitRelease
<1>13. ASSUME CommitRollover(u)  PROVE FALSE
  BY <1>3, <1>13, Zenon DEF CommitRollover
<1>14. ASSUME Abort(u)  PROVE FALSE
  BY <1>1, <1>14 DEF Abort, Ended
<1>15. "edit" \in Guarded /\ "cancel" \in Guarded /\ "defer" \in Guarded
  BY DEF Guarded
<1> QED
  BY <1>4, <1>5, <1>6, <1>7, <1>8, <1>9, <1>10, <1>11, <1>12, <1>13, <1>14, <1>15 DEF Step

(* So an entry that a creation has read stays unpaid until it is written.                *)
LEMMA CreatesApartNext ==
  ASSUME AdvancesInv, CreatesApart, [Next]_vars
  PROVE  CreatesApart'
<1>1. SUFFICES ASSUME "create" \in Alone, NEW t \in Txns, txn'[t].kind = "create"
      PROVE  /\ \A u \in Txns \ {t} : txn'[u] = Idle
             /\ txn'[t].at # NoSlot => entry'[txn'[t].at[1]][txn'[t].at[2]].outcome # "PAID"
  BY DEF CreatesApart, CreateApart, At
<1>2. txn[t].kind = "create" => CreateApart(t)
  BY <1>1 DEF CreatesApart
<1>3. CASE UNCHANGED vars
  BY <1>1, <1>2, <1>3 DEF CreateApart, vars, At
<1>4. CASE Office
  <2>1. /\ NonePaid /\ Held(txn'[t], txn[t])
        /\ \A u \in Txns : txn[u] = Idle => txn'[u] = Idle
    BY <1>4, OfficeLeaves
  <2>2. txn[t].kind = "create" /\ txn'[t].at = txn[t].at
    BY <1>1, <2>1 DEF Held
  <2>3. txn[t].at # NoSlot => txn[t].at \in Slots
    BY <2>2 DEF AdvancesInv, RequestOK, CreateOK
  <2>4. ASSUME txn[t].at # NoSlot  PROVE entry'[txn'[t].at[1]][txn'[t].at[2]].outcome # "PAID"
    <3>1. PICK m \in Months, x \in Employees : txn[t].at = <<m, x>>
      BY <2>3, <2>4 DEF Slots
    <3>2. entry[m][x].outcome # "PAID"
      BY <1>2, <2>2, <2>4, <3>1 DEF CreateApart, At
    <3> QED
      BY <2>1, <2>2, <3>1, <3>2 DEF NonePaid, At
  <2> QED
    BY <1>2, <2>1, <2>2, <2>4 DEF CreateApart
<1>5. ASSUME NEW u \in Txns, Step(u), txn[t].kind = "create"
      PROVE  /\ \A v \in Txns \ {t} : txn'[v] = Idle
             /\ txn'[t].at # NoSlot => entry'[txn'[t].at[1]][txn'[t].at[2]].outcome # "PAID"
  <2>1. ReadTarget(t) /\ CreateApart(t)
    BY <1>1, <1>2, <1>5, AloneWithCreate
  <2>2. PICK p \in Requesting : p = txn[t]
    BY DEF AdvancesInv, Typed
  <2>3. PICK slot : slot = <<p.row.period, p.row.employee>>
    OBVIOUS
  <2>4. /\ UNCHANGED entry
        /\ \/ txn' = [txn EXCEPT ![t] = [p EXCEPT !.pc = "commit"]]
           \/ /\ At(slot).outcome # "PAID"
              /\ txn' = [txn EXCEPT ![t] = [p EXCEPT !.pc = "commit", !.at = slot, !.valid = TRUE]]
    BY <2>1, <2>2, <2>3 DEF ReadTarget, Becomes
  <2>5. [p EXCEPT !.pc = "commit"].at = p.at /\ [p EXCEPT !.pc = "commit", !.at = slot, !.valid = TRUE].at = slot
    BY <2>2 DEF Requesting
  <2>6. txn'[t].at = p.at \/ (txn'[t].at = slot /\ At(slot).outcome # "PAID")
    BY <2>4, <2>5 DEF AdvancesInv, Typed
  <2>7. \A v \in Txns \ {t} : txn'[v] = Idle
    BY <2>1, <2>4, <1>5 DEF CreateApart, AdvancesInv, Typed
  <2> QED
    BY <1>5, <2>1, <2>2, <2>4, <2>6, <2>7 DEF CreateApart, At
<1>6. ASSUME NEW u \in Txns, Step(u), txn[t].kind # "create"
      PROVE  /\ \A v \in Txns \ {t} : txn'[v] = Idle
             /\ txn'[t].at # NoSlot => entry'[txn'[t].at[1]][txn'[t].at[2]].outcome # "PAID"
  <2>1. PICK e, y, terms, m : RequestCreate(t, e, y, terms, m)
    BY <1>1, <1>6, BeginsCreate
  <2>2. PICK row : row = [status |-> "ACTIVE", employee |-> e, type |-> y, terms |-> terms,
                          total |-> terms.total, outstanding |-> terms.total, period |-> m]
    OBVIOUS
  <2>3. PICK q : q = [Idle EXCEPT !.kind = "create", !.pc = "target", !.row = row]
    OBVIOUS
  <2>4. q.kind = "create" /\ q.at = NoSlot
    BY <2>3, IdleRequest DEF Requesting
  <2>5. /\ txn' = [txn EXCEPT ![t] = q]
        /\ \A v \in Txns : txn[v] = Idle \/ q.kind \notin Alone
    BY <2>1, <2>2, <2>3 DEF RequestCreate, Start
  <2> QED
    BY <1>1, <2>4, <2>5 DEF AdvancesInv, Typed
<1> QED
  BY <1>3, <1>4, <1>5, <1>6 DEF Next

(* No step writes a paid entry.                                                          *)
LEMMA PaidNext ==
  ASSUME AdvancesInv, SchedulesInv, CreatesApart, "create" \in Alone, [Next]_vars
  PROVE  PaidStays
<1>1. CASE UNCHANGED entry
  BY <1>1 DEF PaidStays
<1>2. ASSUME NEW t \in Txns, NEW a \in Advances, CommitCreate(t, a)  PROVE PaidStays
  <2>1. PICK slot : slot = txn[t].at
    OBVIOUS
  <2>2. \/ UNCHANGED entry
        \/ slot # NoSlot /\ \E new : entry' = [entry EXCEPT ![slot[1]][slot[2]] = new]
    BY <1>2, <2>1 DEF CommitCreate
  <2>3. txn[t].kind = "create" /\ (slot # NoSlot => slot \in Slots /\ At(slot).outcome # "PAID")
    BY <1>2, <2>1 DEF CommitCreate, CreatesApart, CreateApart, AdvancesInv, RequestOK, CreateOK
  <2> QED
    BY <1>1, <2>2, <2>3, OneLine, Zenon
<1>3. ASSUME NEW t \in Txns, CommitEdit(t) \/ CommitCancel(t)  PROVE PaidStays
  <2>1. PICK slot, q : slot = txn[t].at /\ q = txn[t]
    OBVIOUS
  <2>2. \/ UNCHANGED entry
        \/ Reversal(t) > 0 /\ \E new : entry' = [entry EXCEPT ![slot[1]][slot[2]] = new]
    BY <1>3, <2>1, Zenon DEF CommitEdit, CommitCancel
  <2>3. /\ q.kind \in Guarded /\ q.pc = "commit" /\ SameStatusAndBalance(t)
        /\ Reversal(t) > 0 => q.valid
    BY <1>3, <2>1 DEF CommitEdit, CommitCancel, Guarded, EntryUnchanged
  <2>4. ASSUME Reversal(t) > 0  PROVE slot \in Slots /\ At(slot).outcome = "OPEN"
    BY <2>1, <2>3, <2>4, Reversed
  <2> QED
    BY <1>1, <2>2, <2>4, OneLine, Zenon
<1>4. ASSUME NEW t \in Txns, CommitDefer(t)  PROVE PaidStays
  <2>1. PICK slot : slot = txn[t].at
    OBVIOUS
  <2>2. slot \in Slots /\ At(slot).outcome = "OPEN"
    BY <1>4, <2>1, Deferred
  <2>3. \E new : entry' = [entry EXCEPT ![slot[1]][slot[2]] = new]
    BY <1>4, <2>1, Zenon DEF CommitDefer
  <2> QED
    BY <2>2, <2>3, OneLine
<1>5. ASSUME NEW t \in Txns, NEW figure \in [Employees -> Figures], CommitRelease(t, figure)  PROVE PaidStays
  <2>1. PICK c, S : c = txn[t].month /\ S = txn[t].roster
    OBVIOUS
  <2>2. c \in Months /\ \A m \in Months, e \in Employees : m # c \/ e \notin S => entry'[m][e] = entry[m][e]
    BY <1>5, <2>1, Zenon DEF CommitRelease, AdvancesInv, RequestOK, ReleaseOK, Typed
  <2>3. \A e \in S : entry[c][e].outcome = "OPEN"
    BY <1>5, <2>1, Zenon DEF CommitRelease, SchedulesInv, SweepOK
  <2> QED
    BY <2>2, <2>3 DEF PaidStays
<1>6. ASSUME NEW t \in Txns, CommitRollover(t)  PROVE PaidStays
  <2>1. PICK d : d = txn[t].month + 1
    OBVIOUS
  <2>2. d \in Months /\ cycleStatus[d] = "NONE"
    BY <1>6, <2>1, Zenon DEF CommitRollover, AdvancesInv, RequestOK, RolloverOK
  <2>3. \E new : entry' = [entry EXCEPT ![d] = new]
    BY <1>6, <2>1, Zenon DEF CommitRollover
  <2>4. \A m \in Months : m # d => entry'[m] = entry[m]
    BY <2>3 DEF AdvancesInv, Typed
  <2>5. \A e \in Employees : entry[d][e].outcome = "NONE"
    BY <2>2 DEF AdvancesInv, RowsOK, MonthsOK
  <2> QED
    BY <2>4, <2>5 DEF PaidStays
<1>7. CASE UNCHANGED vars
  BY <1>1, <1>7 DEF vars
<1>8. CASE Office
  BY <1>8, OfficeLeaves
<1>9. ASSUME NEW t \in Txns, Step(t)  PROVE PaidStays
  BY <1>1, <1>2, <1>3, <1>4, <1>5, <1>6, <1>9, Zenon
     DEF Step, RequestCreate, ReadTarget, RequestChange, ReadLiveEntry, ReadCarrier, RequestRelease,
         RequestRollover, ArchiveAndFindDue, Abort
<1> QED
  BY <1>7, <1>8, <1>9 DEF Next

(* Once paid off or cancelled an advance never changes again: no edit, cancellation or   *)
(* deferral that read it open, and no sweep or creation, writes to it afterwards. Nor is *)
(* an entry written that a release has paid, where moreover a creation overlaps with     *)
(* nothing.                                                                              *)
THEOREM ClosedNeverChanges ==
  ASSUME "rollover" \in Alone
  PROVE  Spec => ClosedStays
<1>1. Init => CreatesApart
  BY IdleRequest DEF Init, CreatesApart, CreateApart
<1>2. AdvancesInv /\ CreatesApart /\ [Next]_vars => CreatesApart'
  BY CreatesApartNext
<1>3. AdvancesInv /\ SchedulesInv /\ CreatesApart /\ [Next]_vars => [ClosedStep /\ PaidStep]_vars
  <2>1. ASSUME PaidStays  PROVE PaidStep
    BY <2>1 DEF PaidStays, PaidStep, Slots, At
  <2> QED
    BY <2>1, ClosedNext, PaidNext DEF PaidStep
<1> QED
  BY <1>1, <1>2, <1>3, SchedulesInvAlways, PTL DEF Spec, ClosedStays

-----------------------------------------------------------------------------
(* Salary release: the theorems of SalaryRelease, for any employees, units, requests and kinds *)
(* of edit. Its operators are Release!Operator.                                              *)

(* Release All still owes an entry, or it is resolved: an entry it owes is open, and waits *)
(* for a unit of the loop, unless the sweep under way takes it.                            *)
Owed(e, c) ==
    /\ rEntry[e].state = "OPEN" /\ ~rEntry[e].hold /\ e \notin blocked
    /\ rEntry[e].lines \subseteq released \cup c.pending
    /\ rEntry[e].lines \cap c.pending # {}
    /\ c.pc = "sweeping" /\ e \notin c.taken => rEntry[e].lines \cap (c.pending \ {c.unit}) # {}
CallOK(t) ==
    LET c == call[t] IN
    /\ c.pc = "sweeping" => lock = t /\ rCycleStatus = "DRAFT" /\ c.unit \in Units
    /\ c.pc = "page" => c.kind = "unit" /\ c.unit \in Units
    /\ c.pc = "loop" => c.kind = "all"
    /\ c.pc = "sweeping" /\ c.kind = "all" => c.unit \in c.pending
    /\ c.kind = "all" /\ c.failed = {} => \A e \in c.due : rEntry[e].state = "RESOLVED" \/ Owed(e, c)

(* An open entry names a unit; a sweep under way holds the lock of a cycle that is open.   *)
ReleaseInv ==
    /\ Release!TypeOK
    /\ \A e \in Payees : rEntry[e].state = "OPEN" => rEntry[e].lines # {}
    /\ \A t \in Callers : CallOK(t)

-----------------------------------------------------------------------------
(* What the steps write. *)

LEMMA IdleCall == Release!Idle \in Release!CallRecord /\ Release!Idle.pc = "idle" /\ Release!Idle.kind = "none"
  BY DEF Release!Idle, Release!CallRecord, Release!Unsent

(* The first of the pending units is one of them. *)
LEMMA FirstUnit ==
  ASSUME Release!ReleaseConstants, NEW S, S \subseteq Units, S # {}
  PROVE  Release!Min(S) \in S
<1>1. S \subseteq Nat
  BY DEF Release!ReleaseConstants
<1>2. PICK n \in S : \A m \in S : n <= m
  BY <1>1, LeastNatural
<1> QED
  BY <1>2 DEF Release!Min

(* A step of one request rewrites what it is doing, and no other's. *)
LEMMA OneCall ==
  ASSUME Release!TypeOK, NEW t \in Callers, NEW q \in Release!CallRecord, call' = [call EXCEPT ![t] = q]
  PROVE  /\ call' \in [Callers -> Release!CallRecord]
         /\ call'[t] = q /\ \A u \in Callers \ {t} : call'[u] = call[u]
  BY DEF Release!TypeOK

(* What a sweep, the loop and an answer make of a request. *)
LEMMA Rewritten ==
  ASSUME NEW c \in Release!CallRecord, NEW u \in Units, NEW T \in SUBSET Payees
  PROVE  /\ [c EXCEPT !.pc = "sweeping", !.unit = u, !.taken = T] \in Release!CallRecord
         /\ [c EXCEPT !.pending = @ \ {u}] \in Release!CallRecord
         /\ [c EXCEPT !.pending = @ \ {u}, !.failed = @ \cup {u}] \in Release!CallRecord
  BY DEF Release!CallRecord

(* The part of a request that no step of its own rewrites: entries may be resolved and   *)
(* units released, and its lock stays.                                                   *)
LEMMA OthersKept ==
  ASSUME NEW u \in Callers, CallOK(u), call'[u] = call[u], Release!TypeOK,
         call[u].pc = "sweeping" => UNCHANGED <<lock, rCycleStatus>>,
         released \subseteq released', blocked' = blocked,
         \A e \in Payees : rEntry'[e] = rEntry[e] \/ rEntry'[e].state = "RESOLVED"
  PROVE  CallOK(u)'
<1>1. call[u] \in Release!CallRecord /\ call[u].due \subseteq Payees
  BY DEF Release!TypeOK, Release!CallRecord
<1>2. ASSUME NEW e \in call[u].due, Owed(e, call[u])
      PROVE  rEntry'[e].state = "RESOLVED" \/ Owed(e, call[u])'
  BY <1>1, <1>2 DEF Owed
<1>3. ASSUME NEW e \in call[u].due, rEntry[e].state = "RESOLVED"  PROVE rEntry'[e].state = "RESOLVED"
  BY <1>1, <1>3
<1> QED
  BY <1>2, <1>3 DEF CallOK

-----------------------------------------------------------------------------
(* Every step keeps the invariant. *)

(* A request that is over has no part in it. *)
LEMMA Over ==
  ASSUME NEW t \in Callers, call'[t].pc = "idle", call'[t].kind \in {"none", "unit"}
  PROVE  CallOK(t)'
  BY DEF CallOK

(* A step of one request that writes no entry. *)
LEMMA QuietCall ==
  ASSUME ReleaseInv, NEW t \in Callers, NEW q \in Release!CallRecord, call' = [call EXCEPT ![t] = q],
         UNCHANGED <<rEntry, blocked, released, rCycleStatus>>,
         lock' \in Callers \cup {None}, lock' = lock \/ lock \in {t, None}, Release!ReleaseConstants,
         CallOK(t)'
  PROVE  ReleaseInv'
<1>1. /\ call' \in [Callers -> Release!CallRecord]
      /\ \A u \in Callers \ {t} : call'[u] = call[u]
  BY OneCall DEF ReleaseInv
<1>2. Release!TypeOK'
  BY <1>1 DEF ReleaseInv, Release!TypeOK
<1>3. ASSUME NEW u \in Callers \ {t}  PROVE CallOK(u)'
  <2>1. call[u].pc = "sweeping" => UNCHANGED <<lock, rCycleStatus>>
    BY DEF ReleaseInv, CallOK, Release!ReleaseConstants
  <2> QED
    BY <1>1, <2>1, OthersKept DEF ReleaseInv
<1> QED
  BY <1>2, <1>3 DEF ReleaseInv

LEMMA PageOpened ==
  ASSUME ReleaseInv, Release!ReleaseConstants, NEW t \in Callers, NEW u \in Units, Release!OpenPage(t, u)
  PROVE  ReleaseInv'
<1>1. PICK seen : seen = Release!ExpectedVersions(u)
  OBVIOUS
<1>2. seen \in [Payees -> Int]
  BY <1>1 DEF Release!ExpectedVersions, ReleaseInv, Release!TypeOK, Release!EntryRecord
<1>3. PICK q : q = [Release!Idle EXCEPT !.kind = "unit", !.pc = "page", !.unit = u, !.seen = seen]
  OBVIOUS
<1>4. q \in Release!CallRecord /\ q.pc = "page" /\ q.kind = "unit" /\ q.unit = u
  BY <1>2, <1>3, Zenon DEF Release!Idle, Release!CallRecord
<1>5. call' = [call EXCEPT ![t] = q] /\ UNCHANGED <<rEntry, blocked, released, rCycleStatus, lock>>
  BY <1>1, <1>3 DEF Release!OpenPage
<1>6. call'[t] = q
  BY <1>4, <1>5, OneCall DEF ReleaseInv
<1>7. CallOK(t)'
  BY <1>4, <1>6 DEF CallOK
<1>8. lock' \in Callers \cup {None}
  BY <1>5 DEF ReleaseInv, Release!TypeOK
<1> QED
  BY <1>4, <1>5, <1>7, <1>8, QuietCall

(* A refusal and an answer end the request. *)
LEMMA RequestOver ==
  ASSUME ReleaseInv, Release!ReleaseConstants, NEW t \in Callers, Release!RefuseSweep(t) \/ Release!AnswerAll(t)
  PROVE  ReleaseInv'
<1>1. call' = [call EXCEPT ![t] = Release!Idle] /\ UNCHANGED <<rEntry, blocked, released, rCycleStatus, lock>>
  BY DEF Release!RefuseSweep, Release!AnswerAll
<1>2. call'[t] = Release!Idle
  BY <1>1, IdleCall, OneCall DEF ReleaseInv
<1>3. CallOK(t)'
  BY <1>2, IdleCall, Over
<1>4. lock' \in Callers \cup {None}
  BY <1>1 DEF ReleaseInv, Release!TypeOK
<1> QED
  BY <1>1, <1>3, <1>4, IdleCall, QuietCall

(* An entry the loop owes at its unit is taken by the sweep, or waits for a later unit.   *)
LEMMA TakenOrLater ==
  ASSUME NEW e \in Payees, NEW c, NEW u, Owed(e, c), e \notin Release!ToRelease(u)
  PROVE  rEntry[e].lines \cap (c.pending \ {u}) # {}
<1>1. CASE u \notin rEntry[e].lines
  BY <1>1 DEF Owed
<1>2. CASE u \in rEntry[e].lines
  <2>1. ~(rEntry[e].lines \ {u} \subseteq released)
    BY <1>2 DEF Owed, Release!ToRelease, Release!Candidates, Release!Touching, Release!LastUnit
  <2> QED
    BY <2>1 DEF Owed
<1> QED
  BY <1>1, <1>2

(* Release All begins by owing the entries that are ready at a unit of its loop.          *)
LEMMA AllStarted ==
  ASSUME ReleaseInv, Release!ReleaseConstants, NEW t \in Callers, Release!StartAll(t)
  PROVE  ReleaseInv'
<1>1. PICK pending, held, due :
         /\ pending = Units \ released /\ held = Release!Held
         /\ due = {e \in Release!OpenEntries \ (Release!Held \cup blocked) : rEntry[e].lines \cap (Units \ released) # {}}
  OBVIOUS
<1>2. PICK q : q = [Release!Idle EXCEPT !.kind = "all", !.pc = "loop", !.pending = pending,
                                !.heldAtStart = held, !.due = due]
  OBVIOUS
<1>3. pending \subseteq Units /\ held \subseteq Payees /\ due \subseteq Payees
  BY <1>1 DEF Release!Held, Release!OpenEntries
<1>4. /\ q \in Release!CallRecord /\ q.kind = "all" /\ q.pc = "loop" /\ q.pending = pending /\ q.due = due
  BY <1>2, <1>3, IdleCall, Zenon DEF Release!CallRecord
<1>5. call' = [call EXCEPT ![t] = q] /\ UNCHANGED <<rEntry, blocked, released, rCycleStatus, lock>>
  BY <1>1, <1>2 DEF Release!StartAll
<1>6. call'[t] = q
  BY <1>4, <1>5, OneCall DEF ReleaseInv
<1>7. \A e \in due : /\ rEntry[e].state = "OPEN" /\ ~rEntry[e].hold /\ e \notin blocked
                     /\ rEntry[e].lines \cap pending # {} /\ rEntry[e].lines \subseteq released \cup pending
  <2>1. \A e \in Payees : rEntry[e].lines \subseteq Units
    BY DEF ReleaseInv, Release!TypeOK, Release!EntryRecord
  <2> QED
    BY <1>1, <2>1 DEF Release!Held, Release!OpenEntries
<1>8. CallOK(t)'
  BY <1>4, <1>5, <1>6, <1>7 DEF CallOK, Owed
<1>9. lock' \in Callers \cup {None}
  BY <1>5 DEF ReleaseInv, Release!TypeOK
<1> QED
  BY <1>4, <1>5, <1>8, <1>9, QuietCall

(* A sweep takes the lock nobody holds.                                                   *)
LEMMA SweepStarted ==
  ASSUME ReleaseInv, Release!ReleaseConstants, NEW t \in Callers, Release!StartSweep(t) \/ Release!SweepNext(t)
  PROVE  ReleaseInv'
<1>1. PICK c \in Release!CallRecord : c = call[t]
  BY DEF ReleaseInv, Release!TypeOK
<1>2. PICK u : /\ Release!Sweep(t, u) /\ lock = None /\ Release!StillDraft
               /\ \/ c.pc = "page" /\ u = c.unit
                  \/ c.pc = "loop" /\ c.pending # {} /\ u = Release!Min(c.pending)
  BY <1>1 DEF Release!StartSweep, Release!SweepNext, Release!NextUnit
<1>3. u \in Units /\ (c.kind = "all" => u \in c.pending)
  <2>1. CallOK(t) /\ c.pending \subseteq Units
    BY DEF ReleaseInv, Release!CallRecord
  <2>2. CASE c.pc = "page"
    BY <1>1, <1>2, <2>1, <2>2 DEF CallOK
  <2>3. CASE c.pc = "loop"
    BY <1>2, <2>1, <2>3, FirstUnit
  <2> QED
    BY <1>2, <2>2, <2>3
<1>4. PICK T : T = Release!ToRelease(u) \ blocked
  OBVIOUS
<1>5. T \subseteq Payees
  BY <1>4 DEF Release!ToRelease, Release!Candidates, Release!Touching
<1>6. PICK q : q = [c EXCEPT !.pc = "sweeping", !.unit = u, !.taken = T]
  OBVIOUS
<1>7. q \in Release!CallRecord
  BY <1>3, <1>5, <1>6, Rewritten, Zenon
<1>8. /\ q.pc = "sweeping" /\ q.unit = u /\ q.taken = T /\ q.kind = c.kind /\ q.pending = c.pending
      /\ q.failed = c.failed /\ q.due = c.due
  BY <1>6 DEF Release!CallRecord
<1>9. call' = [call EXCEPT ![t] = q] /\ lock' = t /\ UNCHANGED <<rEntry, blocked, released, rCycleStatus>>
  BY <1>1, <1>2, <1>4, <1>6, Zenon DEF Release!Sweep, ReleaseInv, Release!TypeOK
<1>10. call'[t] = q
  BY <1>7, <1>9, OneCall DEF ReleaseInv
<1>11. ASSUME c.kind = "all", c.failed = {}, NEW e \in c.due, rEntry[e].state # "RESOLVED"
       PROVE  Owed(e, call[t])'
  <2>1. e \in Payees /\ Owed(e, c)
    BY <1>1, <1>11 DEF ReleaseInv, CallOK, Release!CallRecord
  <2>2. e \notin T => e \notin Release!ToRelease(u)
    BY <1>4, <2>1 DEF Owed
  <2>3. e \notin T => rEntry[e].lines \cap (c.pending \ {u}) # {}
    BY <2>1, <2>2, TakenOrLater
  <2> QED
    BY <1>8, <1>9, <1>10, <2>1, <2>3 DEF Owed
<1>12. CallOK(t)'
  BY <1>2, <1>3, <1>8, <1>9, <1>10, <1>11 DEF CallOK, Release!StillDraft
<1> QED
  BY <1>2, <1>7, <1>9, <1>12, QuietCall

(* A unit that is passed over offers nothing new: what the loop owes waits for a later   *)
(* one, or the unit failed.                                                              *)
LEMMA PassedOver ==
  ASSUME ReleaseInv, Release!ReleaseConstants, NEW t \in Callers, Release!PassOver(t)
  PROVE  ReleaseInv'
<1>1. PICK c \in Release!CallRecord : c = call[t]
  BY DEF ReleaseInv, Release!TypeOK
<1>2. PICK u : u = Release!NextUnit(t)
  OBVIOUS
<1>3. c.pending \subseteq Units /\ c.pc = "loop" /\ c.kind = "all" /\ u \in Units /\ u \in c.pending
  <2>1. c.pending \subseteq Units /\ c.pc = "loop" /\ c.pending # {}
    BY <1>1 DEF Release!PassOver, Release!CallRecord
  <2> QED
    BY <1>1, <1>2, <2>1, FirstUnit DEF Release!NextUnit, ReleaseInv, CallOK
<1>4. PICK q : /\ call' = [call EXCEPT ![t] = q] 
               /\ \/ q = [c EXCEPT !.pending = @ \ {u}, !.failed = @ \cup {u}]
                  \/ q = [c EXCEPT !.pending = @ \ {u}] /\ Release!NothingNew(u)
  BY <1>1, <1>2, Zenon DEF Release!PassOver, ReleaseInv, Release!TypeOK
<1>5. q \in Release!CallRecord
  BY <1>3, <1>4, Rewritten, Zenon
<1>6. /\ q.pc = "loop" /\ q.kind = "all" /\ q.pending = c.pending \ {u} /\ q.due = c.due
      /\ q.failed = {} => Release!NothingNew(u) /\ c.failed = {}
  BY <1>3, <1>4, Zenon DEF Release!CallRecord
<1>7. UNCHANGED <<rEntry, blocked, released, rCycleStatus, lock>>
  BY DEF Release!PassOver
<1>8. call'[t] = q
  BY <1>4, <1>5, OneCall, Zenon DEF ReleaseInv
<1>9. ASSUME q.failed = {}, NEW e \in c.due, rEntry[e].state # "RESOLVED"
      PROVE  Owed(e, call[t])'
  <2>1. e \in Payees /\ Owed(e, c)
    BY <1>1, <1>3, <1>6, <1>9 DEF ReleaseInv, CallOK, Release!CallRecord
  <2>2. u \in released /\ e \notin Release!ToRelease(u)
    BY <1>6, <1>9 DEF Release!NothingNew
  <2>3. rEntry[e].lines \cap (c.pending \ {u}) # {}
    BY <2>1, <2>2, TakenOrLater
  <2> QED
    BY <1>6, <1>7, <1>8, <2>1, <2>2, <2>3 DEF Owed
<1>10. CallOK(t)'
  BY <1>6, <1>7, <1>8, <1>9 DEF CallOK
<1>11. lock' \in Callers \cup {None}
  BY <1>7 DEF ReleaseInv, Release!TypeOK
<1> QED
  BY <1>4, <1>5, <1>7, <1>10, <1>11, QuietCall

(* A sweep that fails counts against its unit. *)
LEMMA SweepFailed ==
  ASSUME ReleaseInv, Release!ReleaseConstants, NEW t \in Callers, Release!FailSweep(t)
  PROVE  ReleaseInv'
<1>1. PICK c \in Release!CallRecord : c = call[t]
  BY DEF ReleaseInv, Release!TypeOK
<1>2. /\ c.pc = "sweeping" /\ lock' = None /\ UNCHANGED <<rEntry, blocked, released, rCycleStatus>>
      /\ call' = [call EXCEPT ![t] = IF c.kind = "all" THEN Release!AfterFailure(c) ELSE Release!Idle]
  BY <1>1 DEF Release!FailSweep, ReleaseInv, Release!TypeOK
<1>3. PICK q : q = IF c.kind = "all" THEN Release!AfterFailure(c) ELSE Release!Idle
  OBVIOUS
<1>4. lock = t /\ c.unit \in Units
  BY <1>1, <1>2 DEF ReleaseInv, CallOK
<1>5. CASE c.kind = "all"
  <2>1. /\ q \in Release!CallRecord /\ q.pc = "loop" /\ q.kind = "all" /\ q.failed # {}
    BY <1>3, <1>4, <1>5 DEF Release!AfterFailure, Release!CallRecord
  <2>2. call'[t] = q
    BY <1>2, <1>3, <2>1, OneCall, Zenon DEF ReleaseInv
  <2>3. CallOK(t)'
    BY <2>1, <2>2 DEF CallOK
  <2> QED
    BY <1>2, <1>3, <1>4, <2>1, <2>3, QuietCall
<1>6. CASE c.kind # "all"
  <2>1. q = Release!Idle /\ call'[t] = q
    BY <1>2, <1>3, <1>6, IdleCall, OneCall DEF ReleaseInv
  <2>2. CallOK(t)'
    BY <2>1, IdleCall, Over
  <2> QED
    BY <1>2, <1>3, <1>4, <2>1, <2>2, IdleCall, QuietCall, Zenon
<1> QED
  BY <1>5, <1>6

(* A sweep that commits has resolved what it took, and only that. *)
LEMMA Resolved ==
  ASSUME Release!TypeOK, NEW S \in SUBSET Payees, rEntry' = Release!Resolve(rEntry, S)
  PROVE  /\ rEntry' \in [Payees -> Release!EntryRecord]
         /\ \A e \in S : /\ rEntry'[e].state = "RESOLVED" /\ rEntry'[e].lines = rEntry[e].lines
         /\ \A e \in Payees \ S : rEntry'[e] = rEntry[e]
<1>1. ASSUME NEW e \in Payees
      PROVE  /\ rEntry'[e] \in Release!EntryRecord
             /\ e \in S => rEntry'[e].state = "RESOLVED" /\ rEntry'[e].lines = rEntry[e].lines
             /\ e \notin S => rEntry'[e] = rEntry[e]
  <2>1. PICK line \in Release!EntryRecord : line = rEntry[e]
    BY DEF Release!TypeOK
  <2>2. PICK v \in Nat : v = line.version + 1
    BY DEF Release!EntryRecord
  <2>3. rEntry'[e] = IF e \in S THEN [line EXCEPT !.state = "RESOLVED", !.version = v] ELSE line
    BY <2>1, <2>2 DEF Release!Resolve
  <2> QED
    BY <2>1, <2>3, Zenon DEF Release!EntryRecord
<1>2. rEntry' = [e \in Payees |-> rEntry'[e]]
  BY DEF Release!Resolve
<1> QED
  BY <1>1, <1>2

LEMMA SweepCommitted ==
  ASSUME ReleaseInv, Release!ReleaseConstants, NEW t \in Callers, Release!CommitSweep(t)
  PROVE  ReleaseInv'
<1>1. PICK c \in Release!CallRecord : c = call[t]
  BY DEF ReleaseInv, Release!TypeOK
<1>2. /\ c.pc = "sweeping" /\ lock' = None /\ UNCHANGED <<blocked, rCycleStatus>>
      /\ rEntry' = Release!Resolve(rEntry, c.taken) /\ released' = released \cup {c.unit}
      /\ call' = [call EXCEPT ![t] = IF c.kind = "all" THEN Release!Counted(c) ELSE Release!Idle]
  BY <1>1 DEF Release!CommitSweep, ReleaseInv, Release!TypeOK
<1>3. lock = t /\ c.unit \in Units /\ c.taken \subseteq Payees
  BY <1>1, <1>2 DEF ReleaseInv, CallOK, Release!CallRecord
<1>4. /\ rEntry' \in [Payees -> Release!EntryRecord]
      /\ \A e \in c.taken : rEntry'[e].state = "RESOLVED"
      /\ \A e \in Payees \ c.taken : rEntry'[e] = rEntry[e]
  BY <1>2, <1>3, Resolved DEF ReleaseInv
<1>5. PICK q : q = IF c.kind = "all" THEN Release!Counted(c) ELSE Release!Idle
  OBVIOUS
<1>6. q \in Release!CallRecord /\ (c.kind # "all" => q = Release!Idle)
  <2>1. Release!Counted(c) \in Release!CallRecord
    BY Zenon DEF Release!Counted, Release!CallRecord
  <2> QED
    BY <1>5, <2>1, IdleCall
<1>7. /\ call' \in [Callers -> Release!CallRecord] /\ call'[t] = q
      /\ \A u \in Callers \ {t} : call'[u] = call[u]
  BY <1>2, <1>5, <1>6, OneCall DEF ReleaseInv
<1>8. Release!TypeOK'
  BY <1>2, <1>3, <1>4, <1>7 DEF ReleaseInv, Release!TypeOK
<1>9. ASSUME NEW e \in Payees, rEntry'[e].state = "OPEN"  PROVE rEntry'[e].lines # {}
  BY <1>4, <1>9 DEF ReleaseInv
<1>10. ASSUME NEW u \in Callers \ {t}  PROVE CallOK(u)'
  <2>1. call[u].pc # "sweeping"
    BY <1>3 DEF ReleaseInv, CallOK
  <2> QED
    BY <1>2, <1>4, <1>7, <2>1, OthersKept DEF ReleaseInv
<1>11. CASE c.kind = "all"
  <2>1. /\ q.pc = "loop" /\ q.kind = "all" /\ q.pending = c.pending \ {c.unit}
        /\ q.due = c.due /\ q.failed = c.failed
    BY <1>5, <1>11 DEF Release!Counted, Release!CallRecord
  <2>2. ASSUME q.failed = {}, NEW e \in c.due, rEntry'[e].state # "RESOLVED"  PROVE Owed(e, call[t])'
    <3>1. e \in Payees /\ e \notin c.taken /\ rEntry'[e] = rEntry[e]
      BY <1>4, <2>2 DEF Release!CallRecord
    <3>2. Owed(e, c)
      BY <1>1, <1>11, <2>1, <2>2, <3>1, Zenon DEF ReleaseInv, CallOK
    <3> QED
      BY <1>2, <1>7, <2>1, <3>1, <3>2 DEF Owed
  <2>3. CallOK(t)'
    BY <1>7, <2>1, <2>2 DEF CallOK
  <2> QED
    BY <1>8, <1>9, <1>10, <2>3 DEF ReleaseInv
<1>12. CASE c.kind # "all"
  <2>1. CallOK(t)'
    BY <1>6, <1>7, <1>12, IdleCall, Over
  <2> QED
    BY <1>8, <1>9, <1>10, <2>1 DEF ReleaseInv
<1> QED
  BY <1>11, <1>12

(* What an edit writes: it resolves nothing, leaves an open entry a unit, and gives it    *)
(* another only when a line is added or moved.                                            *)
EditOf(e) ==
    \/ Release!SetHold(e) \/ Release!DeleteEntry(e)
    \/ \E u \in Units : Release!AddLine(e, u) \/ Release!RemoveLine(e, u) \/ Release!ApplyAssignment(e, u)
    \/ \E u, v \in Units : Release!MoveLine(e, u, v)
Writes(e, row) ==
    /\ Release!Rewrite(e, row) /\ row.state # "RESOLVED" /\ (row.state = "OPEN" => row.lines # {})
    /\ row.lines \subseteq rEntry[e].lines \/ Release!Allowed("addLine") \/ Release!Allowed("moveLine") \/ Release!Allowed("assign")
    /\ \E kind \in Edits : Release!Allowed(kind)

LEMMA EditWrites ==
  ASSUME ReleaseInv, NEW e \in Payees, EditOf(e)
  PROVE  \E row \in Release!EntryRecord : Writes(e, row)
<1>1. PICK line \in Release!EntryRecord : line = rEntry[e]
  BY DEF ReleaseInv, Release!TypeOK
<1>2. line.state = "OPEN" /\ line.lines # {} /\ line.lines \subseteq Units
  BY <1>1, Zenon DEF ReleaseInv, EditOf, Release!SetHold, Release!DeleteEntry, Release!AddLine, Release!RemoveLine,
     Release!ApplyAssignment, Release!MoveLine, Release!Rewrite,
     Release!EntryRecord
<1>3. CASE Release!SetHold(e)
  <2>1. PICK b \in BOOLEAN : b = ~line.hold
    OBVIOUS
  <2>2. PICK row : row = [line EXCEPT !.hold = b]
    OBVIOUS
  <2>3. row \in Release!EntryRecord /\ row.lines = line.lines /\ row.state = "OPEN"
    BY <1>2, <2>1, <2>2 DEF Release!EntryRecord
  <2>4. Release!Rewrite(e, row)
    BY <1>1, <1>3, <2>1, <2>2 DEF Release!SetHold
  <2> QED
    BY <1>1, <1>2, <1>3, <2>3, <2>4 DEF Writes, Release!SetHold, Release!Allowed
<1>4. CASE Release!DeleteEntry(e)
  <2>1. PICK row : row = [line EXCEPT !.state = "NONE", !.lines = {}]
    OBVIOUS
  <2>2. row \in Release!EntryRecord /\ row.state = "NONE" /\ row.lines = {}
    BY <2>1 DEF Release!EntryRecord
  <2>3. Release!Rewrite(e, row)
    BY <1>1, <1>4, <2>1 DEF Release!DeleteEntry
  <2> QED
    BY <1>4, <2>2, <2>3 DEF Writes, Release!DeleteEntry, Release!Allowed
<1>5. ASSUME NEW L \in SUBSET Units, L # {}, Release!Rewrite(e, [line EXCEPT !.lines = L]), NEW kind, Release!Allowed(kind),
             L \subseteq line.lines \/ kind \in {"addLine", "moveLine", "assign"}
      PROVE  \E row \in Release!EntryRecord : Writes(e, row)
  <2>1. PICK row : row = [line EXCEPT !.lines = L]
    OBVIOUS
  <2>2. row \in Release!EntryRecord /\ row.lines = L /\ row.state = "OPEN"
    BY <1>2, <2>1 DEF Release!EntryRecord
  <2>3. Release!Rewrite(e, row)
    BY <1>5, <2>1
  <2>4. kind \in Edits
    BY <1>5 DEF Release!Allowed
  <2> QED
    BY <1>1, <1>5, <2>2, <2>3, <2>4 DEF Writes
<1>6. ASSUME NEW u \in Units, Release!AddLine(e, u)  PROVE \E row \in Release!EntryRecord : Writes(e, row)
  <2>1. PICK L : L = line.lines \cup {u}
    OBVIOUS
  <2>2. Release!Rewrite(e, [line EXCEPT !.lines = L]) /\ Release!Allowed("addLine")
    BY <1>1, <1>6, <2>1 DEF Release!AddLine
  <2> QED
    BY <1>2, <1>5, <2>1, <2>2
<1>7. ASSUME NEW u \in Units, Release!RemoveLine(e, u)  PROVE \E row \in Release!EntryRecord : Writes(e, row)
  <2>1. PICK L : L = line.lines \ {u}
    OBVIOUS
  <2>2. /\ Release!Rewrite(e, [line EXCEPT !.lines = L]) /\ Release!Allowed("removeLine")
        /\ Release!Cardinality(line.lines) > 1
    BY <1>1, <1>7, <2>1 DEF Release!RemoveLine, Release!MayRemove
  <2>3. L # {}
    <3>1. SUFFICES ASSUME L = {}  PROVE FALSE
      OBVIOUS
    <3>2. line.lines = {u}
      BY <1>2, <2>1, <3>1
    <3>3. Release!Cardinality({u}) = 1
      BY FS_Singleton DEF Release!Cardinality, Cardinality
    <3> QED
      BY <2>2, <3>2, <3>3
  <2> QED
    BY <1>2, <1>5, <2>1, <2>2, <2>3
<1>8. ASSUME NEW u \in Units, Release!ApplyAssignment(e, u)
      PROVE  \E row \in Release!EntryRecord : Writes(e, row)
  <2>1. Release!Rewrite(e, [line EXCEPT !.lines = {u}]) /\ Release!Allowed("assign")
    BY <1>1, <1>8 DEF Release!ApplyAssignment
  <2> QED
    BY <1>5, <2>1
<1>9. ASSUME NEW u \in Units, NEW v \in Units, Release!MoveLine(e, u, v)
      PROVE  \E row \in Release!EntryRecord : Writes(e, row)
  <2>1. PICK L : L = (line.lines \ {u}) \cup {v}
    OBVIOUS
  <2>2. Release!Rewrite(e, [line EXCEPT !.lines = L]) /\ Release!Allowed("moveLine")
    BY <1>1, <1>9, <2>1 DEF Release!MoveLine
  <2> QED
    BY <1>2, <1>5, <2>1, <2>2
<1> QED
  BY <1>3, <1>4, <1>6, <1>7, <1>8, <1>9 DEF EditOf

(* The rows afterwards: the edited one is what was written, in a new version. *)
LEMMA Rewrites ==
  ASSUME Release!TypeOK, NEW e \in Payees, NEW row \in Release!EntryRecord, Release!Rewrite(e, row)
  PROVE  /\ rEntry' \in [Payees -> Release!EntryRecord]
         /\ rEntry'[e].state = row.state /\ rEntry'[e].lines = row.lines
         /\ \A x \in Payees \ {e} : rEntry'[x] = rEntry[x]
         /\ rEntry[e].state = "OPEN" /\ call' = Release!NoLongerDue(e)
         /\ UNCHANGED <<blocked, released, rCycleStatus, lock>>
<1>1. PICK v : v = rEntry[e].version + 1
  OBVIOUS
<1>2. v \in Nat
  BY <1>1 DEF Release!TypeOK, Release!EntryRecord
<1>3. PICK new : new = [row EXCEPT !.version = v]
  OBVIOUS
<1>4. new \in Release!EntryRecord /\ new.state = row.state /\ new.lines = row.lines
  BY <1>2, <1>3 DEF Release!EntryRecord
<1>5. rEntry' = [rEntry EXCEPT ![e] = new]
  BY <1>1, <1>3 DEF Release!Rewrite
<1> QED
  BY <1>4, <1>5 DEF Release!Rewrite, Release!TypeOK

(* The requests afterwards are what they were, but owe nothing for it. *)
LEMMA NoLongerOwed ==
  ASSUME Release!TypeOK, NEW e \in Payees, call' = Release!NoLongerDue(e)
  PROVE  /\ call' \in [Callers -> Release!CallRecord]
         /\ \A u \in Callers : /\ call'[u].pc = call[u].pc /\ call'[u].kind = call[u].kind
                               /\ call'[u].unit = call[u].unit /\ call'[u].taken = call[u].taken
                               /\ call'[u].seen = call[u].seen /\ call'[u].pending = call[u].pending
                               /\ call'[u].failed = call[u].failed /\ call'[u].due = call[u].due \ {e}
<1>1. ASSUME NEW u \in Callers
      PROVE  /\ call'[u] \in Release!CallRecord
             /\ call'[u].pc = call[u].pc /\ call'[u].kind = call[u].kind
             /\ call'[u].unit = call[u].unit /\ call'[u].taken = call[u].taken
             /\ call'[u].seen = call[u].seen /\ call'[u].pending = call[u].pending
             /\ call'[u].failed = call[u].failed /\ call'[u].due = call[u].due \ {e}
  <2>1. PICK c \in Release!CallRecord : c = call[u]
    BY DEF Release!TypeOK
  <2>2. call'[u] = [c EXCEPT !.due = @ \ {e}]
    BY <2>1 DEF Release!NoLongerDue
  <2> QED
    BY <2>1, <2>2 DEF Release!CallRecord
<1>2. call' = [u \in Callers |-> call'[u]]
  BY DEF Release!NoLongerDue
<1> QED
  BY <1>1, <1>2

(* An entry that is edited is owed no more; the others are as they were. *)
LEMMA EditKept ==
  ASSUME NEW u \in Callers, NEW e \in Payees, CallOK(u), Release!TypeOK, call' = Release!NoLongerDue(e),
         UNCHANGED <<lock, rCycleStatus, released>>,
         \A x \in Payees \ {e} : rEntry'[x] = rEntry[x] /\ (x \in blocked' <=> x \in blocked)
  PROVE  CallOK(u)'
<1>1. PICK c, d : c = call[u] /\ d = call'[u]
  OBVIOUS
<1>2. /\ d.pc = c.pc /\ d.kind = c.kind /\ d.unit = c.unit /\ d.pending = c.pending
      /\ d.failed = c.failed /\ d.taken = c.taken /\ d.due = c.due \ {e}
  BY <1>1, NoLongerOwed
<1>3. c.due \subseteq Payees
  BY <1>1 DEF Release!TypeOK, Release!CallRecord
<1>4. ASSUME NEW x \in d.due, Owed(x, c)  PROVE Owed(x, call[u])'
  BY <1>1, <1>2, <1>3, <1>4 DEF Owed
<1>5. ASSUME NEW x \in d.due  PROVE rEntry'[x] = rEntry[x]
  BY <1>2, <1>3, <1>5
<1> QED
  BY <1>1, <1>2, <1>4, <1>5 DEF CallOK

(* So an edit keeps the invariant. *)
LEMMA EntryEdited ==
  ASSUME ReleaseInv, NEW e \in Payees, EditOf(e)
  PROVE  ReleaseInv'
<1>1. PICK row \in Release!EntryRecord : Writes(e, row)
  BY EditWrites
<1>2. /\ rEntry' \in [Payees -> Release!EntryRecord]
      /\ rEntry'[e].state = row.state /\ rEntry'[e].lines = row.lines
      /\ \A x \in Payees \ {e} : rEntry'[x] = rEntry[x]
      /\ call' = Release!NoLongerDue(e) /\ UNCHANGED <<blocked, released, rCycleStatus, lock>>
  BY <1>1, Rewrites DEF Writes, ReleaseInv
<1>3. Release!TypeOK'
  BY <1>2, NoLongerOwed DEF ReleaseInv, Release!TypeOK
<1>4. \A u \in Callers : CallOK(u)'
  BY <1>2, EditKept DEF ReleaseInv
<1> QED
  BY <1>1, <1>2, <1>3, <1>4 DEF ReleaseInv, Writes

(* What blocks an employee changes: the loops owe nothing for it any more. *)
LEMMA RegistryEdited ==
  ASSUME ReleaseInv, NEW e \in Payees, Release!EditRegistry(e)
  PROVE  ReleaseInv'
<1>1. /\ blocked' = IF e \in blocked THEN blocked \ {e} ELSE blocked \cup {e}
      /\ call' = Release!NoLongerDue(e) /\ UNCHANGED <<rEntry, released, rCycleStatus, lock>>
  BY DEF Release!EditRegistry
<1>2. call' \in [Callers -> Release!CallRecord]
  BY <1>1, NoLongerOwed DEF ReleaseInv
<1>3. Release!TypeOK'
  BY <1>1, <1>2 DEF ReleaseInv, Release!TypeOK
<1>4. \A u \in Callers : CallOK(u)'
  BY <1>1, EditKept DEF ReleaseInv
<1> QED
  BY <1>1, <1>3, <1>4 DEF ReleaseInv

(* The cycle is finalized under its lock, when no sweep holds it. *)
LEMMA CycleFinalized ==
  ASSUME ReleaseInv, Release!ReleaseConstants, Release!Finalize
  PROVE  ReleaseInv'
<1>1. lock = None /\ rCycleStatus' = "RELEASED" /\ UNCHANGED <<rEntry, blocked, released, lock, call>>
  BY DEF Release!Finalize
<1>2. Release!TypeOK'
  BY <1>1 DEF ReleaseInv, Release!TypeOK
<1>3. ASSUME NEW u \in Callers  PROVE CallOK(u)'
  <2>1. call[u].pc # "sweeping"
    BY <1>1 DEF ReleaseInv, CallOK, Release!ReleaseConstants
  <2> QED
    BY <1>1, <2>1, OthersKept DEF ReleaseInv
<1> QED
  BY <1>1, <1>2, <1>3 DEF ReleaseInv

LEMMA ReleaseInvInit == Release!Init => ReleaseInv
<1>1. SUFFICES ASSUME Release!Init  PROVE ReleaseInv
  OBVIOUS
<1>2. ASSUME NEW L \in SUBSET Units
      PROVE  Release!NewEntry(L) \in Release!EntryRecord /\ Release!NewEntry(L).lines = L
  BY DEF Release!NewEntry, Release!EntryRecord
<1>3. ASSUME NEW e \in Payees  PROVE rEntry[e] \in Release!EntryRecord /\ rEntry[e].lines # {}
  <2>1. PICK Ls : Ls = {M \in (SUBSET Units) \ {{}} : Release!OneSite(M)}
    OBVIOUS
  <2>2. PICK rows : rows = {Release!NewEntry(L) : L \in Ls}
    OBVIOUS
  <2>3. rEntry \in [Payees -> rows]
    BY <1>1, <2>1, <2>2 DEF Release!Init
  <2>4. PICK L \in Ls : rEntry[e] = Release!NewEntry(L)
    BY <2>2, <2>3
  <2>5. L \in SUBSET Units /\ L # {}
    BY <2>1
  <2> QED
    BY <1>2, <2>4, <2>5
<1>4. Release!TypeOK
  <2>1. rEntry \in [Payees -> Release!EntryRecord]
    BY <1>1, <1>3 DEF Release!Init
  <2> QED
    BY <1>1, <2>1, IdleCall DEF Release!Init, Release!TypeOK
<1>5. \A t \in Callers : CallOK(t)
  BY <1>1, IdleCall DEF Release!Init, CallOK
<1> QED
  BY <1>3, <1>4, <1>5 DEF ReleaseInv

LEMMA ReleaseInvNext ==
  ASSUME ReleaseInv, Release!ReleaseConstants, [Release!Next]_Release!vars
  PROVE  ReleaseInv'
<1>1. CASE UNCHANGED Release!vars
  <2>1. UNCHANGED <<rEntry, blocked, released, rCycleStatus, lock, call>>
    BY <1>1 DEF Release!vars
  <2>2. \A t \in Callers : CallOK(t)'
    BY <2>1, OthersKept DEF ReleaseInv
  <2> QED
    BY <2>1, <2>2 DEF ReleaseInv, Release!TypeOK
<1>2. ASSUME NEW t \in Callers, Release!StartAll(t) \/ Release!StartSweep(t) \/ Release!RefuseSweep(t) \/ Release!Serve(t)
      PROVE  ReleaseInv'
  BY <1>2, AllStarted, SweepStarted, RequestOver, SweepCommitted, SweepFailed, PassedOver DEF Release!Serve
<1>3. ASSUME NEW t \in Callers, NEW u \in Units, Release!OpenPage(t, u)  PROVE ReleaseInv'
  BY <1>3, PageOpened
<1>4. CASE Release!Edit
  BY <1>4, EntryEdited, RegistryEdited DEF Release!Edit, EditOf
<1>5. CASE Release!Finalize
  BY <1>5, CycleFinalized
<1> QED
  BY <1>1, <1>2, <1>3, <1>4, <1>5 DEF Release!Next

LEMMA ReleaseInvAlways ==
  ASSUME Release!ReleaseConstants
  PROVE  Release!Spec => []ReleaseInv
<1>1. Release!ReleaseConstants
  OBVIOUS
<1>2. ReleaseInv /\ [Release!Next]_Release!vars => ReleaseInv'
  BY <1>1, ReleaseInvNext
<1> QED
  BY <1>2, ReleaseInvInit, PTL DEF Release!Spec

-----------------------------------------------------------------------------
(* What follows. *)

(* Release All leaves nobody behind: when it answers and no unit failed, every entry it  *)
(* found ready and nobody edited since is resolved, whatever units other requests        *)
(* released, whatever entries they resolved, and however entries are split over units.   *)
THEOREM EveryoneReleased ==
  ASSUME Release!ReleaseConstants
  PROVE  Release!Spec => AllReleased
<1>1. ReleaseInv => [Release!AnswerStep]_rvars
  <2>1. SUFFICES ASSUME ReleaseInv, NEW t \in Callers, Release!AnswerAll(t), call[t].failed = {}, NEW e \in call[t].due
        PROVE  rEntry[e].state = "RESOLVED"
    BY DEF Release!AnswerStep
  <2>2. call[t].pc = "loop" /\ call[t].pending = {}
    BY <2>1 DEF Release!AnswerAll
  <2> QED
    BY <2>1, <2>2 DEF ReleaseInv, CallOK, Owed
<1> QED
  BY <1>1, ReleaseInvAlways, PTL DEF Release!Spec, AllReleased

(* A finalized cycle stays settled: whoever was open then stays unresolved, for a sweep  *)
(* under way holds the lock that finalizing waits for.                                   *)
LEMMA SettledNext ==
  ASSUME ReleaseInv, [Release!Next]_Release!vars
  PROVE  Release!SettledStep
<1>1. SUFFICES ASSUME rCycleStatus = "RELEASED", NEW e \in Payees, rEntry[e].state = "OPEN",
                      rEntry'[e].state = "RESOLVED"
      PROVE  FALSE
  BY DEF Release!SettledStep
<1>2. rEntry' # rEntry
  BY <1>1
<1>3. ASSUME NEW t \in Callers, Release!CommitSweep(t)  PROVE FALSE
  BY <1>1, <1>3 DEF Release!CommitSweep, ReleaseInv, CallOK
<1>4. ASSUME NEW x \in Payees, EditOf(x)  PROVE FALSE
  <2>1. PICK row \in Release!EntryRecord : Writes(x, row)
    BY <1>4, EditWrites
  <2> QED
    BY <1>1, <2>1, Rewrites DEF Writes, ReleaseInv
<1>5. CASE Release!Edit
  <2>1. \E x \in Payees : EditOf(x) \/ Release!EditRegistry(x)
    BY <1>5 DEF Release!Edit, EditOf
  <2> QED
    BY <1>2, <1>4, <2>1 DEF Release!EditRegistry
<1> QED
  BY <1>2, <1>3, <1>5, Zenon DEF Release!Next, Release!Serve, Release!StartAll, Release!StartSweep, Release!SweepNext,
     Release!Sweep, Release!RefuseSweep, Release!FailSweep, Release!PassOver,
     Release!AnswerAll, Release!OpenPage, Release!Finalize, Release!vars

(* While every edit waits for a sweep to end, what the operator saw is what is swept.    *)
SeenOK == \A t \in Callers : call[t].pc = "sweeping" /\ call[t].kind = "unit" =>
            \A e \in call[t].taken : call[t].seen[e] # -1 => rEntry[e].version = call[t].seen[e]

(* While no line is added or moved under a sweep, all other units of what it takes, and  *)
(* all units of what is resolved, are released.                                          *)
SplitsOK == /\ Release!ResolvedWaitsForAllUnits
            /\ \A t \in Callers : call[t].pc = "sweeping" =>
                  \A e \in call[t].taken : rEntry[e].lines \ {call[t].unit} \subseteq released

(* A step that begins or continues a sweep. *)
LEMMA SweepTakes ==
  ASSUME Release!TypeOK, NEW t \in Callers, Release!StartSweep(t) \/ Release!SweepNext(t)
  PROVE  \E u : LET q == call'[t] IN
           /\ q.pc = "sweeping" /\ q.unit = u /\ q.taken = Release!ToRelease(u) \ blocked /\ q.seen = call[t].seen
           /\ Release!StartSweep(t) => u = call[t].unit
           /\ q.kind = call[t].kind
           /\ \A x \in Callers \ {t} : call'[x] = call[x]
           /\ UNCHANGED <<rEntry, blocked, released>>
<1>1. PICK c \in Release!CallRecord : c = call[t]
  BY DEF Release!TypeOK
<1>2. PICK u : Release!Sweep(t, u) /\ (Release!StartSweep(t) => u = c.unit)
  BY <1>1 DEF Release!StartSweep, Release!SweepNext
<1>3. PICK q : q = [c EXCEPT !.pc = "sweeping", !.unit = u, !.taken = Release!ToRelease(u) \ blocked]
  OBVIOUS
<1>4. /\ q.pc = "sweeping" /\ q.unit = u /\ q.taken = Release!ToRelease(u) \ blocked /\ q.seen = c.seen /\ q.kind = c.kind
  BY <1>3 DEF Release!CallRecord
<1>5. call' = [call EXCEPT ![t] = q] /\ UNCHANGED <<rEntry, blocked, released>>
  BY <1>1, <1>2, <1>3 DEF Release!Sweep, Release!TypeOK
<1> QED
  BY <1>1, <1>2, <1>4, <1>5 DEF Release!TypeOK

(* The steps that touch no entry and no sweep, and those that only end one. *)
LEMMA QuietSweeps ==
  ASSUME ReleaseInv, NEW t \in Callers,
         \/ \E u \in Units : Release!OpenPage(t, u)
         \/ Release!RefuseSweep(t) \/ Release!FailSweep(t) \/ Release!StartAll(t) \/ Release!PassOver(t) \/ Release!AnswerAll(t)
  PROVE  /\ UNCHANGED <<rEntry, blocked, released>>
         /\ \A x \in Callers : call'[x].pc = "sweeping" => call'[x] = call[x]
<1>1. PICK c \in Release!CallRecord : c = call[t]
  BY DEF ReleaseInv, Release!TypeOK
<1>2. UNCHANGED <<rEntry, blocked, released>>
  BY Zenon DEF Release!OpenPage, Release!RefuseSweep, Release!FailSweep, Release!StartAll, Release!PassOver,
     Release!AnswerAll
<1>3. \E q : call' = [call EXCEPT ![t] = q] /\ q.pc # "sweeping"
  <2>1. Release!Idle \in Release!CallRecord /\ Release!Idle.pc = "idle"
    BY IdleCall
  <2>2. ASSUME NEW u \in Units, Release!OpenPage(t, u)
        PROVE  \E q : call' = [call EXCEPT ![t] = q] /\ q.pc = "page"
    <3>1. PICK q : /\ q = [Release!Idle EXCEPT !.kind = "unit", !.pc = "page", !.unit = u, !.seen = Release!ExpectedVersions(u)]
                   /\ call' = [call EXCEPT ![t] = q]
      BY <2>2 DEF Release!OpenPage
    <3>2. q.pc = "page"
      BY <2>1, <3>1 DEF Release!CallRecord
    <3> QED
      BY <3>1, <3>2
  <2>3. ASSUME Release!RefuseSweep(t) \/ Release!AnswerAll(t)
        PROVE  \E q : call' = [call EXCEPT ![t] = q] /\ q.pc = "idle"
    BY <2>1, <2>3 DEF Release!RefuseSweep, Release!AnswerAll
  <2>4. ASSUME Release!StartAll(t)  PROVE \E q : call' = [call EXCEPT ![t] = q] /\ q.pc = "loop"
    <3>1. PICK pending, due : call' = [call EXCEPT ![t] =
             [Release!Idle EXCEPT !.kind = "all", !.pc = "loop", !.pending = pending, !.heldAtStart = Release!Held, !.due = due]]
      BY <2>4, Zenon DEF Release!StartAll
    <3>2. PICK q : q = [Release!Idle EXCEPT !.kind = "all", !.pc = "loop", !.pending = pending, !.heldAtStart = Release!Held, !.due = due]
      OBVIOUS
    <3>3. q.pc = "loop"
      BY <2>1, <3>2 DEF Release!CallRecord
    <3> QED
      BY <3>1, <3>2, <3>3
  <2>5. ASSUME Release!PassOver(t)  PROVE \E q : call' = [call EXCEPT ![t] = q] /\ q.pc = "loop"
    <3>1. PICK u : u = Release!NextUnit(t)
      OBVIOUS
    <3>2. PICK q : /\ call' = [call EXCEPT ![t] = q]
                   /\ \/ q = [c EXCEPT !.pending = @ \ {u}, !.failed = @ \cup {u}]
                      \/ q = [c EXCEPT !.pending = @ \ {u}]
      BY <1>1, <2>5, <3>1 DEF Release!PassOver, ReleaseInv, Release!TypeOK
    <3>3. q.pc = "loop"
      BY <1>1, <2>5, <3>2 DEF Release!PassOver, Release!CallRecord
    <3> QED
      BY <3>2, <3>3
  <2>6. ASSUME Release!FailSweep(t)
        PROVE  \E q : call' = [call EXCEPT ![t] = q] /\ q.pc \in {"loop", "idle"}
    <3>1. PICK q : call' = [call EXCEPT ![t] = q] /\ (q = Release!AfterFailure(c) \/ q = Release!Idle)
      BY <1>1, <2>6 DEF Release!FailSweep, ReleaseInv, Release!TypeOK
    <3>2. Release!AfterFailure(c).pc = "loop"
      BY DEF Release!AfterFailure, Release!CallRecord
    <3> QED
      BY <2>1, <3>1, <3>2, Zenon
  <2> QED
    BY <2>2, <2>3, <2>4, <2>5, <2>6
<1>4. PICK q : call' = [call EXCEPT ![t] = q] /\ q.pc # "sweeping"
  BY <1>3
<1> QED
  BY <1>2, <1>4 DEF ReleaseInv, Release!TypeOK

(* A sweep that commits is over, and was the only one. *)
LEMMA SweepOver ==
  ASSUME ReleaseInv, Release!ReleaseConstants, NEW t \in Callers, Release!CommitSweep(t)
  PROVE  /\ \A x \in Callers : call'[x].pc # "sweeping"
         /\ call[t].taken \subseteq Payees
         /\ \A e \in call[t].taken : rEntry'[e].lines = rEntry[e].lines
         /\ \A e \in Payees \ call[t].taken : rEntry'[e] = rEntry[e]
         /\ released' = released \cup {call[t].unit} /\ call[t].pc = "sweeping"
<1>1. PICK c \in Release!CallRecord : c = call[t]
  BY DEF ReleaseInv, Release!TypeOK
<1>2. /\ c.pc = "sweeping" /\ rEntry' = Release!Resolve(rEntry, c.taken) /\ released' = released \cup {c.unit}
      /\ call' = [call EXCEPT ![t] = IF c.kind = "all" THEN Release!Counted(c) ELSE Release!Idle]
  BY <1>1 DEF Release!CommitSweep, ReleaseInv, Release!TypeOK
<1>3. Release!Counted(c).pc = "loop" /\ Release!Idle.pc = "idle" /\ c.taken \subseteq Payees
  BY IdleCall DEF Release!Counted, Release!CallRecord
<1>4. \A x \in Callers \ {t} : call[x].pc # "sweeping"
  BY <1>1, <1>2 DEF ReleaseInv, CallOK
<1>5. \A x \in Callers : call'[x].pc # "sweeping"
  BY <1>2, <1>3, <1>4 DEF ReleaseInv, Release!TypeOK
<1> QED
  BY <1>1, <1>2, <1>3, <1>5, Resolved DEF ReleaseInv

LEMMA SplitsNext ==
  ASSUME ReleaseInv, Release!ReleaseConstants, Release!LinesWait, SplitsOK, [Release!Next]_Release!vars
  PROVE  SplitsOK'
<1>1. ASSUME UNCHANGED <<rEntry, released>>,
             \A x \in Callers : call'[x].pc = "sweeping" => call'[x] = call[x]
      PROVE  SplitsOK'
  BY <1>1 DEF SplitsOK, Release!ResolvedWaitsForAllUnits
<1>2. ASSUME NEW t \in Callers, Release!StartSweep(t) \/ Release!SweepNext(t)  PROVE SplitsOK'
  <2>1. PICK u : /\ call'[t].unit = u /\ call'[t].taken = Release!ToRelease(u) \ blocked
                 /\ \A x \in Callers \ {t} : call'[x] = call[x]
                 /\ UNCHANGED <<rEntry, blocked, released>>
    BY <1>2, SweepTakes DEF ReleaseInv
  <2>2. \A e \in Release!ToRelease(u) : rEntry[e].lines \ {u} \subseteq released
    BY DEF Release!ToRelease, Release!LastUnit
  <2> QED
    BY <2>1, <2>2 DEF SplitsOK, Release!ResolvedWaitsForAllUnits
<1>3. ASSUME NEW t \in Callers, Release!CommitSweep(t)  PROVE SplitsOK'
  BY <1>3, SweepOver DEF SplitsOK, Release!ResolvedWaitsForAllUnits
<1>4. ASSUME NEW e \in Payees, EditOf(e)  PROVE SplitsOK'
  <2>1. PICK row \in Release!EntryRecord : Writes(e, row)
    BY <1>4, EditWrites
  <2>2. /\ rEntry'[e].state = row.state /\ rEntry'[e].lines = row.lines
        /\ \A x \in Payees \ {e} : rEntry'[x] = rEntry[x]
        /\ call' = Release!NoLongerDue(e) /\ UNCHANGED released
    BY <2>1, Rewrites DEF Writes, ReleaseInv
  <2>3. \A u \in Callers : /\ call'[u].pc = call[u].pc /\ call'[u].unit = call[u].unit
                            /\ call'[u].taken = call[u].taken /\ call[u].taken \subseteq Payees
    BY <2>2, NoLongerOwed DEF ReleaseInv, Release!TypeOK, Release!CallRecord
  <2>4. row.lines \subseteq rEntry[e].lines \/ \A u \in Callers : call[u].pc # "sweeping"
    <3>1. ASSUME ~(row.lines \subseteq rEntry[e].lines)  PROVE lock = None
      BY <2>1, <3>1 DEF Writes, Release!Allowed, Release!LinesWait
    <3> QED
      BY <3>1 DEF ReleaseInv, CallOK, Release!ReleaseConstants
  <2> QED
    BY <2>1, <2>2, <2>3, <2>4 DEF SplitsOK, Release!ResolvedWaitsForAllUnits, Writes
<1>5. ASSUME NEW e \in Payees, Release!EditRegistry(e)  PROVE SplitsOK'
  <2>1. UNCHANGED <<rEntry, released>> /\ call' = Release!NoLongerDue(e)
    BY <1>5 DEF Release!EditRegistry
  <2>2. \A u \in Callers : /\ call'[u].pc = call[u].pc /\ call'[u].unit = call[u].unit
                            /\ call'[u].taken = call[u].taken
    BY <2>1, NoLongerOwed DEF ReleaseInv
  <2> QED
    BY <2>1, <2>2 DEF SplitsOK, Release!ResolvedWaitsForAllUnits
<1>6. ASSUME NEW t \in Callers,
             \/ \E u \in Units : Release!OpenPage(t, u)
             \/ Release!RefuseSweep(t) \/ Release!FailSweep(t) \/ Release!StartAll(t) \/ Release!PassOver(t) \/ Release!AnswerAll(t)
      PROVE  SplitsOK'
  BY <1>1, <1>6, QuietSweeps
<1>7. CASE Release!Finalize \/ UNCHANGED Release!vars
  BY <1>1, <1>7 DEF Release!Finalize, Release!vars
<1> QED
  BY <1>2, <1>3, <1>4, <1>5, <1>6, <1>7 DEF Release!Next, Release!Serve, Release!Edit, EditOf

LEMMA SeenNext ==
  ASSUME ReleaseInv, Release!ReleaseConstants, Release!EditsWait, SeenOK, [Release!Next]_Release!vars
  PROVE  SeenOK'
<1>1. ASSUME UNCHANGED rEntry,
             \A x \in Callers : call'[x].pc = "sweeping" => call'[x] = call[x]
      PROVE  SeenOK'
  BY <1>1 DEF SeenOK
<1>2. ASSUME NEW t \in Callers, Release!StartSweep(t) \/ Release!SweepNext(t)  PROVE SeenOK'
  <2>1. PICK u : /\ call'[t].taken = Release!ToRelease(u) \ blocked /\ call'[t].seen = call[t].seen
                 /\ call'[t].kind = call[t].kind
                 /\ \A x \in Callers \ {t} : call'[x] = call[x]
                 /\ UNCHANGED rEntry
    BY <1>2, SweepTakes DEF ReleaseInv
  <2>2. ASSUME call[t].kind = "unit", NEW e \in Release!ToRelease(u), call[t].seen[e] # -1
        PROVE  rEntry[e].version = call[t].seen[e]
    <3>1. Release!StartSweep(t)
      BY <1>2, <2>2 DEF Release!SweepNext, ReleaseInv, CallOK
    <3>2. e \in Payees
      BY DEF Release!ToRelease, Release!Candidates, Release!Touching
    <3> QED
      BY <2>2, <3>1, <3>2 DEF Release!StartSweep, Release!AsSeen
  <2> QED
    BY <2>1, <2>2 DEF SeenOK
<1>3. ASSUME NEW t \in Callers, Release!CommitSweep(t)  PROVE SeenOK'
  BY <1>3, SweepOver DEF SeenOK
<1>4. ASSUME NEW e \in Payees, EditOf(e) \/ Release!EditRegistry(e)  PROVE SeenOK'
  <2>1. \E kind \in Edits : Release!Allowed(kind)
    BY <1>4, EditWrites DEF Writes, Release!EditRegistry, Release!Allowed
  <2>2. \A u \in Callers : call[u].pc # "sweeping"
    BY <2>1 DEF Release!Allowed, Release!EditsWait, ReleaseInv, CallOK, Release!ReleaseConstants
  <2>3. call' = Release!NoLongerDue(e)
    BY <1>4, EditWrites, Rewrites DEF Writes, Release!EditRegistry, ReleaseInv
  <2> QED
    BY <2>2, <2>3, NoLongerOwed DEF SeenOK, ReleaseInv
<1>5. ASSUME NEW t \in Callers,
             \/ \E u \in Units : Release!OpenPage(t, u)
             \/ Release!RefuseSweep(t) \/ Release!FailSweep(t) \/ Release!StartAll(t) \/ Release!PassOver(t) \/ Release!AnswerAll(t)
      PROVE  SeenOK'
  BY <1>1, <1>5, QuietSweeps
<1>6. CASE Release!Finalize \/ UNCHANGED Release!vars
  BY <1>1, <1>6 DEF Release!Finalize, Release!vars
<1> QED
  BY <1>2, <1>3, <1>4, <1>5, <1>6 DEF Release!Next, Release!Serve, Release!Edit, EditOf

(* A split entry is resolved only when every unit it names is released, in whatever      *)
(* order the units are released and however the sweeps overlap the edits, where no line  *)
(* is added or moved under a sweep; and what the page of a unit shows is what a sweep    *)
(* of it would take.                                                                     *)
THEOREM SweepsMatchUnits ==
  ASSUME Release!ReleaseConstants, Release!LinesWait
  PROVE  Release!Spec => []SweepMatchesUnits
<1>1. Release!ReleaseConstants /\ Release!LinesWait
  OBVIOUS
<1>2. Release!Init /\ ReleaseInv => SplitsOK
  <2>1. ASSUME Release!Init, NEW e \in Payees  PROVE rEntry[e].state = "OPEN"
    BY <2>1 DEF Release!Init, Release!NewEntry
  <2> QED
    BY <2>1, IdleCall DEF Release!Init, SplitsOK, Release!ResolvedWaitsForAllUnits
<1>3. ReleaseInv /\ SplitsOK /\ [Release!Next]_Release!vars => SplitsOK'
  BY <1>1, SplitsNext
<1>4. ReleaseInv /\ SplitsOK => SweepMatchesUnits
  <2>1. ASSUME ReleaseInv  PROVE Release!PageMatchesSweep
    <3>1. \A e \in Payees : rEntry[e].state \in {"NONE", "OPEN", "RESOLVED"}
      BY <2>1 DEF ReleaseInv, Release!TypeOK, Release!EntryRecord
    <3>2. ASSUME NEW u \in Units
          PROVE  Release!WillRelease(u) = Release!ToRelease(u) /\ Release!HeldAt(u) \cap Release!WillRelease(u) = {}
      BY <3>1 DEF Release!WillRelease, Release!ToRelease, Release!Candidates, Release!LastUnit,
         Release!Touching, Release!HeldAt
    <3> QED
      BY <3>2 DEF Release!PageMatchesSweep, Release!NothingNew
  <2> QED
    BY <2>1 DEF ReleaseInv, SplitsOK, SweepMatchesUnits, Release!SweepMatchesUnits
<1>5. Release!Spec => []ReleaseInv
  BY <1>1, ReleaseInvAlways
<1> QED
  BY <1>2, <1>3, <1>4, <1>5, PTL DEF Release!Spec

(* Nothing the operator saw is swept in another form: what a sweep of one unit resolves  *)
(* has the version the page showed, where edits wait for a sweep under way; and a sweep  *)
(* resolves nothing once the cycle is finalized.                                         *)
THEOREM SweptAlwaysAsShown ==
  ASSUME Release!ReleaseConstants, Release!EditsWait
  PROVE  Release!Spec => Release!SweptAsShown
<1>1. Release!ReleaseConstants /\ Release!EditsWait
  OBVIOUS
<1>2. Release!Init => SeenOK
  BY IdleCall DEF Release!Init, SeenOK
<1>3. ReleaseInv /\ SeenOK /\ [Release!Next]_Release!vars => SeenOK'
  BY <1>1, SeenNext
<1>4. ReleaseInv /\ SeenOK /\ [Release!Next]_Release!vars => [Release!SeenStep /\ Release!SettledStep]_Release!vars
  BY SettledNext DEF SeenOK, Release!SeenStep, Release!CommitSweep
<1>5. Release!Spec => []ReleaseInv
  BY <1>1, ReleaseInvAlways
<1> QED
  BY <1>2, <1>3, <1>4, <1>5, PTL DEF Release!Spec, Release!SweptAsShown

=============================================================================
