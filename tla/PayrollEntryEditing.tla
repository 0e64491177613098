-------------------------- MODULE PayrollEntryEditing --------------------------
(***************************************************************************)
(* Edits of the payroll entries of one cycle: a field, the work lines      *)
(* (unit, days, cycle days), the employee's new assignment, deletion, and  *)
(* the bulk update of all entries; beside them the release of an entry,    *)
(* the transfer of an employee and the archive of the cycle.               *)
(*                                                                         *)
(* A request reads the entry, is checked, and commits later in a           *)
(* transaction guarded by the version it was sent with: the version is the *)
(* one read, since a request sent with an older one ends in a refusal. A   *)
(* bulk update has no version. The lines of an entry are ordered by their  *)
(* numbers; the first is its primary line.                                 *)
(***************************************************************************)
EXTENDS Integers, FiniteSets, Functions, FiniteSetsExt

CONSTANTS
    Entries,        \* one per employee
    Units,          \* ProjectUnit
    SiteOf,         \* ProjectUnit.siteId
    Lines,          \* numbers of work lines; none is used twice
    MaxDays,        \* bound: days of a line
    Bases,          \* PayrollEntryWorkLine.cycleDays
    Rates,          \* values of a field of the entry, leaveRate
    Callers,        \* requests that run at the same time
    MaxVersion,     \* bound: edits of one entry
    BulkOverlaps,   \* whether anything happens between a bulk update's read and its writes
    None            \* no entry

ASSUME UnitsAssumption == DOMAIN SiteOf = Units
ASSUME LinesAssumption == Lines \subseteq Nat \ {0} /\ IsFiniteSet(Lines)
ASSUME DaysAssumption  == MaxDays \in Nat /\ Bases \subseteq Nat \ {0} /\ MaxVersion \in Nat
ASSUME OtherAssumption == BulkOverlaps \in BOOLEAN /\ None \notin Entries

VARIABLES
    entry,          \* PayrollEntry by employee
    line,           \* PayrollEntryWorkLine by number
    used,           \* the numbers given to lines so far
    assigned,       \* Employee.unitId, and with it siteId
    archived,       \* whether the cycle is archived
    call            \* what each caller is doing

vars == <<entry, line, used, assigned, archived, call>>

-----------------------------------------------------------------------------
(* Rows and requests. *)

Sites       == {SiteOf[u] : u \in Units}
EntryRecord == [present : BOOLEAN, resolved : BOOLEAN, site : Sites, rate : Rates, version : Nat]
LineRecord  == [entry : Entries \cup {None}, unit : Units, days : 0 .. MaxDays, basis : Bases]
NewEntry(s, r) == [present |-> TRUE, resolved |-> FALSE, site |-> s, rate |-> r, version |-> 0]
Fields      == {"unit", "days", "basis"}
Unread      == [present |-> FALSE, resolved |-> FALSE, site |-> CHOOSE s \in Sites : TRUE,
                rate |-> CHOOSE r \in Rates : TRUE, version |-> 0]
Deleted     == [entry |-> None, unit |-> CHOOSE u \in Units : TRUE, days |-> 0,
                basis |-> CHOOSE b \in Bases : TRUE]

LinesOf(e)  == [l \in {k \in Lines : line[k].entry = e} |-> line[l]]
Primary(e)  == Min(DOMAIN LinesOf(e))
Now(e)      == [row |-> entry[e], lines |-> LinesOf(e)]

(* The days of all lines together stay within the most generous cycle days. *)
Fits(L) == \/ DOMAIN L = {}
           \/ SumFunction([l \in DOMAIN L |-> L[l].days]) <= Max({L[l].basis : l \in DOMAIN L})

(* seen: the entry as the request read it. change: the field of a line it sets. fresh: the   *)
(* assignment read in the transaction. matched: what a bulk update read of the entries it    *)
(* will write.                                                                               *)
Idle == [kind |-> "none", pc |-> "idle", entry |-> None, line |-> 0, change |-> <<"none", 0>>,
         seen |-> [row |-> Unread, lines |-> <<>>], fresh |-> {}, matched |-> <<>>]
Versioned == {"edit", "add", "update", "remove", "assign", "delete"}
Steps     == {"idle", "count", "fresh", "write", "match", "bulk"}

Step(t, r)           == call' = [call EXCEPT ![t] = r]
Read(k, p, e, l, c)  == [Idle EXCEPT !.kind = k, !.pc = p, !.entry = e, !.line = l, !.change = c,
                                     !.seen = Now(e)]

Init ==
    /\ entry \in [Entries -> {NewEntry(s, r) : s \in Sites, r \in Rates}]
    /\ line \in [Lines -> LineRecord]
    /\ used = {l \in Lines : line[l].entry # None}
    /\ \A l \in Lines : line[l].entry = None => line[l] = Deleted
    /\ \A l \in used : SiteOf[line[l].unit] = entry[line[l].entry].site
    /\ \A l, k \in used : line[l].entry = line[k].entry /\ line[l].unit = line[k].unit => l = k
    /\ \A e \in Entries : DOMAIN LinesOf(e) # {} /\ Fits(LinesOf(e))
    /\ assigned \in [Entries -> Units]
    /\ archived = FALSE
    /\ call = [t \in Callers |-> Idle]

(* An entry takes edits until it is resolved or archived (the first form,    *)
(* for comparison, looks at paid entries' cycles only).                      *)
EditableUnlessArchived(e) == entry[e].present /\ ~archived
Editable(e)               == entry[e].present /\ ~entry[e].resolved /\ ~archived

Receives(t, e) == call[t].pc = "idle" /\ Editable(e) /\ entry[e].version < MaxVersion

-----------------------------------------------------------------------------
(* Requests: read, and check what can be checked before the transaction. *)

RequestEdit(t, e, r) ==
    /\ Receives(t, e) /\ r # entry[e].rate
    /\ Step(t, Read("edit", "write", e, 0, <<"rate", r>>))
    /\ UNCHANGED <<entry, line, used, assigned, archived>>

RequestAdd(t, e, u) ==
    /\ Receives(t, e) /\ SiteOf[u] = entry[e].site
    /\ Step(t, Read("add", "write", e, 0, <<"unit", u>>))
    /\ UNCHANGED <<entry, line, used, assigned, archived>>

RequestUpdate(t, l, f, v) ==
    LET e == line[l].entry IN
    /\ e # None /\ Receives(t, e)
    /\ f = "unit" => SiteOf[v] = entry[e].site
    /\ Step(t, Read("update", "write", e, l, <<f, v>>))
    /\ UNCHANGED <<entry, line, used, assigned, archived>>

RequestRemove(t, l) ==
    /\ line[l].entry # None /\ Receives(t, line[l].entry)
    /\ Step(t, Read("remove", "count", line[l].entry, l, <<"none", 0>>))
    /\ UNCHANGED <<entry, line, used, assigned, archived>>

(* The employee's new assignment is applied to an entry with a single line   *)
(* and nothing worked on it.                                                 *)
NotWorked(l) == line[l].days = 0

RequestAssign(t, e) ==
    /\ Receives(t, e)
    /\ Cardinality(DOMAIN LinesOf(e)) = 1
    /\ line[Primary(e)].unit # assigned[e]
    /\ NotWorked(Primary(e))
    /\ Step(t, Read("assign", "fresh", e, Primary(e), <<"none", 0>>))
    /\ UNCHANGED <<entry, line, used, assigned, archived>>

RequestDelete(t, e) ==
    /\ Receives(t, e)
    /\ Step(t, Read("delete", "write", e, 0, <<"none", 0>>))
    /\ UNCHANGED <<entry, line, used, assigned, archived>>

(* The cycle's status is read here, the entries later; in an archived cycle  *)
(* nothing will match.                                                       *)
RequestBulk(t, f, v) ==
    /\ call[t].pc = "idle"
    /\ Step(t, [Idle EXCEPT !.kind = IF archived THEN "none" ELSE "bulk", !.pc = "match", !.change = <<f, v>>])
    /\ UNCHANGED <<entry, line, used, assigned, archived>>

-----------------------------------------------------------------------------
(* What a transaction reads before it writes. *)

(* More than one line is left, counted before the version is checked.        *)
CountLines(t) ==
    /\ call[t].pc = "count"
    /\ Step(t, IF Cardinality(DOMAIN LinesOf(call[t].entry)) > 1
               THEN [call[t] EXCEPT !.pc = "write"] ELSE Idle)
    /\ UNCHANGED <<entry, line, used, assigned, archived>>

ReadFresh(t) ==
    LET l == call[t].line IN
    /\ call[t].pc = "fresh"
    /\ Step(t, IF line[l].entry # None /\ NotWorked(l)
               THEN [call[t] EXCEPT !.pc = "write", !.fresh = {assigned[call[t].entry]}] ELSE Idle)
    /\ UNCHANGED <<entry, line, used, assigned, archived>>

(* What the lines of an entry would be if its primary line had basis b.      *)
Rebased(e, b) == [l \in DOMAIN LinesOf(e) |-> IF l = Primary(e) THEN [line[l] EXCEPT !.basis = b] ELSE line[l]]

(* The entries that are open, with their primary line and the value about to *)
(* be overwritten; one entry that would not fit refuses the whole update.    *)
Match(t) ==
    LET f    == call[t].change[1]
        v    == call[t].change[2]
        Open == {e \in Entries : call[t].kind = "bulk" /\ entry[e].present /\ ~entry[e].resolved /\ entry[e].version < MaxVersion}
    IN
    /\ call[t].pc = "match"
    /\ Step(t, IF Open = {} \/ (f = "basis" /\ \E e \in Open : ~Fits(Rebased(e, v)))
               THEN Idle
               ELSE [call[t] EXCEPT !.pc = "bulk", !.matched =
                       [e \in Open |-> [line |-> Primary(e),
                                        old  |-> IF f = "rate" THEN entry[e].rate
                                                 ELSE line[Primary(e)].basis]]])
    /\ UNCHANGED <<entry, line, used, assigned, archived>>

-----------------------------------------------------------------------------
(* The writes, guarded by the version. *)

(* The first form, for comparison, writes whatever the version is.           *)
AnyVersion(t)  == entry[call[t].entry].present
SameVersion(t) == entry[call[t].entry].present /\ entry[call[t].entry].version = call[t].seen.row.version

Touched(e)     == [entry EXCEPT ![e].version = @ + 1]

(* The lines are checked as they are after the write, in the transaction.    *)
AsWritten(t, M)   == Fits([l \in {k \in Lines : M[k].entry = call[t].entry} |-> M[l]])

(* A unit is named by one line of an entry at most.                          *)
Distinct(M) == \A l, k \in Lines : M[l].entry = M[k].entry /\ M[l].entry # None /\ M[l].unit = M[k].unit => l = k

WriteLines(t, M) ==
    IF SameVersion(t) /\ Distinct(M) /\ AsWritten(t, M)
    THEN entry' = Touched(call[t].entry) /\ line' = M
    ELSE UNCHANGED <<entry, line>>

CommitEdit(t) ==
    /\ call[t].kind = "edit" /\ call[t].pc = "write"
    /\ entry' = IF SameVersion(t)
                THEN [Touched(call[t].entry) EXCEPT ![call[t].entry].rate = call[t].change[2]] ELSE entry
    /\ Step(t, Idle)
    /\ UNCHANGED <<line, used, assigned, archived>>

CommitAdd(t) ==
    /\ call[t].kind = "add" /\ call[t].pc = "write"
    /\ \E l \in Lines \ used : \E d \in 0 .. MaxDays : \E b \in Bases :
         /\ l = Min(Lines \ used)
         /\ used' = used \cup {l}
         /\ WriteLines(t, [line EXCEPT ![l] = [entry |-> call[t].entry, unit |-> call[t].change[2],
                                               days |-> d, basis |-> b]])
    /\ Step(t, Idle)
    /\ UNCHANGED <<assigned, archived>>

(* A field of a line set to a value.                                        *)
Changed(k, f, v) == [k EXCEPT !.unit  = IF f = "unit" THEN v ELSE @,
                              !.days  = IF f = "days" THEN v ELSE @,
                              !.basis = IF f = "basis" THEN v ELSE @]

CommitUpdate(t) ==
    LET l == call[t].line IN
    /\ call[t].kind = "update" /\ call[t].pc = "write"
    /\ IF line[l].entry = None
       THEN UNCHANGED <<entry, line>>
       ELSE WriteLines(t, [line EXCEPT ![l] = Changed(line[l], call[t].change[1], call[t].change[2])])
    /\ Step(t, Idle)
    /\ UNCHANGED <<used, assigned, archived>>

(* Without its most generous line an entry may no longer fit.                *)
CommitRemove(t) ==
    /\ call[t].kind = "remove" /\ call[t].pc = "write"
    /\ WriteLines(t, [line EXCEPT ![call[t].line] = Deleted])
    /\ Step(t, Idle)
    /\ UNCHANGED <<used, assigned, archived>>

CommitAssign(t) ==
    /\ call[t].kind = "assign" /\ call[t].pc = "write"
    /\ \E u \in call[t].fresh :
         IF SameVersion(t)
         THEN /\ entry' = [Touched(call[t].entry) EXCEPT ![call[t].entry].site = SiteOf[u]]
              /\ line' = [line EXCEPT ![call[t].line].unit = u]
         ELSE UNCHANGED <<entry, line>>
    /\ Step(t, Idle)
    /\ UNCHANGED <<used, assigned, archived>>

(* The lines go with their entry.                                            *)
CommitDelete(t) ==
    LET e == call[t].entry IN
    /\ call[t].kind = "delete" /\ call[t].pc = "write"
    /\ IF SameVersion(t)
       THEN /\ entry' = [entry EXCEPT ![e].present = FALSE]
            /\ line' = [l \in Lines |-> IF line[l].entry = e THEN Deleted ELSE line[l]]
       ELSE UNCHANGED <<entry, line>>
    /\ Step(t, Idle)
    /\ UNCHANGED <<used, assigned, archived>>

(* The bulk update writes rows by id; each entry it writes gets a version of *)
(* its own (the first form, for comparison, leaves the version).             *)
SameVersionAfter(r) == r
BulkVersion(r)      == [r EXCEPT !.version = @ + 1]

CommitBulk(t) ==
    LET f == call[t].change[1]
        v == call[t].change[2]
        W == {e \in DOMAIN call[t].matched : entry[e].present}
        P == {l \in Lines : line[l].entry # None /\ \E e \in DOMAIN call[t].matched : call[t].matched[e].line = l}
    IN
    /\ call[t].pc = "bulk"
    /\ entry' = [e \in Entries |->
                   IF e \notin W THEN entry[e]
                   ELSE BulkVersion(IF f = "rate" THEN [entry[e] EXCEPT !.rate = v] ELSE entry[e])]
    /\ line' = IF f = "rate" THEN line
               ELSE [l \in Lines |-> IF l \in P THEN [line[l] EXCEPT !.basis = v] ELSE line[l]]
    /\ Step(t, Idle)
    /\ UNCHANGED <<used, assigned, archived>>

(* A transaction ends with an error, a deadlock among them: a line is locked *)
(* before its entry by a bulk update, after it by all others.                *)
Abort(t) ==
    /\ call[t].pc \in {"count", "fresh", "write", "match", "bulk"}
    /\ Step(t, Idle)
    /\ UNCHANGED <<entry, line, used, assigned, archived>>

-----------------------------------------------------------------------------
(* The others. *)

(* A sweep does not resolve an entry whose days do not fit.                  *)
Release(e) ==
    /\ Editable(e) /\ Fits(LinesOf(e))
    /\ entry' = [Touched(e) EXCEPT ![e].resolved = TRUE]
    /\ UNCHANGED <<line, used, assigned, archived, call>>

Transfer(e, u) ==
    /\ assigned[e] # u
    /\ assigned' = [assigned EXCEPT ![e] = u]
    /\ UNCHANGED <<entry, line, used, archived, call>>

Archive ==
    /\ ~archived
    /\ archived' = TRUE
    /\ UNCHANGED <<entry, line, used, assigned, call>>

Values(f) == CASE f = "unit" -> Units [] f = "days" -> 0 .. MaxDays [] f = "basis" -> Bases [] f = "rate" -> Rates

Request(t) ==
    \/ \E e \in Entries :
         \/ \E r \in Rates : RequestEdit(t, e, r)
         \/ \E u \in Units : RequestAdd(t, e, u)
         \/ RequestAssign(t, e)
         \/ RequestDelete(t, e)
    \/ \E l \in Lines : RequestRemove(t, l) \/ \E f \in Fields : \E v \in Values(f) : RequestUpdate(t, l, f, v)
    \/ \E f \in {"rate", "basis"} : \E v \in Values(f) : RequestBulk(t, f, v)

Serve(t) ==
    \/ CountLines(t) \/ ReadFresh(t) \/ Match(t) \/ Abort(t)
    \/ CommitEdit(t) \/ CommitAdd(t) \/ CommitUpdate(t) \/ CommitRemove(t) \/ CommitAssign(t) \/ CommitDelete(t)

Quiet == BulkOverlaps \/ \A t \in Callers : call[t].pc # "bulk"

Next ==
    \/ \E t \in Callers : CommitBulk(t) \/ (Quiet /\ (Request(t) \/ Serve(t)))
    \/ Quiet /\ \E e \in Entries : Release(e) \/ \E u \in Units : Transfer(e, u)
    \/ Quiet /\ Archive

Spec == Init /\ [][Next]_vars

-----------------------------------------------------------------------------
TypeOK ==
    /\ entry \in [Entries -> EntryRecord]
    /\ line \in [Lines -> LineRecord]
    /\ used \in SUBSET Lines
    /\ assigned \in [Entries -> Units]
    /\ archived \in BOOLEAN
    /\ \A t \in Callers : call[t].kind \in Versioned \cup {"none", "bulk"} /\ call[t].pc \in Steps

(* An entry has a line, always: two requests that each leave one line do not leave none,   *)
(* although both count before either holds the entry.                                      *)
AtLeastOneLine == \A e \in Entries : entry[e].present => DOMAIN LinesOf(e) # {}

(* The lines of an entry belong to its site, across additions checked against the site     *)
(* the entry had before its assignment changed.                                            *)
LinesAtEntrySite ==
    \A l \in Lines : line[l].entry # None =>
        entry[line[l].entry].present /\ SiteOf[line[l].unit] = entry[line[l].entry].site

(* The working days of an entry fit its cycle days, if no bulk update overlaps with an     *)
(* edit of a line.                                                                         *)
DaysWithinCycle == ~BulkOverlaps => \A e \in Entries : Fits(LinesOf(e))

(* An entry is whole, whatever edits overlap: it has a line, its lines belong to its site, *)
(* and its working days fit its cycle days.                                                *)
EntryIsWhole == AtLeastOneLine /\ LinesAtEntrySite /\ DaysWithinCycle

(* What an editor saves it saves over what it saw: no other edit, release, assignment or   *)
(* bulk update came between its read and its write, in the entry or in its lines.          *)
SavingStep ==
    \A t \in Callers :
      call[t].kind \in Versioned /\ call'[t].pc = "idle" /\ <<entry', line'>> # <<entry, line>>
      /\ call[t].pc = "write" => Now(call[t].entry) = call[t].seen
NothingOverwritten == [][SavingStep]_vars

(* Applying an assignment never moves days already worked to another unit.                 *)
AssignmentStep ==
    \A t \in Callers : \A l \in Lines :
      CommitAssign(t) /\ line[l].entry # None /\ line'[l].unit # line[l].unit => NotWorked(l)

(* A resolved entry keeps its figures and its lines, if no bulk update overlaps with its   *)
(* release.                                                                                *)
ResolvedStep ==
    ~BulkOverlaps => \A e \in Entries : entry[e].resolved =>
      entry'[e] = entry[e] /\ \A l \in DOMAIN LinesOf(e) : line'[l] = line[l]

(* Neither worked days nor what a sweep has resolved is changed behind somebody's back.    *)
WorkIsKept == [][AssignmentStep /\ ResolvedStep]_vars
=============================================================================
