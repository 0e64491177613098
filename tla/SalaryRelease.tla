----------------------------- MODULE SalaryRelease -----------------------------
(***************************************************************************)
(* Salary release within one cycle: the sweep that releases a project      *)
(* unit, its late form for stragglers, Release All, which runs sweep after *)
(* sweep, and the edits of payroll entries that interleave with them.      *)
(*                                                                         *)
(* An entry is what decides who is swept and when: whether it is on hold,  *)
(* the units its work lines name, its version. How it resolves (paid, no   *)
(* pay, recovery) is one state here. A sweep holds the row lock of the     *)
(* cycle from its read to its commit, but not the rows of the entries it   *)
(* read: it writes them by id at the end. Units are numbered in the order  *)
(* in which Release All visits them.                                       *)
(***************************************************************************)
EXTENDS Integers, FiniteSets, FiniteSetsExt

CONSTANTS
    Employees,      \* one entry each; deleted entries are not created again here
    Units,          \* ProjectUnit, numbered by site and name
    SiteOf,         \* ProjectUnit.siteId
    Callers,        \* requests that may run at the same time
    MaxVersion,     \* bound: the edits of one entry
    Edits,          \* the kinds of edit a run allows
    Alone,          \* kinds that, in a run, never fall between a sweep's read and its writes
    None            \* nobody

EditKinds == {"hold", "addLine", "moveLine", "removeLine", "assign", "delete", "registry"}

(* Units is a finite set of numbers and the domain of SiteOf; Edits and Alone    *)
(* are sets of EditKinds; None is not a caller.                                 *)
ReleaseConstants == Units \subseteq Nat \ {0} /\ None \notin Callers

(* The kinds of edit that give an entry another unit, and all kinds, wait for a  *)
(* sweep under way.                                                             *)
LinesWait == Edits \cap {"addLine", "moveLine", "assign"} \subseteq Alone
EditsWait == Edits \subseteq Alone

VARIABLES
    entry,          \* PayrollEntry by employee
    blocked,        \* employees whose registry data the readiness check refuses
    released,       \* units with a PayrollUnitRelease row
    cycleStatus,    \* PayrollCycle.status
    lock,           \* the caller that holds the row lock of the cycle
    call            \* what each caller is doing

vars == <<entry, blocked, released, cycleStatus, lock, call>>

-----------------------------------------------------------------------------
(* Rows and requests. *)

EntryRecord == [state : {"NONE", "OPEN", "RESOLVED"}, hold : BOOLEAN,
                lines : SUBSET Units, version : Nat]

(* seen: the versions the page sent. taken: whom the sweep will resolve. pending, resolved,  *)
(* heldAtStart, failed: Release All's loop and result. due: what it owes, kept for the       *)
(* properties (an entry edited meanwhile is owed no more).                                   *)
CallRecord == [kind : {"none", "unit", "all"}, pc : {"idle", "page", "loop", "sweeping"},
               unit : Units \cup {0}, seen : [Employees -> Int],
               taken : SUBSET Employees, pending : SUBSET Units, failed : SUBSET Units,
               resolved : SUBSET Employees, heldAtStart : SUBSET Employees, due : SUBSET Employees]

Unsent == [e \in Employees |-> -1]
Idle   == [kind |-> "none", pc |-> "idle", unit |-> 0, seen |-> Unsent, taken |-> {},
           pending |-> {}, failed |-> {}, resolved |-> {}, heldAtStart |-> {}, due |-> {}]

NewEntry(L) == [state |-> "OPEN", hold |-> FALSE, lines |-> L, version |-> 0]

(* A work line names a unit of its entry's site.                            *)
OneSite(L) == \A u, v \in L : SiteOf[u] = SiteOf[v]

OpenEntries == {e \in Employees : entry[e].state = "OPEN"}
Held        == {e \in OpenEntries : entry[e].hold}
Touching(u) == {e \in Employees : entry[e].state # "NONE" /\ u \in entry[e].lines}

Init ==
    /\ entry \in [Employees -> {NewEntry(L) : L \in {M \in (SUBSET Units) \ {{}} : OneSite(M)}}]
    /\ blocked = {}
    /\ released = {}
    /\ cycleStatus = "DRAFT"
    /\ lock = None
    /\ call = [t \in Callers |-> Idle]

-----------------------------------------------------------------------------
(* What a sweep of a unit takes. *)

Candidates(u) == {e \in Touching(u) : entry[e].state = "OPEN" /\ ~entry[e].hold}

(* Every other unit of the entry has been released. The first two forms are *)
(* for comparison.                                                          *)
AnyOtherDone(e, u) == entry[e].lines = {u} \/ entry[e].lines \cap released # {}
OnlyUnit(e, u)     == entry[e].lines = {u}
LastUnit(e, u)     == entry[e].lines \ {u} \subseteq released

ToRelease(u) == {e \in Candidates(u) : LastUnit(e, u)}

(* What the release page shows for a unit, counted by a query of its own.   *)
WillRelease(u) ==
    {e \in Touching(u) : /\ entry[e].state # "RESOLVED"
                         /\ ~entry[e].hold
                         /\ entry[e].lines \ {u} \subseteq released}

HeldAt(u) == {e \in Touching(u) : entry[e].hold /\ entry[e].state = "OPEN"}

(* The entries the page expects to be swept, with the versions it read.     *)
ExpectedVersions(u) ==
    [e \in Employees |-> IF e \in Candidates(u) THEN entry[e].version ELSE -1]

(* Each expected entry is a candidate still, in the version that was seen   *)
(* (the first form, for comparison, in any version).                        *)
StillCandidates(seen, u) ==
    \A e \in Employees : seen[e] # -1 => e \in Candidates(u)
AsSeen(seen, u) ==
    \A e \in Employees : seen[e] # -1 => e \in Candidates(u) /\ entry[e].version = seen[e]

NothingNew(u) == u \in released /\ ToRelease(u) = {}

(* The status read again under the lock.                                    *)
StillDraft == cycleStatus = "DRAFT"

-----------------------------------------------------------------------------
(* Release of one unit. *)

OpenPage(t, u) ==
    /\ call[t].pc = "idle"
    /\ call' = [call EXCEPT ![t] = [Idle EXCEPT !.kind = "unit", !.pc = "page", !.unit = u,
                                                !.seen = ExpectedVersions(u)]]
    /\ UNCHANGED <<entry, blocked, released, cycleStatus, lock>>

(* Lock the cycle, find the candidates, decide who can be released.         *)
Sweep(t, u) ==
    /\ lock' = t
    /\ call' = [call EXCEPT ![t].pc = "sweeping", ![t].unit = u,
                            ![t].taken = ToRelease(u) \ blocked]
    /\ UNCHANGED <<entry, blocked, released, cycleStatus>>

StartSweep(t) ==
    /\ call[t].pc = "page" /\ lock = None /\ StillDraft
    /\ ~NothingNew(call[t].unit)
    /\ AsSeen(call[t].seen, call[t].unit)
    /\ Sweep(t, call[t].unit)

RefuseSweep(t) ==
    /\ call[t].pc = "page" /\ lock = None
    /\ \/ ~StillDraft
       \/ NothingNew(call[t].unit)
       \/ ~AsSeen(call[t].seen, call[t].unit)
    /\ call' = [call EXCEPT ![t] = Idle]
    /\ UNCHANGED <<entry, blocked, released, cycleStatus, lock>>

Resolve(rows, S) ==
    [e \in Employees |-> IF e \in S THEN [rows[e] EXCEPT !.state = "RESOLVED", !.version = @ + 1]
                         ELSE rows[e]]

Gone(t) == \E e \in call[t].taken : entry[e].state = "NONE"

(* The loop's bookkeeping after one unit.                                    *)
Counted(c) ==
    [c EXCEPT !.pc = "loop", !.unit = 0, !.pending = @ \ {c.unit}, !.resolved = @ \cup c.taken,
              !.taken = {}]

CommitSweep(t) ==
    /\ call[t].pc = "sweeping" /\ ~Gone(t)
    /\ entry' = Resolve(entry, call[t].taken)
    /\ released' = released \cup {call[t].unit}
    /\ lock' = None
    /\ call' = [call EXCEPT ![t] = IF @.kind = "all" THEN Counted(@) ELSE Idle]
    /\ UNCHANGED <<blocked, cycleStatus>>

(* The loop goes on with the next unit after a failure.                     *)
AfterFailure(c) == [c EXCEPT !.pc = "loop", !.unit = 0, !.taken = {}, !.failed = @ \cup {c.unit},
                             !.pending = @ \ {c.unit}]

(* An entry deleted meanwhile makes the write by id fail; a failure of the  *)
(* database or a time-out does the same. The transaction rolls back.        *)
FailSweep(t) ==
    /\ call[t].pc = "sweeping"
    /\ lock' = None
    /\ call' = [call EXCEPT ![t] = IF @.kind = "all" THEN AfterFailure(@) ELSE Idle]
    /\ UNCHANGED <<entry, blocked, released, cycleStatus>>

-----------------------------------------------------------------------------
(* Release All. *)

StartAll(t) ==
    /\ call[t].pc = "idle" /\ cycleStatus = "DRAFT"
    /\ call' = [call EXCEPT ![t] =
           [Idle EXCEPT !.kind = "all", !.pc = "loop", !.pending = Units \ released,
                        !.heldAtStart = Held,
                        !.due = {e \in OpenEntries \ (Held \cup blocked) :
                                     entry[e].lines \cap (Units \ released) # {}}]]
    /\ UNCHANGED <<entry, blocked, released, cycleStatus, lock>>

(* The pending units in order.                                              *)
NextUnit(t)   == Min(call[t].pending)

SweepNext(t) ==
    /\ call[t].pc = "loop" /\ call[t].pending # {} /\ lock = None
    /\ StillDraft /\ ~NothingNew(NextUnit(t))
    /\ Sweep(t, NextUnit(t))

(* "Already been released" is a skip; any other refusal is a failed unit.   *)
PassOver(t) ==
    /\ call[t].pc = "loop" /\ call[t].pending # {} /\ lock = None
    /\ LET u == NextUnit(t) IN
       \/ /\ ~StillDraft
          /\ call' = [call EXCEPT ![t].pending = @ \ {u}, ![t].failed = @ \cup {u}]
       \/ /\ StillDraft /\ NothingNew(u)
          /\ call' = [call EXCEPT ![t].pending = @ \ {u}]
    /\ UNCHANGED <<entry, blocked, released, cycleStatus, lock>>

AnswerAll(t) ==
    /\ call[t].pc = "loop" /\ call[t].pending = {}
    /\ call' = [call EXCEPT ![t] = Idle]
    /\ UNCHANGED <<entry, blocked, released, cycleStatus, lock>>

-----------------------------------------------------------------------------
(* Edits: each checks the version it was given, so each is one step. *)

Allowed(kind) == kind \in Edits /\ (lock = None \/ kind \notin Alone)

NoLongerDue(e) == [t \in Callers |-> [call[t] EXCEPT !.due = @ \ {e}]]

Rewrite(e, row) ==
    /\ entry[e].state = "OPEN" /\ entry[e].version < MaxVersion
    /\ entry' = [entry EXCEPT ![e] = [row EXCEPT !.version = entry[e].version + 1]]
    /\ call' = NoLongerDue(e)
    /\ UNCHANGED <<blocked, released, cycleStatus, lock>>

(* A line may be deleted unless it is the last.                             *)
MayRemove(e) == Cardinality(entry[e].lines) > 1

SetHold(e) ==
    /\ Allowed("hold")
    /\ Rewrite(e, [entry[e] EXCEPT !.hold = ~@])

AddLine(e, u) ==
    /\ Allowed("addLine")
    /\ u \notin entry[e].lines
    /\ OneSite(entry[e].lines \cup {u})
    /\ Rewrite(e, [entry[e] EXCEPT !.lines = @ \cup {u}])

(* updateWorkLine: a line names another unit of the site. Two lines of one  *)
(* unit count as one here.                                                  *)
MoveLine(e, u, v) ==
    /\ Allowed("moveLine")
    /\ u \in entry[e].lines /\ v \notin entry[e].lines
    /\ OneSite(entry[e].lines \cup {v})
    /\ Rewrite(e, [entry[e] EXCEPT !.lines = (@ \ {u}) \cup {v}])

RemoveLine(e, u) ==
    /\ Allowed("removeLine")
    /\ u \in entry[e].lines /\ MayRemove(e)
    /\ Rewrite(e, [entry[e] EXCEPT !.lines = @ \ {u}])

(* The single line of an entry moves to the unit its employee works at now. *)
ApplyAssignment(e, u) ==
    /\ Allowed("assign")
    /\ Cardinality(entry[e].lines) = 1 /\ u \notin entry[e].lines
    /\ Rewrite(e, [entry[e] EXCEPT !.lines = {u}])

DeleteEntry(e) ==
    /\ Allowed("delete")
    /\ Rewrite(e, [entry[e] EXCEPT !.state = "NONE", !.lines = {}])

(* An edit in the employee registry creates or clears a reason to block.    *)
EditRegistry(e) ==
    /\ Allowed("registry")
    /\ blocked' = IF e \in blocked THEN blocked \ {e} ELSE blocked \cup {e}
    /\ call' = NoLongerDue(e)
    /\ UNCHANGED <<entry, released, cycleStatus, lock>>

(* Finalize writes the cycle's row, so it waits for a sweep that holds it.  *)
Finalize ==
    /\ lock = None /\ cycleStatus = "DRAFT"
    /\ OpenEntries \subseteq Held
    /\ cycleStatus' = "RELEASED"
    /\ UNCHANGED <<entry, blocked, released, lock, call>>

Edit == \E e \in Employees :
    \/ SetHold(e) \/ DeleteEntry(e) \/ EditRegistry(e)
    \/ \E u \in Units : AddLine(e, u) \/ RemoveLine(e, u) \/ ApplyAssignment(e, u)
    \/ \E u, v \in Units : MoveLine(e, u, v)

Serve(t) == CommitSweep(t) \/ FailSweep(t) \/ SweepNext(t) \/ PassOver(t) \/ AnswerAll(t)

Next ==
    \/ \E t \in Callers : StartAll(t) \/ StartSweep(t) \/ RefuseSweep(t) \/ Serve(t)
    \/ \E t \in Callers, u \in Units : OpenPage(t, u)
    \/ Edit
    \/ Finalize

Spec     == Init /\ [][Next]_vars
(* The server serves every request it received; row locks are granted in    *)
(* turn. The operators owe nothing: no fairness for their requests.         *)
FairSpec == Spec /\ \A t \in Callers : SF_vars(Serve(t))

-----------------------------------------------------------------------------
TypeOK ==
    /\ entry \in [Employees -> EntryRecord]
    /\ blocked \subseteq Employees
    /\ released \subseteq Units
    /\ cycleStatus \in {"DRAFT", "RELEASED"}
    /\ lock \in Callers \cup {None}
    /\ call \in [Callers -> CallRecord]

(* A split entry waits for all its units: whatever order the units are released in, late   *)
(* sweeps included, an entry is resolved only when each of its units has been released     *)
(* (releaseProjectUnit's filter on otherReleases), in a run where no line is added under a *)
(* sweep; ResolvedMeansReleased shows that such a line breaks it.                          *)
ResolvedWaitsForAllUnits ==
    \A e \in Employees : entry[e].state = "RESOLVED" => entry[e].lines \subseteq released

(* The release page's own count of who will be released is what a sweep would take, so the *)
(* button of a released unit is offered exactly when a late sweep is not refused.          *)
PageMatchesSweep ==
    \A u \in Units :
        /\ WillRelease(u) = ToRelease(u)
        /\ (u \in released /\ WillRelease(u) = {}) <=> NothingNew(u)
        /\ HeldAt(u) \cap WillRelease(u) = {}

SweepMatchesUnits == TypeOK /\ ResolvedWaitsForAllUnits /\ PageMatchesSweep

(* Nothing the operator saw is swept in another form: an edit between the page's load and  *)
(* the sweep's read makes the release be refused.                                          *)
SeenStep ==
    \A t \in Callers : CommitSweep(t) /\ call[t].kind = "unit" =>
      \A e \in call[t].taken : call[t].seen[e] # -1 => entry[e].version = call[t].seen[e]

(* Release All leaves nobody behind: when it answers and no unit failed, every entry that  *)
(* was eligible at one of its units when it began, and was not edited since, is resolved,  *)
(* split entries and units released by somebody else meanwhile included.                   *)
AnswerStep ==
    \A t \in Callers : AnswerAll(t) /\ call[t].failed = {} =>
      \A e \in call[t].due : entry[e].state = "RESOLVED"

(* A finalized cycle stays settled: whoever was open then was on hold then, and a sweep    *)
(* that was under way cannot resolve anything afterwards.                                  *)
SettledStep ==
    cycleStatus = "RELEASED" =>
      \A e \in Employees : entry[e].state = "OPEN" => entry'[e].state # "RESOLVED"

(* The operator's page and the cycle's end bind every sweep; Release All answers for all. *)
SweptAsShown == [][SeenStep /\ SettledStep]_vars
AllReleased  == [][AnswerStep]_vars

=============================================================================
