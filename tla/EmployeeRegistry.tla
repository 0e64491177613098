---------------------------- MODULE EmployeeRegistry ----------------------------
(***************************************************************************)
(* The employee registry and the entries of the current payroll cycle that *)
(* follow it: profile updates, transfers, departure, reactivation, import, *)
(* the synchronization of EOBI between an employee and the draft entry,    *)
(* and the three ways an entry comes into a cycle (with its employee, by   *)
(* reconciliation, by the rollover).                                       *)
(*                                                                         *)
(* An employee has no version. A request reads the employee and decides    *)
(* (pc "begin"); its transaction updates the row, which locks it, and      *)
(* reads the cycle and the entry (pc "write"); it then writes the entry by *)
(* id and commits. An edit of an entry is guarded by the entry's version,  *)
(* so it is one step here.                                                 *)
(***************************************************************************)
EXTENDS Naturals, FiniteSets

CONSTANTS
    Employees,
    Units,
    SiteOf,         \* ProjectUnit.siteId
    Profiles,       \* what the form or a row of an import says of an employee
    Patches,        \* what an update changes: some of the fields of a profile
    Owing,          \* employees with an advance scheduled for the next period
    Callers,        \* requests that run at the same time
    Requests,       \* the kinds of request a run makes
    Alone,          \* kinds that, in a run, do not overlap with anything
    FormResubmits,  \* whether an update also names fields it leaves as they were
    MaxCycle,       \* bound: cycles
    None            \* nobody

Kinds  == {"create", "update", "leave", "reactivate", "import", "manual", "reconcile", "rollover"}
Fields == {"site", "unit", "bank", "account", "eobi"}
Sites  == {SiteOf[u] : u \in Units}

VARIABLES
    employee,   \* Employee, of the fields the others depend on
    placed,     \* the unit the last row of EmployeeTransferHistory leads to, at first the unit of creation
    entry,      \* the employee's PayrollEntry in the current cycle
    cycle,      \* number of the current cycle
    draft,      \* whether it is still DRAFT, not yet finalized
    call        \* the requests in progress
vars == <<employee, placed, entry, cycle, draft, call>>

ProfileRecord  == [site : Sites, unit : Units, bank : BOOLEAN, account : BOOLEAN, eobi : BOOLEAN]
EmployeeRecord == [present : BOOLEAN, left : BOOLEAN, site : Sites, unit : Units,
                   bank : BOOLEAN, account : BOOLEAN, eobi : BOOLEAN]
EntryRecord    == [state : {"none", "open", "resolved"}, hold : BOOLEAN, eobi : BOOLEAN, obliged : BOOLEAN]

NoEntry        == [state |-> "none", hold |-> FALSE, eobi |-> FALSE, obliged |-> FALSE]
OpenEntry(b)   == [state |-> "open", hold |-> FALSE, eobi |-> b, obliged |-> FALSE]
HeldEntry      == [state |-> "open", hold |-> TRUE, eobi |-> FALSE, obliged |-> FALSE]
Profile(r)     == [present |-> TRUE, left |-> FALSE, site |-> r.site, unit |-> r.unit,
                   bank |-> r.bank, account |-> r.account /\ r.bank, eobi |-> r.eobi]

(* What the constants of an instance satisfy: a unit belongs to a site, a profile is one     *)
(* that createEmployeeSchema accepts, and a patch is some of its fields.                     *)
Fits(d) ==
    /\ DOMAIN d \subseteq Fields \cup {"left"}
    /\ "site" \in DOMAIN d => d.site \in Sites
    /\ "unit" \in DOMAIN d => d.unit \in Units
    /\ \A f \in DOMAIN d \cap {"bank", "account", "eobi", "left"} : d[f] \in BOOLEAN

RegistryConstants ==
    /\ DOMAIN SiteOf = Units
    /\ Requests \subseteq Kinds /\ Alone \subseteq Kinds
    /\ None \notin Employees /\ Owing \subseteq Employees /\ MaxCycle \in Nat \ {0}
    /\ Profiles # {} /\ Profiles \subseteq ProfileRecord
    /\ \A r \in Profiles : SiteOf[r.unit] = r.site /\ (r.bank => r.account)
    /\ \A p \in Patches : Fits(p) /\ "left" \notin DOMAIN p

(* data: the columns the update will set. seen: the employee as the request  *)
(* read it. found, inCycle: the entry and the draft cycle (0: none) as the   *)
(* transaction read them. roster: the employees a cycle-wide request read.   *)
Unseen == [Profile(CHOOSE r \in Profiles : TRUE) EXCEPT !.present = FALSE]
Idle   == [kind |-> "none", pc |-> "idle", who |-> None, data |-> <<>>, seen |-> Unseen,
           found |-> NoEntry, inCycle |-> 0, roster |-> <<>>]

Init ==
    /\ employee \in [Employees -> {Profile(r) : r \in Profiles} \cup {Unseen}]
    /\ placed = [e \in Employees |-> employee[e].unit]
    /\ entry = [e \in Employees |-> IF employee[e].present THEN OpenEntry(employee[e].eobi) ELSE NoEntry]
    /\ cycle = 1 /\ draft = TRUE
    /\ call = [t \in Callers |-> Idle]

Step(t, r) == call' = [call EXCEPT ![t] = r]
Ask(t, k, e, d) ==
    Step(t, [Idle EXCEPT !.kind = k, !.pc = "begin", !.who = e, !.data = d, !.seen = employee[e]])

(* Kinds in Alone start when nothing else runs, and nothing starts or moves  *)
(* until they have ended.                                                    *)
Others(t)    == Callers \ {t}
MayAsk(t, k) == /\ k \in Requests /\ call[t].pc = "idle"
                /\ \A u \in Others(t) : call[u].kind \notin Alone /\ (k \in Alone => call[u].pc = "idle")
Calm         == \A t \in Callers : call[t].kind \notin Alone

Unchanged == UNCHANGED <<employee, placed, entry, cycle, draft>>

-----------------------------------------------------------------------------
(* Requests: the employee as it is read, and what is decided from it. *)

Overlay(r, d) == [f \in DOMAIN r |-> IF f \in DOMAIN d THEN d[f] ELSE r[f]]

(* A change of unit or of site is a transfer (the first form, for            *)
(* comparison, looks at the site only).                                      *)
MovesSite(r, d)  == Overlay(r, d).site # r.site
IsTransfer(r, d) == Overlay(r, d).site # r.site \/ Overlay(r, d).unit # r.unit

(* An account is required with a bank and cleared without one, of the row    *)
(* and the change together.                                                  *)
Banking(r, d) ==
    IF ~Overlay(r, d).bank
    THEN [f \in DOMAIN d \cup {"account"} |-> IF f = "account" THEN FALSE ELSE d[f]] ELSE d

Acceptable(r, d) ==
    /\ IsTransfer(r, d) => SiteOf[Overlay(r, d).unit] = Overlay(r, d).site
    /\ Overlay(r, d).bank => Overlay(r, d).account

Names(r, p) == FormResubmits \/ \A f \in DOMAIN p : p[f] # r[f]

RequestCreate(t, e, r) ==
    /\ MayAsk(t, "create") /\ ~employee[e].present
    /\ Step(t, [Idle EXCEPT !.kind = "create", !.pc = "begin", !.who = e, !.data = Profile(r)])
    /\ Unchanged

RequestUpdate(t, e, p) ==
    /\ MayAsk(t, "update") /\ employee[e].present
    /\ Names(employee[e], p) /\ Acceptable(employee[e], p)
    /\ Ask(t, "update", e, Banking(employee[e], p))
    /\ Unchanged

RequestLeave(t, e) ==
    /\ MayAsk(t, "leave") /\ employee[e].present /\ ~employee[e].left
    /\ Ask(t, "leave", e, [left |-> TRUE])
    /\ Unchanged

Returning(d) == [f \in DOMAIN d \cup {"left"} |-> IF f = "left" THEN FALSE ELSE d[f]]

RequestReactivate(t, e, p) ==
    /\ MayAsk(t, "reactivate") /\ employee[e].present /\ employee[e].left
    /\ Names(employee[e], p) /\ Acceptable(employee[e], p)
    /\ Ask(t, "reactivate", e, Returning(Banking(employee[e], p)))
    /\ Unchanged

(* A row of an import, with a date of leaving or without. A departed         *)
(* employee without one is reactivated; any other known employee is written  *)
(* as the row says; an unknown one is created.                               *)
RequestImport(t, e, r, gone) ==
    LET Known == employee[e].present
        Row   == [f \in Fields \cup {"left"} |-> IF f = "left" THEN gone ELSE r[f]]
    IN
    /\ MayAsk(t, "import")
    /\ \/ /\ ~Known
          /\ Step(t, [Idle EXCEPT !.kind = "create", !.pc = "begin", !.who = e,
                                  !.data = [Overlay(Profile(r), Row) EXCEPT !.present = TRUE]])
       \/ /\ Known /\ employee[e].left /\ ~gone
          /\ Ask(t, "reactivate", e, Returning(Banking(employee[e], r)))
       \/ /\ Known /\ (gone \/ ~employee[e].left)
          /\ Ask(t, "import", e, Row)
    /\ Unchanged

(* Somebody adds an employee to the cycle by hand; who has left may be added *)
(* too.                                                                      *)
RequestManual(t, e) ==
    /\ MayAsk(t, "manual") /\ draft /\ employee[e].present /\ entry[e].state = "none"
    /\ Step(t, [Idle EXCEPT !.kind = "manual", !.pc = "write", !.who = e, !.seen = employee[e], !.inCycle = cycle])
    /\ Unchanged

Active == {e \in Employees : employee[e].present /\ ~employee[e].left}

(* The employees a reconciliation finds missing.                             *)
Missing          == {e \in Active : entry[e].state = "none"}

RequestReconcile(t) ==
    /\ MayAsk(t, "reconcile") /\ draft /\ Missing # {}
    /\ Step(t, [Idle EXCEPT !.kind = "reconcile", !.pc = "write", !.roster = [e \in Missing |-> employee[e]]])
    /\ Unchanged

(* Those who have left come along while an advance is due.                   *)
Departed == {e \in Owing : employee[e].present /\ employee[e].left}

RequestRollover(t) ==
    /\ MayAsk(t, "rollover") /\ ~draft /\ cycle < MaxCycle
    /\ Step(t, [Idle EXCEPT !.kind = "rollover", !.pc = "write", !.inCycle = cycle,
                            !.roster = [e \in Active \cup Departed |-> employee[e]]])
    /\ Unchanged

-----------------------------------------------------------------------------
(* Transactions. *)

Updating == {"create", "update", "leave", "reactivate", "import"}
Holds(t, e)    == call[t].kind \in Updating /\ call[t].pc = "write" /\ call[t].who = e
RowLocked(e)   == \E t \in Callers : Holds(t, e)

(* The row that an update leaves, if the unit belongs to the site (a foreign *)
(* key of both columns).                                                     *)
CompositeKey(r) == SiteOf[r.unit] = r.site
After(t)        == IF call[t].kind = "create" THEN call[t].data ELSE Overlay(employee[call[t].who], call[t].data)

Begin(t) ==
    LET e == call[t].who IN
    /\ call[t].pc = "begin" /\ ~RowLocked(e)
    /\ (call[t].kind = "create") = ~employee[e].present
    /\ CompositeKey(After(t))
    /\ Step(t, [call[t] EXCEPT !.pc = "write", !.found = entry[e], !.inCycle = IF draft THEN cycle ELSE 0])
    /\ Unchanged

Abort(t) ==
    /\ call[t].pc \in {"begin", "write"}
    /\ Step(t, Idle)
    /\ Unchanged

(* What the transaction found is in the cycle that is still the current one. *)
Current(t) == call[t].inCycle = cycle
Open(t)    == Current(t) /\ call[t].found.state = "open"

SaveEmployee(t) ==
    /\ employee' = [employee EXCEPT ![call[t].who] = After(t)]
    /\ placed' = [placed EXCEPT ![call[t].who] =
                    IF call[t].kind = "create" \/ (call[t].kind # "leave" /\ IsTransfer(call[t].seen, call[t].data))
                    THEN Overlay(call[t].seen, call[t].data).unit ELSE @]

(* The entry is created with the employee's values, unless there is one; if  *)
(* one appeared since, the unique index refuses the transaction.             *)
Seed(t, e, r) ==
    /\ Current(t) /\ call[t].found.state = "none" /\ ~r.left => entry[e].state = "none"
    /\ entry' = IF Current(t) /\ call[t].found.state = "none" /\ ~r.left
                THEN [entry EXCEPT ![e] = OpenEntry(r.eobi)] ELSE entry

CommitCreate(t) ==
    /\ call[t].kind \in {"create", "reactivate"} /\ call[t].pc = "write"
    /\ SaveEmployee(t)
    /\ Seed(t, call[t].who, After(t))
    /\ Step(t, Idle)
    /\ UNCHANGED <<cycle, draft>>

(* A change of EOBI goes to the draft entry that was found open and without it. *)
Syncs(t) ==
    /\ "eobi" \in DOMAIN call[t].data /\ call[t].data.eobi # call[t].seen.eobi
    /\ Open(t) /\ call[t].found.eobi # call[t].data.eobi

CommitUpdate(t) ==
    LET e == call[t].who IN
    /\ call[t].kind = "update" /\ call[t].pc = "write"
    /\ SaveEmployee(t)
    /\ Syncs(t) => entry[e].state # "none"
    /\ entry' = IF Syncs(t) THEN [entry EXCEPT ![e].eobi = call[t].data.eobi] ELSE entry
    /\ Step(t, Idle)
    /\ UNCHANGED <<cycle, draft>>

CommitImport(t) ==
    /\ call[t].kind = "import" /\ call[t].pc = "write"
    /\ SaveEmployee(t)
    /\ Step(t, Idle)
    /\ UNCHANGED <<entry, cycle, draft>>

(* An entry that other rows point to, obligations or the snapshot of its     *)
(* resolution, cannot be deleted (the first form, for comparison, deletes    *)
(* those with it).                                                           *)
Cascading(r)    == r.state \in {"open", "resolved"}
Unreferenced(r) == r.state = "open" /\ ~r.obliged

(* Nothing of a deleted entry stays.                                         *)
Removed(r)       == NoEntry

(* A leaver's entry is deleted, or held if an obligation points to it (the   *)
(* first form, for comparison, leaves it as it is); a deletion that is       *)
(* refused fails the transaction. An entry that was found held is not        *)
(* written.                                                                  *)
LeftAlone(t, r)     == r
HeldIfObliged(t, r) == IF call[t].found.hold THEN r ELSE [r EXCEPT !.hold = TRUE]

CommitLeave(t) ==
    LET e == call[t].who IN
    /\ call[t].kind = "leave" /\ call[t].pc = "write"
    /\ SaveEmployee(t)
    /\ Open(t) /\ ~call[t].found.obliged => Unreferenced(entry[e])
    /\ Open(t) /\ call[t].found.obliged => entry[e].state # "none"
    /\ entry' = IF ~Open(t) THEN entry
                ELSE [entry EXCEPT ![e] = IF call[t].found.obliged THEN HeldIfObliged(t, @) ELSE Removed(@)]
    /\ Step(t, Idle)
    /\ UNCHANGED <<cycle, draft>>

CommitManual(t) ==
    LET e == call[t].who IN
    /\ call[t].kind = "manual" /\ call[t].pc = "write"
    /\ Current(t) => entry[e].state = "none"
    /\ entry' = IF Current(t) THEN [entry EXCEPT ![e] = OpenEntry(call[t].seen.eobi)] ELSE entry
    /\ Step(t, Idle)
    /\ UNCHANGED <<employee, placed, cycle, draft>>

(* The cycle and the entries are read again, the employees are not.          *)
CommitReconcile(t) ==
    LET R == call[t].roster IN
    /\ call[t].kind = "reconcile" /\ call[t].pc = "write"
    /\ entry' = [e \in Employees |-> IF draft /\ e \in DOMAIN R /\ entry[e].state = "none"
                                     THEN OpenEntry(R[e].eobi) ELSE entry[e]]
    /\ Step(t, Idle)
    /\ UNCHANGED <<employee, placed, cycle, draft>>

(* The next entry takes EOBI from the last one, if there is one.             *)
Carried(e, r) == IF r.left THEN HeldEntry
                 ELSE OpenEntry(IF entry[e].state # "none" THEN entry[e].eobi ELSE r.eobi)

CommitRollover(t) ==
    LET R == call[t].roster IN
    /\ call[t].kind = "rollover" /\ call[t].pc = "write"
    /\ Current(t) /\ ~draft
    /\ cycle' = cycle + 1 /\ draft' = TRUE
    /\ entry' = [e \in Employees |-> IF e \in DOMAIN R THEN Carried(e, R[e]) ELSE NoEntry]
    /\ Step(t, Idle)
    /\ UNCHANGED <<employee, placed>>

-----------------------------------------------------------------------------
(* The entry's own life. *)

(* EOBI is switched in the entry, and in the employee if it differs there    *)
(* (the first form, for comparison, switches it in the entry only).          *)
EditEobiHere(e) ==
    /\ entry[e].state = "open"
    /\ entry' = [entry EXCEPT ![e].eobi = ~@]
    /\ UNCHANGED <<employee, placed, cycle, draft, call>>

EditEobi(e) ==
    LET b == ~entry[e].eobi IN
    /\ entry[e].state = "open"
    /\ employee[e].eobi # b => ~RowLocked(e)
    /\ entry' = [entry EXCEPT ![e].eobi = b]
    /\ employee' = [employee EXCEPT ![e].eobi = b]
    /\ UNCHANGED <<placed, cycle, draft, call>>

Oblige(e) ==
    /\ entry[e].state = "open" /\ ~entry[e].obliged
    /\ entry' = [entry EXCEPT ![e].obliged = TRUE]
    /\ UNCHANGED <<employee, placed, cycle, draft, call>>

SwitchHold(e) ==
    /\ entry[e].state = "open"
    /\ entry' = [entry EXCEPT ![e].hold = ~@]
    /\ UNCHANGED <<employee, placed, cycle, draft, call>>

Delete(e) ==
    /\ entry[e].state = "open" /\ Unreferenced(entry[e])
    /\ entry' = [entry EXCEPT ![e] = Removed(@)]
    /\ UNCHANGED <<employee, placed, cycle, draft, call>>

Release(e) ==
    /\ draft /\ entry[e].state = "open" /\ ~entry[e].hold
    /\ entry' = [entry EXCEPT ![e].state = "resolved"]
    /\ UNCHANGED <<employee, placed, cycle, draft, call>>

Finalize ==
    /\ draft /\ cycle < MaxCycle /\ \A e \in Employees : entry[e].state = "open" => entry[e].hold
    /\ draft' = FALSE
    /\ UNCHANGED <<employee, placed, entry, cycle, call>>

Request(t) ==
    \/ \E e \in Employees :
         \/ \E r \in Profiles : RequestCreate(t, e, r) \/ \E gone \in BOOLEAN : RequestImport(t, e, r, gone)
         \/ \E p \in Patches : RequestUpdate(t, e, p) \/ RequestReactivate(t, e, p)
         \/ RequestLeave(t, e) \/ RequestManual(t, e)
    \/ RequestReconcile(t) \/ RequestRollover(t)

Serve(t) ==
    \/ Begin(t) \/ CommitCreate(t) \/ CommitUpdate(t) \/ CommitImport(t) \/ CommitLeave(t)
    \/ CommitManual(t) \/ CommitReconcile(t) \/ CommitRollover(t) \/ Abort(t)

EntryStep(e) == EditEobi(e) \/ Oblige(e) \/ SwitchHold(e) \/ Delete(e) \/ Release(e)

Next ==
    \/ \E t \in Callers : Request(t) \/ Serve(t)
    \/ Calm /\ ((\E e \in Employees : EntryStep(e)) \/ Finalize)

Spec == Init /\ [][Next]_vars

(* Every request ends. Opening the page of a draft cycle asks for a          *)
(* reconciliation, and pages are opened again and again; one that fails is   *)
(* asked for at the next.                                                    *)
FairSpec == /\ Spec
            /\ \A t \in Callers : WF_vars(Serve(t)) /\ SF_vars(RequestReconcile(t)) /\ SF_vars(CommitReconcile(t))

-----------------------------------------------------------------------------
TypeOK ==
    /\ employee \in [Employees -> EmployeeRecord]
    /\ placed \in [Employees -> Units]
    /\ entry \in [Employees -> EntryRecord]
    /\ cycle \in 1 .. MaxCycle /\ draft \in BOOLEAN
    /\ \A t \in Callers : call[t].kind \in Kinds \cup {"none"} /\ call[t].pc \in {"idle", "begin", "write"}

(* Two partial updates, each right of the employee it read, never leave an employee in a    *)
(* unit of another site.                                                                    *)
UnitAtSite == \A e \in Employees : employee[e].present => SiteOf[employee[e].unit] = employee[e].site

(* The last recorded transfer leads to where the employee is, when updates name only what   *)
(* they change: overlapping transfers each leave their row.                                 *)
TransfersRecorded == \A e \in Employees : employee[e].present => placed[e] = employee[e].unit

(* Who has a bank has an account and who is paid in cash has none, if updates do not        *)
(* overlap and nothing is imported.                                                         *)
BankingComplete == \A e \in Employees : employee[e].present => employee[e].bank = employee[e].account

(* EOBI of the employee and of the open draft entry agree whatever registry updates and     *)
(* entry edits overlap, when updates name only what they change.                            *)
EobiAgrees ==
    \A e \in Employees : draft /\ entry[e].state = "open" /\ employee[e].present => entry[e].eobi = employee[e].eobi

(* The open entry of somebody who has left, which a sweep would pay, is there because       *)
(* somebody lifted its hold: the departure deletes it or holds it for what it still owes,   *)
(* and no reconciliation, return or rollover brings in another. What a step makes payable   *)
(* was an open entry of a leaver before it.                                                 *)
Payable(e) == draft /\ employee[e].left /\ entry[e].state = "open" /\ ~entry[e].hold
LiftedByHand(e) == draft /\ employee[e].left /\ entry[e].state = "open" /\ UNCHANGED employee
LeaverStep == \A e \in Employees : Payable(e)' => Payable(e) \/ LiftedByHand(e)

(* A resolved entry outlives departures, returns and reconciliations: until the next cycle  *)
(* it is not deleted, reopened or created again.                                            *)
ResolvedStep ==
    \A e \in Employees : entry[e].state = "resolved" /\ cycle' = cycle => entry'[e].state = "resolved"

(* An active employee without an entry in the draft does not stay without for ever.         *)
Absent(e)      == draft /\ employee[e].present /\ ~employee[e].left /\ entry[e].state = "none"

(* The registry is coherent, under the conditions named above: an import writes a whole row *)
(* over what it read, and a form that resubmits what it does not change is blind to it.     *)
NoImports == "import" \notin Requests
EmployeeIsCoherent ==
    /\ UnitAtSite
    /\ NoImports /\ ~FormResubmits => TransfersRecorded
    /\ NoImports /\ {"update", "reactivate"} \subseteq Alone => BankingComplete

(* The open draft follows it: EOBI agrees while the cycle does not change and entries that  *)
(* come from a roster do not overlap with updates.                                          *)
EobiIsFollowed == /\ ~FormResubmits /\ Requests \subseteq {"create", "update", "leave", "manual", "reconcile"}
                  /\ Requests \cap {"manual", "reconcile"} \subseteq Alone
EntryFollowsEmployee == EobiIsFollowed => EobiAgrees

(* Who has left is not paid unless somebody decides so, if nobody adds a leaver by hand and *)
(* rosters are not read while people leave.                                                 *)
LeaversApart  == NoImports /\ "manual" \notin Requests /\ {"leave", "reconcile", "rollover"} \subseteq Alone
LeaversUnpaid == [][LeaversApart => LeaverStep]_vars

(* A resolved entry outlives departures, returns and reconciliations. *)
ResolvedOutlives == [][ResolvedStep]_vars

=============================================================================
