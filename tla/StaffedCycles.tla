----------------------------- MODULE StaffedCycles -----------------------------
(***************************************************************************)
(* The cycles of the months (CycleLifecycle) and the employees whose       *)
(* entries the current one holds (EmployeeRegistry). No property spans     *)
(* what each says of a cycle, so the registry stands here as an instance   *)
(* with rows and requests of its own; its operators are Staff!Operator.    *)
(***************************************************************************)
EXTENDS CycleLifecycle

CONSTANTS
    Employees, Units, SiteOf,
    Profiles, Patches,
    Owing,
    Requests, Alone,
    FormResubmits,
    MaxCycle,
    None

VARIABLES employee, placed, entry, current, draft, request

rvars == <<employee, placed, entry, current, draft, request>>

Staff == INSTANCE EmployeeRegistry WITH cycle <- current, call <- request

(* Requests, each right alone, leave an employee coherent: in a unit of the site; reached by    *)
(* the last recorded transfer and with an account exactly when there is a bank, under the       *)
(* conditions that EmployeeRegistry names.                                                      *)
EmployeeIsCoherent == Staff!EmployeeIsCoherent

(* The open draft follows the registry, under the conditions named there: EOBI of the employee  *)
(* and of the entry agree.                                                                      *)
EntryFollowsEmployee == Staff!EntryFollowsEmployee

(* Who has left has no open entry that a sweep would pay, unless somebody lifted its hold,      *)
(* under the conditions named there.                                                            *)
LeaversUnpaid == [][Staff!LeaversApart => Staff!LeaverStep]_rvars

(* A resolved entry outlives departures, returns and reconciliations. *)
ResolvedOutlives == [][Staff!ResolvedStep]_rvars

=============================================================================
