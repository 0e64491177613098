------------------------------ MODULE Obligation ------------------------------
(***************************************************************************)
(* What the corrections subsystem promises of every debt, between company  *)
(* and employee, whichever way it runs: a debt is incurred once, part of   *)
(* what is owed may be earmarked for a payroll, and each discharge comes   *)
(* either out of what is not earmarked or out of an earmark, which it      *)
(* closes. Nothing is discharged twice and nothing earmarked is taken      *)
(* away by another path.                                                   *)
(***************************************************************************)
EXTENDS Integers

CONSTANT Debts

VARIABLES
    incurred,    \* the amount of each debt, 0 before it exists
    owed,        \* what is left of it
    earmarked    \* what of that is promised to a payroll

obligations == <<incurred, owed, earmarked>>

ObligationInit ==
    /\ incurred  = [d \in Debts |-> 0]
    /\ owed      = [d \in Debts |-> 0]
    /\ earmarked = [d \in Debts |-> 0]

Keeps(d) ==
    incurred'[d] = incurred[d] /\ owed'[d] = owed[d] /\ earmarked'[d] = earmarked[d]

Incurs(d) ==
    /\ incurred[d] = 0 /\ owed[d] = 0 /\ earmarked[d] = 0
    /\ incurred'[d] > 0
    /\ owed'[d] = incurred'[d]
    /\ earmarked'[d] = 0

(* More is promised to a payroll, out of what no payroll has been promised. *)
Earmarks(d) ==
    /\ incurred'[d] = incurred[d] /\ owed'[d] = owed[d]
    /\ earmarked[d] < earmarked'[d] /\ earmarked'[d] <= owed[d]

(* Something is paid or deducted directly; the promises stay good. *)
Discharges(d) ==
    /\ incurred'[d] = incurred[d] /\ earmarked'[d] = earmarked[d]
    /\ owed'[d] < owed[d] /\ earmarked[d] <= owed'[d]

(* A payroll fulfils a promise, in full, in part or not at all, and the promise  *)
(* lapses: what it did not take is owed as before.                               *)
Fulfils(d) ==
    /\ incurred'[d] = incurred[d]
    /\ earmarked'[d] < earmarked[d] /\ earmarked'[d] >= 0
    /\ owed'[d] <= owed[d]
    /\ owed[d] - owed'[d] <= earmarked[d] - earmarked'[d]

(* One transaction may touch many debts, each in one of these ways. *)
ObligationNext ==
    \A d \in Debts : Keeps(d) \/ Incurs(d) \/ Earmarks(d) \/ Discharges(d) \/ Fulfils(d)

ObligationSpec == ObligationInit /\ [][ObligationNext]_obligations

(* The promises of a debt are covered by what is owed of it. *)
PromisesCovered == \A d \in Debts : earmarked[d] <= owed[d] /\ owed[d] <= incurred[d]
=============================================================================
