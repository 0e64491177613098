---------------------------- MODULE MCLedgerClaims ----------------------------
(***************************************************************************)
(* What comments of the repository say of the corrections subsystem and    *)
(* its code does not keep.  Each is checked by a run of its own, which     *)
(* finds a behaviour that breaks it.                                       *)
(***************************************************************************)
EXTENDS CorrectionLedger

CONSTANTS t1, t2, e1

MCEarnings  == {0, 2}
MCAlike     == [v \in MCEarnings |-> v]
MCProposals == {[type |-> "RECOVERY", timing |-> "NULL", installment |-> 1, amount |-> 2]}

(* "Always cycle, then adjustment, never the reverse ... the one rule that makes    *)
(* cross-checkpoint deadlock impossible" (corrections.materialization.service.ts). *)
(* A manual settlement holds the adjustment and then needs the cycle row, for the   *)
(* foreign key of the settlement it inserts.                                        *)
NoDeadlock == \A t \in Txns : ~Deadlocked(t)

(* The snapshot persists "the identical figures the decision was actually made      *)
(* from" and the entry is locked at them (payroll-release.service.ts): a resolved   *)
(* entry's own figures give the net its snapshot authorizes. The updates are        *)
(* guarded by id only, so an edit between the read and the write survives in the    *)
(* released entry.                                                                  *)
SnapshotAgrees ==
    \A c \in Cycles, e \in Employees :
        LET row == entry[c][e] IN
        Resolved(row) /\ cycleStatus[c] = "DRAFT" => row.net = AdjustedNet(Net(row), row.recovery)

=============================================================================
