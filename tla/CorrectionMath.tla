---------------------------- MODULE CorrectionMath ----------------------------
(***************************************************************************)
(* The pure rules of the corrections subsystem: how much of a balance may  *)
(* be settled, how much may be reserved into a payroll cycle, and how much *)
(* of a reserved recovery an entry can bear when it is released.           *)
(*                                                                         *)
(* Amounts are integers (hundredths of a rupee in the code, which computes *)
(* with exact decimals of two places and never rounds in these rules).     *)
(***************************************************************************)
EXTENDS Integers

Lesser(x, y)  == IF x <= y THEN x ELSE y
Greater(x, y) == IF x >= y THEN x ELSE y

-----------------------------------------------------------------------------
(* Settlement. *)

(* calculateSettlement accepts exactly the proposals of SettlementAccepted and throws *)
(* on every other; the form before it, for comparison, drops one of its checks.       *)
AcceptedDespiteReservations(status, remaining, activeReserved, proposed) ==
    status # "SETTLED" /\ proposed > 0 /\ proposed <= remaining
SettlementAccepted(status, remaining, activeReserved, proposed) ==
    /\ status # "SETTLED"
    /\ proposed > 0
    /\ proposed <= remaining
    /\ proposed <= remaining - activeReserved

(* The status calculateSettlement gives the balance that is left. *)
StatusAfter(newRemaining) == IF newRemaining = 0 THEN "SETTLED" ELSE "PENDING"

(* A standalone payment proposes the whole remaining balance. *)
StandalonePaymentAccepted(status, remaining, activeReserved) ==
    SettlementAccepted(status, remaining, activeReserved, remaining)

-----------------------------------------------------------------------------
(* Materialization: reserving a balance into a draft cycle. *)

(* The types listMaterializableAdjustments selects and determineMaterialization supports. *)
MaterializableType(type, timing) ==
    \/ type = "RECOVERY"
    \/ type = "PAYABLE" /\ timing = "DEFERRED"

(* determineMaterialization's answer is "eligible". *)
Eligible(adjustment, activeReserved, hasLeft, targetStatus, materialized, exists, released) ==
    /\ targetStatus = "DRAFT"
    /\ ~materialized
    /\ adjustment.status # "SETTLED"
    /\ MaterializableType(adjustment.type, adjustment.timing)
    /\ exists
    /\ ~released
    /\ ~(adjustment.type = "RECOVERY" /\ hasLeft)
    /\ adjustment.remaining > 0
    /\ adjustment.remaining - activeReserved > 0

(* The amount of an eligible adjustment it reserves; installment 0 is the null column. *)
(* The first form, for comparison, takes what is available from the original amount.  *)
ReservationOfAmount(adjustment, activeReserved) ==
    LET available == adjustment.amount - activeReserved
    IN  IF adjustment.type = "RECOVERY" /\ adjustment.installment > 0
          THEN Lesser(adjustment.installment, available)
          ELSE available
ReservationAmount(adjustment, activeReserved) ==
    LET available == adjustment.remaining - activeReserved
    IN  IF adjustment.type = "RECOVERY" /\ adjustment.installment > 0
          THEN Lesser(adjustment.installment, available)
          ELSE available

-----------------------------------------------------------------------------
(* Net salary at release. *)

(* calcNet: "earnings" is everything but the two correction columns. *)
NetSalary(earnings, payable, recovery) == earnings + payable - recovery

(* computeReleaseRecoveryAdjustment's cappedRecoveryConsumption ... *)
CappedRecovery(net, recovery) ==
    IF recovery <= 0 \/ net >= 0
      THEN recovery
      ELSE Greater(0, Lesser(recovery, net + recovery))

(* ... and its adjustedNetSalary. *)
AdjustedNet(net, recovery) ==
    IF recovery <= 0 \/ net >= 0
      THEN net
      ELSE net + recovery - CappedRecovery(net, recovery)

(* evaluatePayrollEntryReleaseReadiness: the outcome of a releasable entry. *)
PayoutOutcome(adjustedNet) ==
    IF adjustedNet > 0 THEN "PAID"
    ELSE IF adjustedNet = 0 THEN "NO_PAY_DUE"
    ELSE "RECOVERY_DUE"
=============================================================================
