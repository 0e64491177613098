---------------------- MODULE CorrectionLedgerRefinement ----------------------
(* The ledger of balance adjustments implements the abstract Obligation: a debt is *)
(* an adjustment, owed is its remainingAmount, earmarked what is reserved of it.   *)
EXTENDS CorrectionLedger

Abstract == INSTANCE Obligation WITH
    Debts     <- Adjustments,
    incurred  <- [a \in Adjustments |-> adj[a].amount],
    owed      <- [a \in Adjustments |-> adj[a].remaining],
    earmarked <- reserved

(* Every transaction of the detailed ledger is, debt by debt, a step the abstract   *)
(* specification allows: no lock order, race, partial consumption or rollback lets  *)
(* one path take what another has been promised.                                    *)
ImplementsObligation == Abstract!ObligationSpec
=============================================================================
