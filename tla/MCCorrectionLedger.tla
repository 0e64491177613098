-------------------------- MODULE MCCorrectionLedger --------------------------
(***************************************************************************)
(* Small instances of CorrectionLedger, side by side in one run: in every  *)
(* behaviour only one of them moves.  The constants of the configuration   *)
(* are those of "races".                                                   *)
(***************************************************************************)
EXTENDS CorrectionLedgerInvariant, CorrectionLedgerRefinement, TLC

CONSTANTS t1, t2, t3, e1

MCNegatives == {-1, 0, 1, 3}
MCEarnings  == {0, 2}

(* Figures both arithmetics round alike, and figures LEGACY_V1 rounds one unit down. *)
MCAlike            == [v \in MCEarnings |-> v]
MCRounded          == [v \in MCEarnings |-> IF v = 2 THEN 1 ELSE v]
MCNegativesRounded == [v \in MCNegatives |-> IF v = 3 THEN 2 ELSE v]

MCRecovery     == [type |-> "RECOVERY", timing |-> "NULL", installment |-> 0, amount |-> 2]
MCPayable      == [type |-> "PAYABLE", timing |-> "DEFERRED", installment |-> 0, amount |-> 2]
MCInstallments == [type |-> "RECOVERY", timing |-> "NULL", installment |-> 1, amount |-> 2]
MCTwoProposals == {MCInstallments, MCPayable}

MCSymmetry == Permutations(Txns)

-----------------------------------------------------------------------------
VARIABLES
  scenario,   \* which instance moves
  cycleStatus2, entry2, departed2, adj2, mat2, settlement2, reserved2, cycleLock2, adjLock2, txn2

vars2 == <<cycleStatus2, entry2, departed2, adj2, mat2, settlement2, reserved2, cycleLock2, adjLock2, txn2>>

(* One balance over two cycles, one request at a time. *)
Lifetime == INSTANCE CorrectionLedger WITH
  LastCycle <- 2, Txns <- {t3}, LegacyFigure <- MCRounded, Leavers <- {}, Requests <- Kinds,
  cycleStatus <- cycleStatus2, entry <- entry2, departed <- departed2, adj <- adj2, mat <- mat2,
  settlement <- settlement2, reserved <- reserved2, cycleLock <- cycleLock2, adjLock <- adjLock2,
  txn <- txn2

(* Two balances of one entry, whose figures do not always cover what they take. *)
Means == INSTANCE CorrectionLedger WITH
  Adjustments <- {1, 2}, Txns <- {t3}, Earnings <- MCNegatives, LegacyFigure <- MCNegativesRounded,
  Proposals <- MCTwoProposals \cup {MCRecovery}, Leavers <- {},
  Requests <- {"materialize", "release"},
  cycleStatus <- cycleStatus2, entry <- entry2, departed <- departed2, adj <- adj2, mat <- mat2,
  settlement <- settlement2, reserved <- reserved2, cycleLock <- cycleLock2, adjLock <- adjLock2,
  txn <- txn2

ScenarioInit ==
  /\ Init
  /\ \/ scenario \in {"races", "lifetime"} /\ Lifetime!Init
     \/ scenario = "means" /\ Means!Init

ScenarioNext ==
  /\ UNCHANGED scenario
  /\ \/ scenario = "races" /\ Next /\ UNCHANGED vars2
     \/ scenario = "lifetime" /\ Lifetime!Next /\ UNCHANGED vars
     \/ scenario = "means" /\ Means!Next /\ UNCHANGED vars

ScenarioSpec == ScenarioInit /\ [][ScenarioNext]_<<vars, vars2, scenario>>

-----------------------------------------------------------------------------
(* The books agree over two cycles, and when two recoveries are consumed by one entry whose     *)
(* figures do not always cover them.                                                            *)
BooksAgreeElsewhere ==
  /\ scenario = "lifetime" => Lifetime!BooksAgree
  /\ scenario = "means" => Means!BooksAgree

=============================================================================
