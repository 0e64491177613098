-------------------------- MODULE MCCorrectionRequests --------------------------
(***************************************************************************)
(* Two small instances of CorrectionRequests in one run: "scenario" says   *)
(* which one moves.  Reviews of one field of one entry overlap             *)
(* ("overlaps", the constants of the configuration) or follow one another  *)
(* ("alone").  The net salary is a gross pay times days.                   *)
(***************************************************************************)
EXTENDS CorrectionRequests, TLC

CONSTANTS e1, e2, r1, r2, r3, ann, bob

MCFields     == {"GROSS_PAY", "DAYS"}
MCLineFields == {"DAYS"}
MCFigures    == 1..2
MCNet        == [s \in [MCFields -> MCFigures] |-> s["GROSS_PAY"] * s["DAYS"]]
MCOriginal   == [e \in Entries |-> [f \in Fields |-> 2]]
MCAnswers    ==
  [decision : {"approve"}, field : {"GROSS_PAY"}, value : 1..2, timing : {TRUE}, installment : {FALSE}]
    \cup [decision : {"reject"}]

MCSymmetry == Permutations(Requests) \cup Permutations(Users)

VARIABLE scenario

(* Two entries, one with several work lines, and corrections of two fields. *)
Alone == INSTANCE CorrectionRequests WITH
  Overlap <- FALSE, Answers <- {a \in Answer : a.decision = "approve" => a.timing # a.installment}

(* Requests are about the first entry. *)
OneEntry == \A r \in Requests : requests'[r] # NoRequest => requests'[r].entry = e1

ScenarioInit == scenario \in {"alone", "overlaps"} /\ Init

ScenarioNext ==
  /\ UNCHANGED scenario
  /\ \/ scenario = "overlaps" /\ Next /\ OneEntry
     \/ scenario = "alone" /\ Alone!Next

ScenarioSpec == ScenarioInit /\ [][ScenarioNext]_<<vars, scenario>>

=============================================================================
