------------------------- MODULE MCPayrollEntryEditing -------------------------
(***************************************************************************)
(* Small instances of PayrollEntryEditing in one run: "scenario" says      *)
(* which one a behaviour is of. All have the same rows, and the            *)
(* configuration names the values of all of them; what the properties say  *)
(* is said of each.                                                        *)
(***************************************************************************)
EXTENDS PayrollEntryEditing, TLC

CONSTANTS e1, t1, t2

MCSiteOf   == [u \in Units |-> IF u = 3 THEN "B" ELSE "A"]
MCSymmetry == Permutations(Callers)

VARIABLE scenario

(* Days and cycle days of two lines; nothing overlaps with a bulk update's writes. *)
Days == INSTANCE PayrollEntryEditing WITH
  Units <- {1, 2}, SiteOf <- [u \in {1, 2} |-> "A"], Rates <- {0}

(* Every kind of edit, with units of two sites. *)
Edits == INSTANCE PayrollEntryEditing WITH MaxDays <- 1, Bases <- {1}, Rates <- {0}

(* Bulk updates overlap with every other edit, in a cycle where nothing is released meanwhile. *)
Bulk == INSTANCE PayrollEntryEditing WITH
  Units <- {1, 3}, SiteOf <- [u \in {1, 3} |-> MCSiteOf[u]], MaxDays <- 0, Bases <- {1}, BulkOverlaps <- TRUE

NothingReleased == \A e \in Entries : entry'[e].resolved = entry[e].resolved

ScenarioInit ==
  \/ scenario = "days" /\ Days!Init
  \/ scenario = "edits" /\ Edits!Init
  \/ scenario = "bulk" /\ Bulk!Init

ScenarioNext ==
  /\ UNCHANGED scenario
  /\ \/ scenario = "days" /\ Days!Next
     \/ scenario = "edits" /\ Edits!Next
     \/ scenario = "bulk" /\ Bulk!Next /\ NothingReleased

all          == <<vars, scenario>>
ScenarioSpec == ScenarioInit /\ [][ScenarioNext]_all

=============================================================================
