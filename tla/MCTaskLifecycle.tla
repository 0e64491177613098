--------------------------- MODULE MCTaskLifecycle ---------------------------
(***************************************************************************)
(* Two small instances of TaskLifecycle in one run: "scenario" says which  *)
(* one moves.  The constants of the configuration are those of "alone":    *)
(* requests are made one at a time.                                        *)
(***************************************************************************)
EXTENDS TaskLifecycle

CONSTANTS ann, bob, cid, t1, keep, nobody

VARIABLES scenario, tasks2, notes2, sent2, asked2

vars2 == <<tasks2, notes2, sent2, asked2>>

(* Requests overlap. *)
Overlapping == INSTANCE TaskLifecycle WITH
  Overlap <- TRUE, MaxNotes <- 3,
  tasks <- tasks2, notes <- notes2, sent <- sent2, asked <- asked2

ScenarioInit == Init /\ Overlapping!Init /\ scenario \in {"alone", "overlapping"}

ScenarioNext ==
  \/ scenario = "alone" /\ Next /\ UNCHANGED <<vars2, scenario>>
  \/ scenario = "overlapping" /\ Overlapping!Next /\ UNCHANGED <<vars, scenario>>

all          == <<vars, vars2, scenario>>
ScenarioSpec == ScenarioInit /\ [][ScenarioNext]_all

-----------------------------------------------------------------------------
(* However requests overlap, a task to do has no date of completion, a completed one has it, and *)
(* the assignee of each has been told; a cancelled task may have a date, and a notification to   *)
(* its assignee may be an old one.                                                               *)
OverlapsTold == Overlapping!TypeOK /\ Overlapping!DatedIsCompleted /\ Overlapping!AssigneeWasTold

=============================================================================
