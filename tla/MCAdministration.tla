--------------------------- MODULE MCAdministration ---------------------------
(***************************************************************************)
(* Small instances of Administration in one run, over the same variables:  *)
(* "scenario" says which requests are made, those that the configuration   *)
(* names, about roles that come and go ("roles"), or those about users and *)
(* what their roles permit ("users").  Transactions do not overlap;        *)
(* sign-ins and revocations fall in between.                               *)
(***************************************************************************)
EXTENDS Administration

CONSTANTS root, ann, master, staff, extra, manage, audit, keep

MCSeeded == [r \in {master, staff} |-> IF r = master THEN {manage, audit} ELSE {}]

VARIABLE scenario

UserChanges == INSTANCE Administration WITH
  Kinds <- {"updateUser", "createUser", "updateRole"}, Names <- {}

ScenarioInit == Init /\ scenario \in {"roles", "users"}
ScenarioNext ==
  /\ UNCHANGED scenario
  /\ \/ scenario = "roles" /\ Next
     \/ scenario = "users" /\ UserChanges!Next

all          == <<vars, scenario>>
ScenarioSpec == ScenarioInit /\ [][ScenarioNext]_all

=============================================================================
