------------------------------- MODULE MCCycles -------------------------------
(***************************************************************************)
(* Small instances of CycleLifecycle and EmployeeRegistry, side by side in *)
(* one run: "scenario" says which instance a behaviour is of. The          *)
(* constants of the configuration are those of "cycles" and of "alone".    *)
(* What the properties say of "alone" they say of the other instances of   *)
(* the registry too: each meets the conditions of EmployeeRegistry, or     *)
(* leaves out what would be needed to break them.                          *)
(***************************************************************************)
EXTENDS StaffedCycles, TLC

CONSTANTS e1, t1, t2

MCSiteOf   == [u \in 1..3 |-> IF u = 3 THEN "B" ELSE "A"]
MCSymmetry == Permutations(Callers)

Person(u, b, a, i) == [site |-> MCSiteOf[u], unit |-> u, bank |-> b, account |-> a, eobi |-> i]

PlaceProfiles == {Person(u, FALSE, FALSE, FALSE) : u \in 1..3}
PlacePatches  == {[unit |-> u] : u \in 1..3} \cup {[site |-> MCSiteOf[u], unit |-> u] : u \in 1..3}
BankProfiles  == {Person(1, b, b, FALSE) : b \in BOOLEAN}
BankPatches   == {[bank |-> b] : b \in BOOLEAN} \cup {[account |-> b] : b \in BOOLEAN}
                 \cup {[bank |-> b, account |-> a] : b \in BOOLEAN, a \in BOOLEAN}
EobiProfiles  == {Person(1, FALSE, FALSE, b) : b \in BOOLEAN}
EobiPatches   == {<<>>} \cup {[eobi |-> b] : b \in BOOLEAN}

MCProfiles == {Person(u, b, b, i) : u \in 1..3, b \in BOOLEAN, i \in BOOLEAN}
MCPatches  == PlacePatches \cup BankPatches \cup EobiPatches

-----------------------------------------------------------------------------
VARIABLE scenario

(* Units and sites: partial updates that overlap with transfers. *)
Places == INSTANCE EmployeeRegistry WITH
  Profiles <- PlaceProfiles, Patches <- PlacePatches,
  Requests <- {"create", "update", "leave", "reactivate"}, Alone <- {"leave"},
  cycle <- current, call <- request

(* Banks and accounts: updates that do not overlap, and a form that sends every field. *)
Banks == INSTANCE EmployeeRegistry WITH
  Profiles <- BankProfiles, Patches <- BankPatches, Owing <- {},
  Requests <- {"create", "update", "leave", "reactivate"}, Alone <- {"update", "leave", "reactivate"},
  FormResubmits <- TRUE, cycle <- current, call <- request

(* EOBI of the employee and of the entry. *)
Eobi == INSTANCE EmployeeRegistry WITH
  Profiles <- EobiProfiles, Patches <- EobiPatches, Owing <- {},
  Requests <- {"create", "update", "leave"}, Alone <- {}, cycle <- current, call <- request

(* Departures and returns over two cycles, while no roster is being read. *)
Leaving == INSTANCE EmployeeRegistry WITH
  Profiles <- {Person(1, FALSE, FALSE, FALSE)}, Patches <- {<<>>},
  Requests <- {"create", "leave", "reactivate", "update", "reconcile", "rollover"},
  Alone <- {"leave", "reconcile", "rollover"}, MaxCycle <- 2, cycle <- current, call <- request

(* Every instance has the constants that EmployeeRegistry is about. *)
ASSUME RegistriesAssumption ==
  /\ Staff!RegistryConstants /\ Places!RegistryConstants /\ Banks!RegistryConstants
  /\ Eobi!RegistryConstants /\ Leaving!RegistryConstants

(* Nobody's EOBI is edited. *)
EobiRests == \A e \in Employees : employee[e].present => employee'[e].eobi = employee[e].eobi

(* Nobody's entry is put on hold, or off hold, by hand. *)
HoldRests == \A e \in Employees : ~Staff!SwitchHold(e)

(* Requests that overlap are about the same month. *)
OneMonth == \A t, u \in Callers : call'[t].month # 0 /\ call'[u].month # 0 => call'[t].month = call'[u].month

NoStaff == Staff!Init /\ \A e \in Employees : ~employee[e].present

ScenarioInit ==
  /\ Init
  /\ \/ scenario = "cycles" /\ NoStaff
     \/ scenario = "alone" /\ Staff!Init
     \/ scenario = "places" /\ Places!Init
     \/ scenario = "banks" /\ Banks!Init
     \/ scenario = "eobi" /\ Eobi!Init
     \/ scenario = "leaving" /\ Leaving!Init

ScenarioNext ==
  /\ UNCHANGED scenario
  /\ \/ scenario = "cycles" /\ Next /\ OneMonth /\ UNCHANGED rvars
     \/ /\ UNCHANGED vars
        /\ \/ scenario = "alone" /\ Staff!Next
           \/ scenario = "places" /\ Places!Next /\ EobiRests
           \/ scenario = "banks" /\ Banks!Next /\ EobiRests
           \/ scenario = "eobi" /\ Eobi!Next /\ HoldRests
           \/ scenario = "leaving" /\ Leaving!Next /\ EobiRests

all          == <<vars, rvars, scenario>>
ScenarioSpec == ScenarioInit /\ [][ScenarioNext]_all

=============================================================================
