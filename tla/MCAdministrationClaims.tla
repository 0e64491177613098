------------------------ MODULE MCAdministrationClaims ------------------------
(***************************************************************************)
(* What the documentation says of the final administrator, and concurrent  *)
(* requests do not keep.                                                   *)
(***************************************************************************)
EXTENDS Administration

CONSTANTS root, ann, master, staff, manage, audit, keep

MCSeeded == [r \in {master, staff} |-> IF r = master THEN {manage, audit} ELSE {}]

\* "Always run inside the same transaction as the change being validated, so a concurrent race
\* can't slip through between check and mutation": there is always an administrator.
AdministratorSurvivesRaces == AdministratorRemains

=============================================================================
