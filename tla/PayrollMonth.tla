----------------------------- MODULE PayrollMonth -----------------------------
(***************************************************************************)
(* What happens within a month: advances (Advances) and the release of     *)
(* salaries (SalaryRelease). The two share the tables of cycles and        *)
(* entries but no property spans what each says of a row, so the release   *)
(* stands here as an instance with rows and requests of its own; its       *)
(* operators are Release!Operator.                                         *)
(***************************************************************************)
EXTENDS Advances

CONSTANTS
    Payees,         \* SalaryRelease's Employees
    Units, SiteOf,
    Callers,
    MaxVersion,
    Edits,
    Waiting         \* SalaryRelease's Alone: kinds of edit that wait for a sweep

VARIABLES rEntry, blocked, released, rCycleStatus, lock, call

rvars == <<rEntry, blocked, released, rCycleStatus, lock, call>>

Release == INSTANCE SalaryRelease WITH
  Employees <- Payees, Alone <- Waiting, entry <- rEntry, cycleStatus <- rCycleStatus

(* A split entry waits for all its units, in whatever order they are released, and the page's   *)
(* count of who will be released is what a sweep would take.                                    *)
SweepMatchesUnits == Release!SweepMatchesUnits

(* Release All leaves nobody behind who was eligible when it began and was not edited since. *)
AllReleased == [][Release!AnswerStep]_rvars

=============================================================================
