---------------------------- MODULE MCEntryAutosave ----------------------------
(***************************************************************************)
(* Small instances of EntryAutosave in one run: "scenario" says which one  *)
(* a behaviour is of.  The constants of the configuration are those of     *)
(* "edits".                                                                *)
(***************************************************************************)
EXTENDS EntryAutosave

CONSTANTS v1, v2, half, over, nothing

MCTwoKeys == {<<0, "amount">>, <<1, "days">>}

VARIABLE scenario

(* One field that is typed again and again, on a row that is scrolled out and back. *)
Again == INSTANCE EntryAutosave WITH
  Keys <- {<<0, "amount">>}, MaxEdits <- 5, MaxLost <- 0, MaxClicks <- 0

(* The field that is compared by its text, next to one of the entry. *)
Texts == INSTANCE EntryAutosave WITH
  Keys <- {<<0, "amount">>, <<1, "cycleDays">>}, MaxMounts <- 1, MaxEdits <- 4, MaxLost <- 0, MaxClicks <- 0

(* Lines come and go, values are unfinished or refused; the row is scrolled away when saved. *)
Shown == INSTANCE EntryAutosave WITH
  Keys <- {<<0, "amount">>, <<2, "days">>}, Lines <- {1, 2}, Values <- {v1, half, over},
  Unfinished <- {half}, Refused <- {over}, Careful <- {"line", "scroll"}, MaxLineEdits <- 2, MaxForeign <- 0

ScenarioInit ==
  \/ scenario = "edits" /\ Init
  \/ scenario = "again" /\ Again!Init
  \/ scenario = "texts" /\ Texts!Init
  \/ scenario = "shown" /\ Shown!Init

ScenarioNext ==
  /\ UNCHANGED scenario
  /\ \/ scenario = "edits" /\ Next
     \/ scenario = "again" /\ Again!Next
     \/ scenario = "texts" /\ Texts!Next
     \/ scenario = "shown" /\ Shown!Next

all          == <<vars, scenario>>
ScenarioSpec == ScenarioInit /\ [][ScenarioNext]_all

-----------------------------------------------------------------------------
(* What the user typed last for a field is still a draft, or is what the server has, as long as
   nothing is typed before a reload is answered and the text of cycleDays is not changed between
   the start of a flush and its own request. *)
LastEditIsKept ==
  /\ scenario = "edits" => TypeOK /\ LastEditKept
  /\ scenario = "again" => Again!LastEditKept
  /\ scenario = "texts" => Texts!LastEditKept

(* A draft that is not saved is shown as such, or is about to be. *)
PendingShown == scenario = "shown" => Shown!TypeOK /\ Shown!PendingIsShown

=============================================================================
