------------------------------- MODULE MCMonth -------------------------------
(***************************************************************************)
(* Small instances of Advances and SalaryRelease, side by side in one run: *)
(* "scenario" says which instance a behaviour is of, and the variables of  *)
(* the other module stand still. The constants of the configuration are    *)
(* those of "races" and of "all units".                                    *)
(***************************************************************************)
EXTENDS PayrollMonth, TLC

CONSTANTS t1, t2, t3, e1, e2, e3

MCFull  == [repayment |-> "FULL_DEDUCTION", installment |-> 0, total |-> 2]
MCParts == [repayment |-> "INSTALLMENT", installment |-> 2, total |-> 3]
MCUnset == [repayment |-> "INSTALLMENT", installment |-> 0, total |-> 2]

MCTerms == {MCFull, MCParts}
MCPaid  == {5}

MCSites == [u \in 1..3 |-> IF u = 3 THEN "B" ELSE "A"]

MCSymmetry == Permutations({t1, t2}) \cup Permutations({e1, e2})

-----------------------------------------------------------------------------
VARIABLE scenario

(* The life of one advance in installments over three months, rollovers included. *)
Lifetime == INSTANCE Advances WITH
  LastMonth <- 3, Terms <- {MCParts}, ManualAmounts <- {}, Txns <- {t3},
  Requests <- {"create", "edit", "cancel", "defer", "release", "rollover"}

(* Two advances, departures, entries whose figures do not cover the deduction. *)
Roster == INSTANCE Advances WITH
  Advances <- {1, 2}, Terms <- {MCParts, MCUnset}, Totals <- {1}, Figures <- {0, 2},
  ManualAmounts <- {}, Leavers <- {e3}, Txns <- {t3},
  Requests <- {"create", "defer", "release", "rollover", "delete"}

OneSite == [u \in 1..2 |-> "A"]

(* Units of one site, two callers; the edits of lines do not fall into a sweep. *)
Waits == INSTANCE SalaryRelease WITH
  Employees <- Payees, Units <- 1..2, SiteOf <- OneSite,
  Edits <- {"hold", "addLine", "moveLine", "removeLine"}, Alone <- {"addLine", "moveLine"},
  entry <- rEntry, cycleStatus <- rCycleStatus

(* One operator at a time, and every kind of edit between the page and the sweep. *)
Page == INSTANCE SalaryRelease WITH
  Employees <- Payees, Units <- 1..2, SiteOf <- OneSite, MaxVersion <- 2,
  Edits <- {"hold", "addLine", "moveLine", "removeLine", "assign", "delete", "registry"},
  Alone <- {"hold", "addLine", "moveLine", "removeLine", "assign", "delete", "registry"},
  entry <- rEntry, cycleStatus <- rCycleStatus
OneOperator == \A t, u \in Callers : call'[t].pc # "idle" /\ call'[u].pc # "idle" => t = u

(* The instances are such as the theorems speak of. *)
ASSUME ReleasesAssumption == /\ Release!ReleaseConstants /\ Waits!ReleaseConstants /\ Page!ReleaseConstants
                             /\ Release!LinesWait /\ Waits!LinesWait /\ Page!EditsWait

NoAdvances == Init
NoRelease  == Release!Init /\ \A e \in Payees : rEntry[e].lines = {1}

ScenarioInit ==
  \/ scenario = "races" /\ Init /\ NoRelease
  \/ scenario = "lifetime" /\ Lifetime!Init /\ NoRelease
  \/ scenario = "roster" /\ Roster!Init /\ NoRelease
  \/ scenario = "waits" /\ Waits!Init /\ NoAdvances
  \/ scenario = "all units" /\ Release!Init /\ NoAdvances /\ \E e \in Payees : rEntry[e].lines = {1, 2}
  \/ scenario = "page" /\ Page!Init /\ NoAdvances

ScenarioNext ==
  /\ UNCHANGED scenario
  /\ \/ scenario = "races" /\ Next /\ UNCHANGED rvars
     \/ scenario = "lifetime" /\ Lifetime!Next /\ UNCHANGED rvars
     \/ scenario = "roster" /\ Roster!Next /\ UNCHANGED rvars
     \/ scenario = "waits" /\ Waits!Next /\ UNCHANGED vars
     \/ scenario = "all units" /\ Release!Next /\ UNCHANGED vars
     \/ scenario = "page" /\ Page!Next /\ OneOperator /\ UNCHANGED vars

all          == <<vars, rvars, scenario>>
ScenarioSpec == ScenarioInit /\ [][ScenarioNext]_all

-----------------------------------------------------------------------------
(* The books of advances agree exactly, where every release can bear the deduction: what an     *)
(* advance owes and what its entries deduct add up to its total; it is RESERVED only while an   *)
(* entry that no sweep has resolved deducts its last part.                                      *)
AdvanceBooksAgree ==
  /\ scenario = "races" => TypeOK /\ Conserved
  /\ scenario = "lifetime" => Lifetime!Conserved /\ Lifetime!ReservedHasCarrier

(* Nothing the operator saw is swept in another form, and a sweep under way resolves nothing    *)
(* after the cycle is finalized.                                                                *)
SweptAsShown == [][scenario = "page" => Page!SeenStep /\ Page!SettledStep]_all

=============================================================================
