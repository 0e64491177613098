-------------------------------- MODULE MCEnds --------------------------------
(***************************************************************************)
(* What must happen in the end, in small instances of six modules.  Each   *)
(* behaviour is of one instance: "scenario" says which, and the variables  *)
(* s1 to s10 are that instance's own (0 where it has fewer).  The          *)
(* instance of EmployeeRegistry uses the variables of that module.         *)
(***************************************************************************)
EXTENDS EmployeeRegistry

CONSTANTS t1, t2, e1, r1, v1

VARIABLES scenario, s1, s2, s3, s4, s5, s6, s7, s8, s9, s10

small == <<s1, s2, s3, s4, s5, s6, s7, s8, s9, s10>>
all   == <<vars, small, scenario>>

Both     == {t1, t2}
AllAtA   == [u \in {1} |-> "A"]
Somebody == {[site |-> "A", unit |-> 1, bank |-> FALSE, account |-> FALSE, eobi |-> FALSE]}
NoChange == {<<>>}
Field(n) == IF n = 1 THEN <<0, "amount">> ELSE <<1, "days">>

Ledger == INSTANCE CorrectionLedger WITH
  Employees <- {e1}, Adjustments <- {1}, LastCycle <- 1, Txns <- Both, Earnings <- {2}, FreshEarnings <- 2,
  LegacyFigure <- [v \in {2} |-> v],
  Proposals <- {[type |-> "RECOVERY", timing |-> "NULL", installment |-> 1, amount |-> 2]},
  ManualAmounts <- {2}, Leavers <- {}, Requests <- {"settle", "batch", "release", "finalize"},
  cycleStatus <- s1, entry <- s2, departed <- s3, adj <- s4, mat <- s5, settlement <- s6,
  reserved <- s7, cycleLock <- s8, adjLock <- s9, txn <- s10

Salaries == INSTANCE SalaryRelease WITH
  Employees <- {e1}, Units <- {1, 2}, SiteOf <- [u \in {1, 2} |-> "A"], Callers <- Both, MaxVersion <- 1,
  Edits <- {"hold", "delete"}, Alone <- {},
  entry <- s1, blocked <- s2, released <- s3, cycleStatus <- s4, lock <- s5, call <- s6

Cycles == INSTANCE CycleLifecycle WITH
  LastMonth <- 1, LastVersion <- 2, MaxEdits <- 1, MaxCrashes <- 1, DataFiles <- {"data"}, Callers <- {t1},
  CreatesOverlap <- FALSE, SlowGeneration <- FALSE, LostCommits <- FALSE,
  cycle <- s1, package <- s2, storage <- s3, up <- s4, crashes <- s5, call <- s6

Autosave == INSTANCE EntryAutosave WITH
  Keys <- {Field(1), Field(2)}, Lines <- {1}, Values <- {v1}, Unfinished <- {}, Refused <- {},
  NoValue <- None, MaxMounts <- 1, MaxAutoRetries <- 1, Careful <- {"line"}, MaxEdits <- 2,
  MaxLineEdits <- 0, MaxForeign <- 1, MaxLost <- 1, MaxClicks <- 0,
  server <- s1, cache <- s2, editors <- s3, mounted <- s4, mounts <- s5, store <- s6, orphans <- s7,
  typed <- s8, spent <- s9

Review == INSTANCE CorrectionRequests WITH
  Users <- Both, Requests <- {r1}, Entries <- {e1}, Fields <- {"GROSS_PAY"}, LineFields <- {}, Split <- {},
  Figures <- 1..2, Original <- [e \in {e1} |-> [f \in {"GROSS_PAY"} |-> 2]],
  Net <- [s \in [{"GROSS_PAY"} -> 1..2] |-> s["GROSS_PAY"]],
  Answers <- [decision : {"approve"}, field : {"GROSS_PAY"}, value : 1..2, timing : {TRUE}, installment : {FALSE}]
               \cup [decision : {"reject"}],
  Overlap <- TRUE, MaxClock <- 3,
  released <- s1, requests <- s2, corrections <- s3, owed <- s4, review <- s5, lock <- s6, clock <- s7

-----------------------------------------------------------------------------
Unused3 == s8 = 0 /\ s9 = 0 /\ s10 = 0
Unused4 == s7 = 0 /\ Unused3
NoSmall == s1 = 0 /\ s2 = 0 /\ s3 = 0 /\ s4 = 0 /\ s5 = 0 /\ s6 = 0 /\ Unused4
Nobody  == employee = 0 /\ placed = 0 /\ entry = 0 /\ cycle = 0 /\ draft = 0 /\ call = 0

EndsInit ==
  \/ scenario = "ledger" /\ Ledger!Init /\ Nobody
  \/ scenario = "release" /\ Salaries!Init /\ Unused4 /\ Nobody
  \/ scenario = "registry" /\ Init /\ NoSmall
  \/ scenario = "autosave" /\ Autosave!Init /\ s10 = 0 /\ Nobody
  \/ scenario = "review" /\ Review!Init /\ Unused3 /\ Nobody
  \/ scenario = "cycle" /\ Cycles!Init /\ Unused4 /\ Nobody

Rest  == UNCHANGED <<vars, scenario>>
Rest4 == Rest /\ UNCHANGED <<s7, s8, s9, s10>>

EndsNext ==
  \/ scenario = "ledger" /\ Ledger!Next /\ Rest
  \/ scenario = "release" /\ Salaries!Next /\ Rest4
  \/ scenario = "registry" /\ Next /\ UNCHANGED <<small, scenario>>
  \/ scenario = "autosave" /\ Autosave!Next /\ Rest /\ UNCHANGED s10
  \/ scenario = "review" /\ Review!Next /\ Rest /\ UNCHANGED <<s8, s9, s10>>
  \/ scenario = "cycle" /\ Cycles!Next /\ Rest4

\* The fairness of the six modules, each under its own scenario.  Of the two callers of the
\* registry, only one is relied upon to open the page of the draft again and again.
Contended(t) ==
  \/ scenario = "ledger" /\ (Ledger!Step(t) \/ Ledger!Refuse(t)) /\ Rest
  \/ scenario = "release" /\ Salaries!Serve(t) /\ Rest4
  \/ scenario = "review" /\ Review!Lock(t) /\ Rest /\ UNCHANGED <<s8, s9, s10>>
  \/ /\ scenario = "registry" /\ UNCHANGED <<small, scenario>>
     /\ \/ t = t1 /\ RequestReconcile(t1)
        \/ t = t2 /\ CommitReconcile(t1)

Served(t) ==
  \/ scenario = "ledger" /\ Ledger!AbortVictim(t) /\ Rest
  \/ scenario = "registry" /\ Serve(t) /\ UNCHANGED <<small, scenario>>
  \/ /\ scenario = "review" /\ Rest /\ UNCHANGED <<s8, s9, s10>>
     /\ Review!Approve(t) \/ Review!Reject(t) \/ Review!Refuse(t)
  \/ scenario = "cycle" /\ t = t1 /\ Cycles!Serve(t) /\ Rest4

Tab(A) == scenario = "autosave" /\ A /\ Rest /\ UNCHANGED s10

EndsSpec ==
  /\ EndsInit /\ [][EndsNext]_all
  /\ \A t \in Both : SF_all(Contended(t)) /\ WF_all(Served(t))
  /\ WF_all(Tab(Autosave!Render(1))) /\ WF_all(Tab(Autosave!Debounced(1))) /\ WF_all(Tab(Autosave!Retry(1)))
  /\ WF_all(Tab(Autosave!Handle(1))) /\ WF_all(Tab(Autosave!Deliver(1))) /\ WF_all(Tab(Autosave!Reloaded(1)))
  /\ \A n \in 1..2 : WF_all(scenario = "cycle" /\ Cycles!GrowOld(<<1, n>>) /\ Rest4)
  /\ WF_all(scenario = "cycle" /\ Cycles!Restart /\ Rest4)

-----------------------------------------------------------------------------
(* Every request that began ends: of the ledger it commits, is refused or is a deadlock's
   victim; a release is answered; a review of a correction request is decided or given up. *)
Begun(t) ==
  \/ scenario = "ledger" /\ s10[t].pc # "idle"
  \/ scenario = "release" /\ s6[t].pc \in {"loop", "sweeping"}
  \/ scenario = "review" /\ s5[t].phase # "none"
RequestsEnd == \A t \in Both : Begun(t) ~> ~Begun(t)

(* What waits for somebody is found: an active employee without an entry in the draft; a complete
   draft of a field, which is sent or shown as failed; a backup whose process died, as long as
   backups go on being asked for. *)
Waiting(n) ==
  \/ scenario = "registry" /\ Absent(e1)
  \/ scenario = "autosave" /\ s3[1].draft[Field(n)] = v1 /\ s3[1].status \notin {"error", "conflict"}
  \/ scenario = "cycle" /\ Cycles!StatusOf(<<1, n>>) = "GENERATING"
BackupsAskedFor == scenario = "cycle" => s6[t1].pc = "recover"
WaitingEnds == []<>BackupsAskedFor => \A n \in 1..2 : Waiting(n) ~> ~Waiting(n)

=============================================================================
