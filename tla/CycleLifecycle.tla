---------------------------- MODULE CycleLifecycle ----------------------------
(***************************************************************************)
(* Payroll cycles and their backup packages: the first cycle, its          *)
(* finalization, the rollover that archives a cycle with a fresh backup    *)
(* and opens the next one, manual backups, the recovery of abandoned ones, *)
(* and the crash and restart of the server.                                *)
(*                                                                         *)
(* A backup is reserved in the database, assembled in memory, written to   *)
(* storage file by file and committed; storage takes no part in the        *)
(* transaction. The rows of a cycle are one number here, the count of      *)
(* their edits. A cycle is named by its month, 1 .. LastMonth.             *)
(***************************************************************************)
EXTENDS Integers, FiniteSets, FiniteSetsExt, Functions

CONSTANTS
    LastMonth,       \* bound: the last month
    LastVersion,     \* bound: backups of one cycle
    MaxEdits,        \* bound: edits of one cycle's rows
    MaxCrashes,      \* bound: crashes of the server
    DataFiles,       \* the files of a backup besides its manifest
    Callers,         \* requests the server runs at the same time
    CreatesOverlap,  \* whether requests that create the first cycle may overlap
    SlowGeneration,  \* whether a generation may still run after the stale threshold
    LostCommits      \* whether a commit may succeed and be reported as failed

Months   == 1 .. LastMonth
Versions == 1 .. LastVersion
Files    == DataFiles \cup {"manifest"}
Keys     == Months \X Versions \X Files

ASSUME BoundsAssumption == LastMonth \in Nat /\ LastVersion \in Nat /\ MaxEdits \in Nat /\ MaxCrashes \in Nat
ASSUME FilesAssumption  == DataFiles # {} /\ "manifest" \notin DataFiles
ASSUME FlagsAssumption  == CreatesOverlap \in BOOLEAN /\ SlowGeneration \in BOOLEAN /\ LostCommits \in BOOLEAN

VARIABLES
    cycle,           \* PayrollCycle by month
    package,         \* BackupPackage by cycle and version
    storage,         \* the contents of the objects in storage
    up,              \* whether the server runs
    crashes,         \* how often it has crashed
    call             \* what each request is doing

vars == <<cycle, package, storage, up, crashes, call>>

-----------------------------------------------------------------------------
(* Rows. *)

CycleRecord   == [status : {"NONE", "DRAFT", "RELEASED", "ARCHIVED"}, edits : 0 .. MaxEdits,
                  backup : 0 .. LastVersion, asArchived : 0 .. MaxEdits]
PackageRecord == [status : {"NONE", "GENERATING", "READY", "FAILED"}, old : BOOLEAN]
Absent        == -1

NoCycle   == [status |-> "NONE", edits |-> 0, backup |-> 0, asArchived |-> 0]
NoPackage == [status |-> "NONE", old |-> FALSE]
NoData    == [f \in Files |-> Absent]

CallRecord == [kind : {"none", "create", "edit", "generate", "rollover"},
               pc : {"idle", "write", "recover", "fail", "number", "reserve", "assemble", "store", "commit", "clean"},
               month : 0 .. LastMonth, version : 0 .. LastVersion + 1,
               stale : SUBSET (Months \X Versions), data : [Files -> Absent .. MaxEdits],
               written : SUBSET Files]
Idle == [kind |-> "none", pc |-> "idle", month |-> 0, version |-> 0, stale |-> {},
         data |-> NoData, written |-> {}]

Existing         == {m \in Months : cycle[m].status # "NONE"}
Live             == {m \in Existing : cycle[m].status # "ARCHIVED"}
Of(t)            == <<call[t].month, call[t].version>>
StatusOf(p)      == package[p[1]][p[2]].status
Generating       == {p \in Months \X Versions : StatusOf(p) = "GENERATING"}
Workers(p)       == {t \in Callers : Of(t) = p /\ call[t].pc \in {"assemble", "store", "commit", "clean"}}
SetStatus(p, st) == [package EXCEPT ![p[1]][p[2]] = [status |-> st, old |-> FALSE]]

Step(t, r) == call' = [call EXCEPT ![t] = r]

Init ==
    /\ cycle = [m \in Months |-> NoCycle]
    /\ package = [m \in Months |-> [v \in Versions |-> NoPackage]]
    /\ storage = [k \in Keys |-> Absent]
    /\ up = TRUE
    /\ crashes = 0
    /\ call = [t \in Callers |-> Idle]

-----------------------------------------------------------------------------
(* The first cycle, finalization, and edits of a cycle's rows. *)

(* createPayrollCycle refuses when any cycle exists, whatever its status     *)
(* (the first form, for comparison, asks for a draft only).                  *)
NoDraftExists == \A m \in Existing : cycle[m].status # "DRAFT"
NoneExists    == Existing = {}

RequestCreate(t, m) ==
    /\ up /\ call[t].pc = "idle"
    /\ CreatesOverlap \/ \A u \in Callers : call[u].kind # "create"
    /\ NoneExists
    /\ Step(t, [Idle EXCEPT !.kind = "create", !.pc = "write", !.month = m])
    /\ UNCHANGED <<cycle, package, storage, up, crashes>>

Opened(m) == [NoCycle EXCEPT !.status = "DRAFT"]

(* The pair of year and month is unique; nothing else is checked again.      *)
CommitCreate(t) ==
    /\ call[t].kind = "create"
    /\ cycle' = IF cycle[call[t].month].status = "NONE"
                THEN [cycle EXCEPT ![call[t].month] = Opened(call[t].month)] ELSE cycle
    /\ Step(t, Idle)
    /\ UNCHANGED <<package, storage, up, crashes>>

Finalize(m) ==
    /\ up /\ cycle[m].status = "DRAFT"
    /\ cycle' = [cycle EXCEPT ![m].status = "RELEASED"]
    /\ UNCHANGED <<package, storage, up, crashes, call>>

(* An edit of a held entry: the cycle's status is read first, and the write  *)
(* is guarded by the entry's version only.                                   *)
RequestEdit(t, m) ==
    /\ up /\ call[t].pc = "idle"
    /\ cycle[m].status \in {"DRAFT", "RELEASED"} /\ cycle[m].edits < MaxEdits
    /\ Step(t, [Idle EXCEPT !.kind = "edit", !.pc = "write", !.month = m])
    /\ UNCHANGED <<cycle, package, storage, up, crashes>>

CommitEdit(t) ==
    /\ call[t].kind = "edit"
    /\ cycle' = IF cycle[call[t].month].edits < MaxEdits
                THEN [cycle EXCEPT ![call[t].month].edits = @ + 1] ELSE cycle
    /\ Step(t, Idle)
    /\ UNCHANGED <<package, storage, up, crashes>>

-----------------------------------------------------------------------------
(* A backup package: reserve, assemble, store, commit. *)

RequestGenerate(t, m) ==
    /\ up /\ call[t].pc = "idle"
    /\ cycle[m].status \in {"RELEASED", "ARCHIVED"}
    /\ Step(t, [Idle EXCEPT !.kind = "generate", !.pc = "recover", !.month = m])
    /\ UNCHANGED <<cycle, package, storage, up, crashes>>

(* One cycle is released, and its successor does not exist.                  *)
RequestRollover(t, m) ==
    /\ up /\ call[t].pc = "idle"
    /\ m < LastMonth
    /\ cycle[m].status = "RELEASED" /\ cycle[m + 1].status = "NONE"
    /\ \A n \in Months \ {m} : cycle[n].status # "RELEASED"
    /\ Step(t, [Idle EXCEPT !.kind = "rollover", !.pc = "recover", !.month = m])
    /\ UNCHANGED <<cycle, package, storage, up, crashes>>

(* The query of recoverStaleGeneratingBackupPackages (the first form, for    *)
(* comparison, compares the age the wrong way); its updates by id come later. *)
Recent        == {p \in Generating : ~package[p[1]][p[2]].old}
Stale         == {p \in Generating : package[p[1]][p[2]].old}

FindStale(t) ==
    /\ call[t].pc = "recover"
    /\ Step(t, [call[t] EXCEPT !.pc = "fail", !.stale = Stale])
    /\ UNCHANGED <<cycle, package, storage, up, crashes>>

Failed(S) ==
    [m \in Months |-> [v \in Versions |->
        IF <<m, v>> \in S THEN [status |-> "FAILED", old |-> FALSE] ELSE package[m][v]]]

(* Each of them is failed by an update of its own.                           *)
Recover(t) ==
    /\ call[t].pc = "fail"
    /\ \E p \in call[t].stale :
          /\ package' = Failed({p})
          /\ Step(t, [call[t] EXCEPT !.stale = @ \ {p}])
    /\ UNCHANGED <<cycle, storage, up, crashes>>

(* computeReleaseStatusSummary, for the manifest.                            *)
Summarize(t) ==
    /\ call[t].pc = "fail" /\ call[t].stale = {}
    /\ Step(t, [call[t] EXCEPT !.pc = "number", !.data["manifest"] = cycle[call[t].month].edits])
    /\ UNCHANGED <<cycle, package, storage, up, crashes>>

(* MAX(version) + 1 over the packages of the cycle, failed ones included.    *)
NextVersion(m) == 1 + Max({0} \cup {v \in Versions : package[m][v].status # "NONE"})

CountVersions(t) ==
    LET n == NextVersion(call[t].month) IN
    /\ call[t].pc = "number"
    /\ Step(t, IF n > LastVersion THEN Idle       \* bound
               ELSE [call[t] EXCEPT !.pc = "reserve", !.version = n])
    /\ UNCHANGED <<cycle, package, storage, up, crashes>>

(* The pair of cycle and version is unique (the first form, for comparison,  *)
(* does without).                                                            *)
AnyRow(p) == TRUE
Free(p)   == StatusOf(p) = "NONE"

Reserve(t) ==
    /\ call[t].pc = "reserve"
    /\ IF Free(Of(t))
       THEN /\ package' = SetStatus(Of(t), "GENERATING")
            /\ Step(t, [call[t] EXCEPT !.pc = "assemble"])
       ELSE /\ UNCHANGED package
            /\ Step(t, Idle)
    /\ UNCHANGED <<cycle, storage, up, crashes>>

(* Each export queries the cycle's rows by itself.                           *)
Assemble(t, f) ==
    /\ call[t].pc = "assemble" /\ call[t].data[f] = Absent
    /\ Step(t, [call[t] EXCEPT !.data[f] = cycle[call[t].month].edits,
                               !.pc = IF {g \in Files : call[t].data[g] = Absent} = {f}
                                      THEN "store" ELSE "assemble"])
    /\ UNCHANGED <<cycle, package, storage, up, crashes>>

Key(p, f) == <<p[1], p[2], f>>

(* The manifest is written first.                                            *)
Store(t, f) ==
    /\ call[t].pc = "store" /\ f \notin call[t].written
    /\ f # "manifest" => "manifest" \in call[t].written
    /\ storage' = [storage EXCEPT ![Key(Of(t), f)] = call[t].data[f]]
    /\ Step(t, [call[t] EXCEPT !.written = @ \cup {f},
                               !.pc = IF call[t].written \cup {f} = Files THEN "commit" ELSE "store"])
    /\ UNCHANGED <<cycle, package, up, crashes>>

(* A transaction that commits may still be reported as failed.               *)
Answered(t) ==
    \/ Step(t, Idle)
    \/ LostCommits /\ Step(t, [call[t] EXCEPT !.pc = "clean"])

CommitGenerate(t) ==
    /\ call[t].kind = "generate" /\ call[t].pc = "commit"
    /\ package' = SetStatus(Of(t), "READY")
    /\ Answered(t)
    /\ UNCHANGED <<cycle, storage, up, crashes>>

(* Archive the cycle if it is still released, publish its backup and open    *)
(* the next cycle, in one transaction.                                       *)
Archived(m, v)     == [cycle[m] EXCEPT !.status = "ARCHIVED", !.backup = v, !.asArchived = cycle[m].edits]

CommitRollover(t) ==
    LET m == call[t].month IN
    /\ call[t].kind = "rollover" /\ call[t].pc = "commit"
    /\ IF cycle[m].status = "RELEASED" /\ cycle[m + 1].status = "NONE"
       THEN /\ cycle' = [cycle EXCEPT ![m] = Archived(m, call[t].version), ![m + 1] = Opened(m + 1)]
            /\ package' = SetStatus(Of(t), "READY")
            /\ Answered(t)
       ELSE /\ UNCHANGED <<cycle, package>>
            /\ Step(t, [call[t] EXCEPT !.pc = "clean"])
    /\ UNCHANGED <<storage, up, crashes>>

(* Reading, writing or the final transaction fails. The file being written   *)
(* may be there or not; only those written before are cleaned up.            *)
Fail(t) ==
    /\ call[t].pc \in {"assemble", "store", "commit"}
    /\ Step(t, [call[t] EXCEPT !.pc = "clean"])
    /\ UNCHANGED <<cycle, package, storage, up, crashes>>

(* failBackupPackageGeneration deletes what this attempt wrote (the first    *)
(* form, for comparison, whatever is stored of the cycle), as far as it can, *)
(* and marks the package, if it can.                                         *)
AllOfCycle(t)    == {k \in Keys : k[1] = call[t].month}
WrittenByThis(t) == {Key(Of(t), f) : f \in call[t].written}

CleanUp(t) ==
    /\ call[t].pc = "clean"
    /\ \E D \in SUBSET WrittenByThis(t) :
          storage' = [k \in Keys |-> IF k \in D THEN Absent ELSE storage[k]]
    /\ package' \in {package, SetStatus(Of(t), "FAILED")}
    /\ Step(t, Idle)
    /\ UNCHANGED <<cycle, up, crashes>>

-----------------------------------------------------------------------------
(* Time, crashes and restarts. *)

GrowOld(p) ==
    /\ p \in Generating /\ ~package[p[1]][p[2]].old
    /\ SlowGeneration \/ Workers(p) = {}
    /\ package' = [package EXCEPT ![p[1]][p[2]].old = TRUE]
    /\ UNCHANGED <<cycle, storage, up, crashes, call>>

(* A crash ends every request; a transaction that was open is rolled back.   *)
Crash ==
    /\ up /\ crashes < MaxCrashes
    /\ up' = FALSE
    /\ crashes' = crashes + 1
    /\ call' = [t \in Callers |-> Idle]
    /\ UNCHANGED <<cycle, package, storage>>

Restart ==
    /\ ~up
    /\ up' = TRUE
    /\ package' = Failed(Stale)
    /\ UNCHANGED <<cycle, storage, crashes, call>>

Serve(t) ==
    \/ CommitCreate(t) \/ CommitEdit(t) \/ FindStale(t) \/ Recover(t) \/ Summarize(t) \/ CountVersions(t)
    \/ Reserve(t) \/ CommitGenerate(t) \/ CommitRollover(t) \/ Fail(t) \/ CleanUp(t)
    \/ \E f \in Files : Assemble(t, f) \/ Store(t, f)

Request(t, m) == RequestCreate(t, m) \/ RequestEdit(t, m) \/ RequestGenerate(t, m) \/ RequestRollover(t, m)

Next ==
    \/ \E t \in Callers : Serve(t) \/ \E m \in Months : Request(t, m)
    \/ \E m \in Months : Finalize(m)
    \/ \E p \in Months \X Versions : GrowOld(p)
    \/ Crash
    \/ Restart

Spec     == Init /\ [][Next]_vars
(* The server serves what it received and is restarted when it is down; time *)
(* passes. Nothing is assumed of the operators.                              *)
FairSpec ==
    /\ Spec
    /\ \A t \in Callers : WF_vars(Serve(t))
    /\ \A p \in Months \X Versions : WF_vars(GrowOld(p))
    /\ WF_vars(Restart)

-----------------------------------------------------------------------------
TypeOK ==
    /\ cycle \in [Months -> CycleRecord]
    /\ package \in [Months -> [Versions -> PackageRecord]]
    /\ storage \in [Keys -> Absent .. MaxEdits]
    /\ up \in BOOLEAN /\ crashes \in 0 .. MaxCrashes
    /\ call \in [Callers -> CallRecord]

(* One cycle is current, and the archived ones lead to it without a gap: a rollover never  *)
(* archives a cycle without opening its successor, nor opens one beside a current cycle,   *)
(* crashes and concurrent rollovers included. (Requests that create the first cycle do not *)
(* overlap: CreatesOverlap.)                                                               *)
OneCurrentCycle ==
    /\ Existing # {} => Cardinality(Live) = 1
    /\ \A m \in Existing \ Live : cycle[m + 1].status # "NONE"

(* A package that can be downloaded is whole: every file of it is in storage, whatever     *)
(* other generations of the same cycle did, failed ones and crashed ones included.         *)
ReadyIsWhole ==
    \A p \in Months \X Versions :
        StatusOf(p) = "READY" => \A f \in Files : storage[Key(p, f)] # Absent

(* An archived cycle has the backup it was archived with, and that backup is complete.     *)
ArchivedHasBackup ==
    \A m \in Months : cycle[m].status = "ARCHIVED" =>
        cycle[m].backup # 0 /\ StatusOf(<<m, cycle[m].backup>>) = "READY"

(* The history of packages is not rewritten: ready stays ready, failed is never generated  *)
(* again under its version, and what a ready package holds does not change.                *)
HistoryStep ==
    \A p \in Months \X Versions :
      /\ StatusOf(p) = "READY" => package'[p[1]][p[2]].status = "READY"
                                  /\ \A f \in Files : storage'[Key(p, f)] = storage[Key(p, f)]
      /\ StatusOf(p) = "FAILED" => package'[p[1]][p[2]].status = "FAILED"
PackagesAreFinal == [][HistoryStep]_vars

(* A generation under way is not declared abandoned while its request runs.                *)
LiveNotRecovered ==
    \A p \in Months \X Versions :
        StatusOf(p) = "FAILED" => \A t \in Workers(p) : call[t].pc = "clean"

(* All three, of rows and requests that have their types: packages can be relied upon.     *)
BackupsAreWhole == TypeOK /\ ReadyIsWhole /\ ArchivedHasBackup /\ LiveNotRecovered

=============================================================================
