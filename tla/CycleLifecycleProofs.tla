------------------------- MODULE CycleLifecycleProofs -------------------------
(***************************************************************************)
(* Two developments about cycles and the employees in them.                *)
(*                                                                         *)
(* The months: for any number of months, versions, files, requests and     *)
(* crashes, one cycle is current (OneCurrentCycle), backups stay whole     *)
(* (BackupsAreWhole) and their history is final (PackagesAreFinal). There  *)
(* are two inductive invariants. CyclesInv is about the cycles and the     *)
(* requests that are about to create one. BackupsInv says what a request   *)
(* at work on a package relies on: that the package is its own, is still   *)
(* GENERATING, and holds what the request wrote. A flag of the module      *)
(* (CreatesOverlap, SlowGeneration, LostCommits) is the hypothesis of what *)
(* would not hold under it.                                                *)
(*                                                                         *)
(* The employees whose entries they hold: for any employees, units,        *)
(* profiles, patches and mixture of requests, the registry is coherent     *)
(* (EmployeesCoherent), the open draft follows it (EntriesFollow), who has *)
(* left is not paid unless somebody decides so (LeaversStayUnpaid) and     *)
(* what is resolved stays resolved (ResolvedAlwaysOutlives). RegistryInv   *)
(* is inductive: it says what a request may still believe of the employee  *)
(* it read, and EobiInv what it may believe of the entry it found.         *)
(***************************************************************************)
EXTENDS StaffedCycles, SumProofs

Pairs == Months \X Versions

AtWork     == {"assemble", "store", "commit", "clean"}
Working(t) == call[t].pc \in AtWork

(* What a request knows in each of its phases. *)
Shaped(c) ==
    /\ c.pc \in {"recover", "fail", "number", "reserve"} \cup AtWork => c.kind \in {"generate", "rollover"} /\ c.month \in Months
    /\ c.kind \in {"create", "edit"} => c.month \in Months
    /\ c.kind = "rollover" => c.month < LastMonth
    /\ c.pc \in {"reserve"} \cup AtWork => c.version \in Versions
    /\ c.pc # "fail" => c.stale = {}
    /\ c.pc \in {"recover", "fail", "number", "reserve", "assemble"} => c.written = {}
    /\ c.pc = "store" => \A f \in Files : c.data[f] # Absent
    /\ c.pc = "commit" => c.written = Files

ShapedRecord == {c \in CallRecord : Shaped(c)}
ShapedCalls  == call \in [Callers -> ShapedRecord]

-----------------------------------------------------------------------------
(* Cycles: a cycle that is archived has its successor. While requests that create the first *)
(* cycle do not overlap, one cycle is current, and while such a request runs there is none. *)
Chained   == \A m \in Months : cycle[m].status = "ARCHIVED" => m + 1 \in Months /\ cycle[m + 1].status # "NONE"
OneLive   == /\ \A m \in Live, n \in Live : m = n
             /\ Existing # {} => Live # {}
CreatesOK == /\ \A t \in Callers : call[t].kind = "create" => Existing = {}
             /\ \A t \in Callers, u \in Callers : call[t].kind = "create" /\ call[u].kind = "create" => t = u

CyclesInv ==
    /\ TypeOK
    /\ ShapedCalls
    /\ Chained
    /\ ~CreatesOverlap => OneLive /\ CreatesOK

-----------------------------------------------------------------------------
(* Packages. *)
Calmly == ~LostCommits /\ ~SlowGeneration

(* No two requests work on one package. *)
Exclusive == \A t \in Callers, u \in Callers : Working(t) /\ Working(u) /\ Of(t) = Of(u) => t = u

(* The package a request works on is reserved and not ready, is not yet taken for abandoned *)
(* when no generation is slow, and holds the files the request has written.                 *)
WorkerOK(t) ==
    Working(t) =>
      /\ StatusOf(Of(t)) # "NONE"
      /\ ~LostCommits => /\ StatusOf(Of(t)) # "READY"
                         /\ \A f \in call[t].written : storage[Key(Of(t), f)] # Absent
      /\ Calmly => StatusOf(Of(t)) = "GENERATING" /\ ~package[Of(t)[1]][Of(t)[2]].old

(* What a request is about to declare abandoned is so. *)
StaleOK(t) ==
    \A p \in call[t].stale :
      Calmly => \/ StatusOf(p) = "FAILED"
                \/ StatusOf(p) = "GENERATING" /\ package[p[1]][p[2]].old

BackupsInv ==
    /\ Exclusive
    /\ \A t \in Callers : WorkerOK(t) /\ StaleOK(t)
    /\ ~LostCommits => ReadyIsWhole
    /\ Calmly => ArchivedHasBackup

-----------------------------------------------------------------------------
(* Helpers. *)

LEMMA FilesHaveAManifest == "manifest" \in Files
  BY DEF Files

(* MAX(version) + 1 is a version, or the first one past the bound. *)
LEMMA NextVersionType ==
  ASSUME TypeOK, NEW m \in Months
  PROVE  NextVersion(m) \in 1 .. LastVersion + 1
<1> DEFINE S == {0} \cup {v \in Versions : package[m][v].status # "NONE"}
           T == {LastVersion - v : v \in S}
<1>1. S \subseteq 0 .. LastVersion /\ LastVersion \in Nat
  BY BoundsAssumption DEF Versions
<1>2. T \subseteq Nat /\ T # {}
  BY <1>1
<1>3. PICK d \in T : \A e \in T : d <= e
  BY <1>2, LeastNatural
<1>4. PICK x \in S : d = LastVersion - x
  OBVIOUS
<1>5. \A y \in S : x >= y
  <2> TAKE y \in S
  <2>1. d <= LastVersion - y
    BY <1>3
  <2> QED BY <1>1, <1>4, <2>1
<1>6. Max(S) \in S
  <2> HIDE DEF S
  <2> QED BY <1>5 DEF Max
<1>7. NextVersion(m) = 1 + Max(S)
  BY DEF NextVersion
<1> QED
  <2> HIDE DEF S
  <2>1. PICK n \in S : Max(S) = n
    BY <1>6, Zenon
  <2>2. n \in 0 .. LastVersion
    BY <1>1
  <2>3. NextVersion(m) = 1 + n
    BY <1>7, <2>1, Zenon
  <2> QED BY <1>1, <2>2, <2>3

(* A change of one package, and of those declared abandoned. *)
LEMMA StatusSet ==
  ASSUME TypeOK, NEW p \in Pairs, NEW st \in {"NONE", "GENERATING", "READY", "FAILED"}
  PROVE  /\ SetStatus(p, st) \in [Months -> [Versions -> PackageRecord]]
         /\ \A m \in Months, v \in Versions :
              SetStatus(p, st)[m][v] = IF m = p[1] /\ v = p[2] THEN [status |-> st, old |-> FALSE] ELSE package[m][v]
  BY DEF TypeOK, Pairs, SetStatus, PackageRecord

LEMMA AbandonedSet ==
  ASSUME TypeOK, NEW S
  PROVE  /\ Failed(S) \in [Months -> [Versions -> PackageRecord]]
         /\ \A m \in Months, v \in Versions :
              Failed(S)[m][v] = IF <<m, v>> \in S THEN [status |-> "FAILED", old |-> FALSE] ELSE package[m][v]
  BY DEF TypeOK, Failed, PackageRecord

LEMMA IdleIsShaped == Idle \in ShapedRecord
  BY BoundsAssumption DEF ShapedRecord, Shaped, Idle, CallRecord, NoData, AtWork, Absent

LEMMA RequestIsShaped ==
  ASSUME NEW k, NEW pc, NEW m \in Months, k = "rollover" => m < LastMonth,
         (k \in {"create", "edit"} /\ pc = "write") \/ (k \in {"generate", "rollover"} /\ pc = "recover")
  PROVE  [Idle EXCEPT !.kind = k, !.pc = pc, !.month = m] \in ShapedRecord
<1> DEFINE r == [Idle EXCEPT !.kind = k, !.pc = pc, !.month = m]
<1>1. /\ r.kind = k /\ r.pc = pc /\ r.month = m /\ r.version = 0
      /\ r.stale = {} /\ r.written = {} /\ r.data = NoData
      /\ DOMAIN r = DOMAIN Idle
  BY DEF Idle
<1>2. r \in CallRecord
  <2>1. Idle \in CallRecord /\ m \in 0 .. LastMonth
    BY IdleIsShaped, BoundsAssumption DEF ShapedRecord, Months
  <2>2. k \in {"none", "create", "edit", "generate", "rollover"}
        /\ pc \in {"idle", "write", "recover", "fail", "number", "reserve", "assemble", "store", "commit", "clean"}
    OBVIOUS
  <2> QED BY <2>1, <2>2 DEF CallRecord
<1>3. Shaped(r)
  <2> HIDE DEF r
  <2> QED BY <1>1 DEF Shaped, AtWork
<1> QED BY <1>2, <1>3 DEF ShapedRecord

LEMMA Moved ==
  ASSUME ShapedCalls, NEW t \in Callers, NEW r \in ShapedRecord, Step(t, r)
  PROVE  ShapedCalls' /\ call'[t] = r /\ \A u \in Callers \ {t} : call'[u] = call[u]
  BY DEF ShapedCalls, Step

-----------------------------------------------------------------------------
(* Types, and the shape of every request. *)

LEMMA TypeNext ==
  ASSUME TypeOK, ShapedCalls, Next
  PROVE  TypeOK' /\ ShapedCalls'
<1> USE DEF Absent
<1>0. /\ cycle \in [Months -> CycleRecord] /\ package \in [Months -> [Versions -> PackageRecord]]
      /\ storage \in [Keys -> Absent .. MaxEdits] /\ up \in BOOLEAN /\ crashes \in 0 .. MaxCrashes
  BY DEF TypeOK
<1>1. SUFFICES
        /\ cycle' \in [Months -> CycleRecord] /\ package' \in [Months -> [Versions -> PackageRecord]]
        /\ storage' \in [Keys -> Absent .. MaxEdits] /\ up' \in BOOLEAN /\ crashes' \in 0 .. MaxCrashes
        /\ ShapedCalls'
  BY DEF TypeOK, ShapedCalls, ShapedRecord
<1>2. \A t \in Callers : call[t] \in CallRecord /\ Shaped(call[t])
  BY DEF ShapedCalls, ShapedRecord
<1>3. \A t \in Callers, r \in ShapedRecord : Step(t, r) => ShapedCalls'
  BY Moved
<1>4. ASSUME NEW t \in Callers, NEW m \in Months, Request(t, m)
      PROVE  ShapedCalls' /\ UNCHANGED <<cycle, package, storage, up, crashes>>
  <2>0. /\ [Idle EXCEPT !.kind = "create", !.pc = "write", !.month = m] \in ShapedRecord
        /\ [Idle EXCEPT !.kind = "edit", !.pc = "write", !.month = m] \in ShapedRecord
    BY RequestIsShaped
  <2>1. CASE RequestCreate(t, m)
    BY ONLY <1>3, <2>0, <2>1, t \in Callers DEF RequestCreate
  <2>2. CASE RequestEdit(t, m)
    BY ONLY <1>3, <2>0, <2>2, t \in Callers DEF RequestEdit
  <2>3. CASE RequestGenerate(t, m)
    BY <1>3, <2>3, RequestIsShaped DEF RequestGenerate
  <2>4. CASE RequestRollover(t, m)
    BY <1>3, <2>4, RequestIsShaped DEF RequestRollover
  <2> QED BY <1>4, <2>1, <2>2, <2>3, <2>4 DEF Request
<1>5. ASSUME NEW t \in Callers, CommitCreate(t)
      PROVE  ShapedCalls' /\ cycle' \in [Months -> CycleRecord] /\ UNCHANGED <<package, storage, up, crashes>>
  <2>1. \A m \in Months : Opened(m) \in CycleRecord
    BY BoundsAssumption DEF Opened, NoCycle, CycleRecord
  <2> QED BY <1>0, <1>2, <1>3, <1>5, <2>1, IdleIsShaped DEF CommitCreate, Shaped
<1>6. ASSUME NEW t \in Callers, CommitEdit(t)
      PROVE  ShapedCalls' /\ cycle' \in [Months -> CycleRecord] /\ UNCHANGED <<package, storage, up, crashes>>
  <2>1. \A m \in Months : cycle[m].edits < MaxEdits => cycle[m].edits + 1 \in 0 .. MaxEdits
    BY <1>0, BoundsAssumption DEF CycleRecord
  <2>2. call[t].month \in Months
    BY <1>2, <1>6 DEF CommitEdit, Shaped
  <2> QED BY <1>0, <1>3, <1>6, <2>1, <2>2, IdleIsShaped DEF CommitEdit, CycleRecord
<1>7. ASSUME NEW t \in Callers, FindStale(t)
      PROVE  ShapedCalls' /\ UNCHANGED <<cycle, package, storage, up, crashes>>
  <2> DEFINE r == [call[t] EXCEPT !.pc = "fail", !.stale = Stale]
  <2>1. r \in CallRecord
    BY <1>2 DEF CallRecord, Stale, Generating
  <2>2. Shaped(r)
    BY <1>2, <1>7, <2>1 DEF FindStale, Shaped, AtWork, CallRecord
  <2> QED BY <1>3, <1>7, <2>1, <2>2 DEF FindStale, ShapedRecord
<1>80. ASSUME NEW t \in Callers, Recover(t)
      PROVE  ShapedCalls' /\ package' \in [Months -> [Versions -> PackageRecord]] /\ UNCHANGED <<cycle, storage, up, crashes>>
  <2>1. PICK p \in call[t].stale : package' = Failed({p}) /\ Step(t, [call[t] EXCEPT !.stale = call[t].stale \ {p}])
    BY <1>80 DEF Recover
  <2> DEFINE r == [call[t] EXCEPT !.stale = call[t].stale \ {p}]
  <2>2. r \in CallRecord
    BY <1>2 DEF CallRecord
  <2>3. Shaped(r)
    BY <1>2, <1>80, <2>2 DEF Recover, Shaped, AtWork, CallRecord
  <2> QED BY <1>3, <1>80, <2>1, <2>2, <2>3, AbandonedSet DEF Recover, ShapedRecord
<1>81. ASSUME NEW t \in Callers, Summarize(t)
      PROVE  ShapedCalls' /\ UNCHANGED <<cycle, package, storage, up, crashes>>
  <2> DEFINE data == [call[t].data EXCEPT !["manifest"] = cycle[call[t].month].edits]
             r == [call[t] EXCEPT !.pc = "number", !.data = data]
  <2>1. call[t].month \in Months
    BY <1>2, <1>81 DEF Summarize, Shaped
  <2>2. cycle[call[t].month].edits \in Absent .. MaxEdits
    BY <1>0, <2>1 DEF CycleRecord
  <2>3. r \in CallRecord
    <3>1. data \in [Files -> Absent .. MaxEdits]
      BY <1>2, <2>2 DEF CallRecord
    <3> HIDE DEF data
    <3> QED BY <1>2, <3>1 DEF CallRecord
  <2>4. Shaped(r)
    <3> HIDE DEF data
    <3> QED BY <1>2, <1>81, <2>3 DEF Summarize, Shaped, AtWork, CallRecord
  <2> QED BY <1>3, <1>81, <2>3, <2>4 DEF Summarize, ShapedRecord
<1>82. ASSUME NEW t \in Callers, CountVersions(t)
      PROVE  ShapedCalls' /\ UNCHANGED <<cycle, package, storage, up, crashes>>
  <2> DEFINE n == NextVersion(call[t].month)
             r == [call[t] EXCEPT !.pc = "reserve", !.version = n]
  <2>1. CASE n > LastVersion
    BY <1>3, <1>82, <2>1, IdleIsShaped DEF CountVersions
  <2>2. CASE ~(n > LastVersion)
    <3>1. n \in Versions /\ n \in 0 .. LastVersion + 1
      <4>1. call[t].month \in Months
        BY <1>2, <1>82 DEF CountVersions, Shaped
      <4> QED BY <2>2, <4>1, NextVersionType, BoundsAssumption DEF Versions
    <3> HIDE DEF n
    <3>2. r \in CallRecord
      BY <1>2, <3>1 DEF CallRecord
    <3>3. Shaped(r)
      BY <1>2, <1>82, <3>1, <3>2 DEF CountVersions, Shaped, AtWork, CallRecord
    <3>4. Step(t, r)
      BY <1>82, <2>2 DEF CountVersions, n
    <3> QED BY <1>3, <1>82, <3>2, <3>3, <3>4 DEF CountVersions, ShapedRecord
  <2> QED BY <2>1, <2>2
<1>9. ASSUME NEW t \in Callers, Reserve(t)
      PROVE  ShapedCalls' /\ package' \in [Months -> [Versions -> PackageRecord]] /\ UNCHANGED <<cycle, storage, up, crashes>>
  <2> DEFINE r == [call[t] EXCEPT !.pc = "assemble"]
  <2>1. r \in CallRecord
    BY <1>2 DEF CallRecord
  <2>2. Shaped(r)
    BY <1>2, <1>9, <2>1 DEF Reserve, Shaped, AtWork, CallRecord
  <2>3. Of(t) \in Pairs
    BY <1>2, <1>9 DEF Reserve, Shaped, Of, Pairs
  <2>4. SetStatus(Of(t), "GENERATING") \in [Months -> [Versions -> PackageRecord]]
    BY <2>3, StatusSet
  <2> QED BY <1>0, <1>3, <1>9, <2>1, <2>2, <2>4, IdleIsShaped DEF Reserve, ShapedRecord
<1>10. ASSUME NEW t \in Callers, NEW f \in Files, Assemble(t, f)
       PROVE  ShapedCalls' /\ UNCHANGED <<cycle, package, storage, up, crashes>>
  <2>1. PICK r : r = [call[t] EXCEPT !.data[f] = cycle[call[t].month].edits,
                               !.pc = IF {g \in Files : call[t].data[g] = Absent} = {f}
                                      THEN "store" ELSE "assemble"]
    OBVIOUS
  <2>2. cycle[call[t].month].edits \in 0 .. MaxEdits
    BY <1>0, <1>2, <1>10 DEF Assemble, Shaped, CycleRecord, AtWork
  <2>3. r \in CallRecord
    <3>1. [call[t].data EXCEPT ![f] = cycle[call[t].month].edits] \in [Files -> Absent .. MaxEdits]
      BY <1>2, <2>2 DEF CallRecord
    <3>2. r = [call[t] EXCEPT !.data = [call[t].data EXCEPT ![f] = cycle[call[t].month].edits],
                              !.pc = IF {g \in Files : call[t].data[g] = Absent} = {f}
                                     THEN "store" ELSE "assemble"]
      BY <2>1
    <3> QED BY <1>2, <3>1, <3>2 DEF CallRecord
  <2>4. Shaped(r)
    <3>1. \A g \in Files : r.data[g] = IF g = f THEN cycle[call[t].month].edits ELSE call[t].data[g]
      BY <1>2, <2>1 DEF CallRecord
    <3>2. r.pc = "store" => \A g \in Files : r.data[g] # Absent
      BY <1>2, <2>1, <2>2, <3>1 DEF CallRecord
    <3> QED BY <1>2, <1>10, <2>1, <3>2 DEF Assemble, Shaped, AtWork, CallRecord
  <2> QED BY <1>3, <1>10, <2>1, <2>3, <2>4 DEF Assemble, ShapedRecord
<1>11. ASSUME NEW t \in Callers, NEW f \in Files, Store(t, f)
       PROVE  ShapedCalls' /\ storage' \in [Keys -> Absent .. MaxEdits] /\ UNCHANGED <<cycle, package, up, crashes>>
  <2> DEFINE r == [call[t] EXCEPT !.written = @ \cup {f},
                               !.pc = IF call[t].written \cup {f} = Files THEN "commit" ELSE "store"]
  <2>1. r \in CallRecord
    BY <1>2 DEF CallRecord
  <2>2. Shaped(r)
    BY <1>2, <1>11, <2>1 DEF Store, Shaped, AtWork, CallRecord
  <2>3. call[t].data[f] \in Absent .. MaxEdits
    BY <1>2 DEF CallRecord
  <2>4. storage' \in [Keys -> Absent .. MaxEdits]
    BY <1>0, <1>11, <2>3 DEF Store
  <2> QED BY <1>3, <1>11, <2>1, <2>2, <2>4 DEF Store, ShapedRecord
<1>12. ASSUME NEW t \in Callers, call[t].pc \in {"assemble", "store", "commit"}
       PROVE  [call[t] EXCEPT !.pc = "clean"] \in ShapedRecord
  BY <1>2, <1>12 DEF CallRecord, ShapedRecord, Shaped, AtWork
<1>13. ASSUME NEW t \in Callers, call[t].pc = "commit", Answered(t)  PROVE ShapedCalls'
  BY <1>3, <1>12, <1>13, IdleIsShaped DEF Answered
<1>14. ASSUME NEW t \in Callers, Shaped(call[t]), call[t].pc \in {"reserve"} \cup AtWork  PROVE Of(t) \in Pairs
  BY <1>14 DEF Shaped, Of, Pairs
<1>15. ASSUME NEW t \in Callers, CommitGenerate(t)
       PROVE  ShapedCalls' /\ package' \in [Months -> [Versions -> PackageRecord]] /\ UNCHANGED <<cycle, storage, up, crashes>>
  <2>1. Of(t) \in Pairs
    BY <1>2, <1>14, <1>15 DEF CommitGenerate, AtWork
  <2>2. SetStatus(Of(t), "READY") \in [Months -> [Versions -> PackageRecord]]
    BY <2>1, StatusSet
  <2> QED BY <1>13, <1>15, <2>2 DEF CommitGenerate
<1>16. ASSUME NEW t \in Callers, CommitRollover(t)
       PROVE  /\ ShapedCalls' /\ cycle' \in [Months -> CycleRecord]
              /\ package' \in [Months -> [Versions -> PackageRecord]] /\ UNCHANGED <<storage, up, crashes>>
  <2> DEFINE m == call[t].month
  <2>1. Of(t) \in Pairs /\ m \in Months /\ m + 1 \in Months /\ call[t].version \in Versions
    BY <1>2, <1>14, <1>16, BoundsAssumption DEF CommitRollover, AtWork, Shaped, Months
  <2>2. SetStatus(Of(t), "READY") \in [Months -> [Versions -> PackageRecord]]
    BY <2>1, StatusSet
  <2>3. Archived(m, call[t].version) \in CycleRecord /\ Opened(m + 1) \in CycleRecord
    <3>1. cycle[m] \in CycleRecord /\ call[t].version \in 0 .. LastVersion
      BY <1>0, <2>1, BoundsAssumption DEF Versions
    <3>2. cycle[m].edits \in 0 .. MaxEdits
      BY <3>1 DEF CycleRecord
    <3>3. Archived(m, call[t].version) \in CycleRecord
      BY <3>1, <3>2 DEF Archived, CycleRecord
    <3> QED BY <3>3, BoundsAssumption DEF Opened, NoCycle, CycleRecord
  <2>4. [cycle EXCEPT ![m] = Archived(m, call[t].version), ![m + 1] = Opened(m + 1)] \in [Months -> CycleRecord]
    BY <1>0, <2>1, <2>3
  <2> QED BY <1>0, <1>3, <1>12, <1>13, <1>16, <2>2, <2>4 DEF CommitRollover
<1>17. ASSUME NEW t \in Callers, Fail(t)
       PROVE  ShapedCalls' /\ UNCHANGED <<cycle, package, storage, up, crashes>>
  BY <1>3, <1>12, <1>17 DEF Fail
<1>18. ASSUME NEW t \in Callers, CleanUp(t)
       PROVE  /\ ShapedCalls' /\ package' \in [Months -> [Versions -> PackageRecord]]
              /\ storage' \in [Keys -> Absent .. MaxEdits] /\ UNCHANGED <<cycle, up, crashes>>
  <2>1. Of(t) \in Pairs
    BY <1>2, <1>14, <1>18 DEF CleanUp, AtWork
  <2>2. SetStatus(Of(t), "FAILED") \in [Months -> [Versions -> PackageRecord]]
    BY <2>1, StatusSet
  <2>3. storage' \in [Keys -> Absent .. MaxEdits]
    <3>1. PICK D : storage' = [k \in Keys |-> IF k \in D THEN Absent ELSE storage[k]]
      BY <1>18 DEF CleanUp
    <3> QED BY <1>0, <3>1, BoundsAssumption
  <2> QED BY <1>0, <1>3, <1>18, <2>2, <2>3, IdleIsShaped DEF CleanUp
<1>19. ASSUME NEW m \in Months, Finalize(m)
       PROVE  cycle' \in [Months -> CycleRecord] /\ UNCHANGED <<package, storage, up, crashes, call>>
  BY <1>0, <1>19 DEF Finalize, CycleRecord
<1>20. ASSUME NEW p \in Months \X Versions, GrowOld(p)
       PROVE  package' \in [Months -> [Versions -> PackageRecord]] /\ UNCHANGED <<cycle, storage, up, crashes, call>>
  <2>1. PICK m \in Months, v \in Versions : p = <<m, v>>
    OBVIOUS
  <2>2. package' = [package EXCEPT ![m][v].old = TRUE]
    BY <1>20, <2>1 DEF GrowOld
  <2>3. [package[m][v] EXCEPT !.old = TRUE] \in PackageRecord
    <3>1. package[m][v] \in PackageRecord
      BY <1>0
    <3> QED BY <3>1 DEF PackageRecord
  <2>4. package' = [package EXCEPT ![m] = [package[m] EXCEPT ![v] = [package[m][v] EXCEPT !.old = TRUE]]]
    BY <2>2
  <2>5. [package[m] EXCEPT ![v] = [package[m][v] EXCEPT !.old = TRUE]] \in [Versions -> PackageRecord]
    BY <1>0, <2>3
  <2>6. package' \in [Months -> [Versions -> PackageRecord]]
    BY <1>0, <2>4, <2>5
  <2> QED BY <1>20, <2>6 DEF GrowOld
<1>21. CASE Crash
  <2>1. ShapedCalls'
    BY <1>21, IdleIsShaped DEF Crash, ShapedCalls
  <2>2. crashes' \in 0 .. MaxCrashes
    BY <1>0, <1>21, BoundsAssumption DEF Crash
  <2> QED BY <1>0, <1>21, <2>1, <2>2 DEF Crash
<1>22. CASE Restart
  BY <1>0, <1>22, AbandonedSet DEF Restart, ShapedCalls
<1>23. CASE \E t \in Callers : Serve(t)
  BY <1>0, <1>23, <1>5, <1>6, <1>7, <1>80, <1>81, <1>82, <1>9, <1>10, <1>11, <1>15, <1>16, <1>17, <1>18 DEF Serve
<1> QED
  BY <1>0, <1>4, <1>19, <1>20, <1>21, <1>22, <1>23 DEF Next, ShapedCalls

-----------------------------------------------------------------------------
(* Cycles. *)

(* Only a request to create the first cycle is one to create. *)
LEMMA CreatorsAsked ==
  ASSUME ShapedCalls, Next
  PROVE  \/ \E t \in Callers, m \in Months : RequestCreate(t, m)
         \/ \A t \in Callers : call'[t].kind = "create" => call[t].kind = "create"
<1>1. \A t \in Callers : call[t] \in CallRecord
  BY DEF ShapedCalls, ShapedRecord
<1>2. ASSUME NEW t \in Callers, NEW r, Step(t, r), r.kind = call[t].kind \/ r.kind # "create"
      PROVE  \A u \in Callers : call'[u].kind = "create" => call[u].kind = "create"
  BY <1>2 DEF Step, ShapedCalls
<1>3. Idle.kind # "create"
  BY DEF Idle
<1>4. ASSUME NEW t \in Callers, Serve(t)
      PROVE  \A u \in Callers : call'[u].kind = "create" => call[u].kind = "create"
  <2>1. CASE CommitCreate(t) \/ CommitEdit(t) \/ CleanUp(t)
    BY <1>2, <1>3, <2>1 DEF CommitCreate, CommitEdit, CleanUp
  <2>2. CASE FindStale(t)
    BY <1>1, <1>2, <2>2 DEF FindStale, CallRecord
  <2>3. CASE Recover(t) \/ Summarize(t) \/ CountVersions(t)
    BY <1>1, <1>2, <1>3, <2>3 DEF Recover, Summarize, CountVersions, CallRecord
  <2>4. CASE Reserve(t)
    BY <1>1, <1>2, <1>3, <2>4 DEF Reserve, CallRecord
  <2>5. CASE CommitGenerate(t) \/ CommitRollover(t) \/ Fail(t)
    BY <1>1, <1>2, <1>3, <2>5 DEF CommitGenerate, CommitRollover, Fail, Answered, CallRecord
  <2>6. CASE \E f \in Files : Assemble(t, f) \/ Store(t, f)
    BY <1>1, <1>2, <2>6 DEF Assemble, Store, CallRecord
  <2> QED BY <1>4, <2>1, <2>2, <2>3, <2>4, <2>5, <2>6 DEF Serve
<1>5. ASSUME NEW t \in Callers, NEW m \in Months,
             RequestEdit(t, m) \/ RequestGenerate(t, m) \/ RequestRollover(t, m)
      PROVE  \A u \in Callers : call'[u].kind = "create" => call[u].kind = "create"
  BY <1>2, <1>5 DEF RequestEdit, RequestGenerate, RequestRollover, Idle
<1>6. CASE Crash
  BY <1>3, <1>6 DEF Crash
<1>7. CASE \/ Restart
           \/ \E m \in Months : Finalize(m)
           \/ \E p \in Months \X Versions : GrowOld(p)
  BY <1>7 DEF Restart, Finalize, GrowOld
<1> QED
  BY <1>4, <1>5, <1>6, <1>7 DEF Next, Request

(* What leaves alone which cycles exist and which are archived, leaves the chain alone. *)
SameCycles == \A m \in Months : /\ cycle'[m].status = "NONE" <=> cycle[m].status = "NONE"
                                /\ cycle'[m].status = "ARCHIVED" <=> cycle[m].status = "ARCHIVED"

LEMMA ChainKept ==
  ASSUME SameCycles
  PROVE  (Chained => Chained') /\ (OneLive => OneLive') /\ Existing' = Existing
  BY DEF SameCycles, Chained, OneLive, Live, Existing

LEMMA MostStepsKeepCycles ==
  ASSUME TypeOK, ShapedCalls, Next
  PROVE  SameCycles \/ \E t \in Callers : CommitCreate(t) \/ CommitRollover(t)
<1>1. UNCHANGED cycle => SameCycles
  BY DEF SameCycles
<1>2. ASSUME NEW t \in Callers, CommitEdit(t)  PROVE SameCycles
  BY <1>2 DEF CommitEdit, SameCycles, TypeOK, CycleRecord
<1>3. ASSUME NEW m \in Months, Finalize(m)  PROVE SameCycles
  BY <1>3 DEF Finalize, SameCycles, TypeOK, CycleRecord
<1>4. ASSUME NEW t \in Callers, Serve(t)
      PROVE  SameCycles \/ CommitCreate(t) \/ CommitRollover(t)
  BY <1>1, <1>2, <1>4 DEF Serve, FindStale, Recover, Summarize, CountVersions, Reserve, CommitGenerate, Fail, CleanUp, Assemble, Store
<1>5. ASSUME NEW t \in Callers, NEW m \in Months, Request(t, m)  PROVE UNCHANGED cycle
  BY <1>5 DEF Request, RequestCreate, RequestEdit, RequestGenerate, RequestRollover
<1>6. CASE \/ Restart \/ Crash
           \/ \E p \in Months \X Versions : GrowOld(p)
  BY <1>1, <1>6 DEF Restart, Crash, GrowOld
<1> QED
  BY <1>1, <1>3, <1>4, <1>5, <1>6 DEF Next

LEMMA CyclesNext ==
  ASSUME CyclesInv, Next
  PROVE  CyclesInv'
<1>1. TypeOK /\ ShapedCalls /\ TypeOK' /\ ShapedCalls'
  BY TypeNext DEF CyclesInv
<1>2. \A t \in Callers : call[t] \in CallRecord /\ Shaped(call[t])
  BY <1>1 DEF ShapedCalls, ShapedRecord
<1>3. SUFFICES Chained' /\ (~CreatesOverlap => OneLive' /\ CreatesOK')
  BY <1>1 DEF CyclesInv
<1>4. CASE \E t \in Callers, m \in Months : RequestCreate(t, m)
  <2>1. PICK t \in Callers, m \in Months : RequestCreate(t, m)
    BY <1>4
  <2>2. SameCycles /\ Existing = {}
    BY <2>1 DEF RequestCreate, SameCycles, NoneExists
  <2>3. \A u \in Callers \ {t} : call'[u] = call[u]
    BY <1>1, <2>1 DEF RequestCreate, Step, ShapedCalls
  <2>4. ~CreatesOverlap => CreatesOK'
    BY <2>1, <2>2, <2>3, ChainKept DEF RequestCreate, CreatesOK
  <2> QED BY <2>2, <2>4, ChainKept DEF CyclesInv
<1>5. CASE \A t \in Callers : call'[t].kind = "create" => call[t].kind = "create"
  <2>1. CASE SameCycles
    BY <1>5, <2>1, ChainKept DEF CyclesInv, CreatesOK
  <2>2. ASSUME NEW t \in Callers, CommitCreate(t)
        PROVE  Chained' /\ (~CreatesOverlap => OneLive' /\ CreatesOK')
    <3> DEFINE m == call[t].month
    <3>1. m \in Months
      BY <1>2, <2>2 DEF CommitCreate, Shaped
    <3>2. CASE cycle[m].status # "NONE"
      <4>1. SameCycles
        BY <2>2, <3>2 DEF CommitCreate, SameCycles
      <4> QED BY <1>5, <4>1, ChainKept DEF CyclesInv, CreatesOK
    <3>3. CASE cycle[m].status = "NONE"
      <4>1. /\ cycle'[m].status = "DRAFT"
            /\ \A n \in Months \ {m} : cycle'[n] = cycle[n]
        BY <1>1, <2>2, <3>1, <3>3 DEF CommitCreate, TypeOK, Opened, NoCycle
      <4>2. Chained'
        BY <4>1 DEF CyclesInv, Chained
      <4>3. ASSUME ~CreatesOverlap  PROVE OneLive' /\ CreatesOK'
        <5>1. Existing = {} /\ \A u \in Callers \ {t} : call[u].kind # "create"
          BY <2>2, <4>3 DEF CyclesInv, CreatesOK, CommitCreate
        <5>2. Existing' = {m} /\ Live' = {m}
          BY <3>1, <4>1, <5>1 DEF Existing, Live
        <5>3. call'[t].kind # "create"
          BY <1>1, <2>2 DEF CommitCreate, Step, Idle, ShapedCalls
        <5> QED BY <1>5, <5>1, <5>2, <5>3 DEF OneLive, CreatesOK
      <4> QED BY <4>2, <4>3
    <3> QED BY <3>2, <3>3
  <2>3. ASSUME NEW t \in Callers, CommitRollover(t)
        PROVE  Chained' /\ (~CreatesOverlap => OneLive' /\ CreatesOK')
    <3> DEFINE m == call[t].month
    <3>1. m \in Months /\ m + 1 \in Months /\ m # m + 1
      BY <1>2, <2>3, BoundsAssumption DEF CommitRollover, AtWork, Shaped, Months
    <3>2. CASE ~(cycle[m].status = "RELEASED" /\ cycle[m + 1].status = "NONE")
      <4>1. SameCycles
        BY <2>3, <3>2 DEF CommitRollover, SameCycles
      <4> QED BY <1>5, <4>1, ChainKept DEF CyclesInv, CreatesOK
    <3>3. CASE cycle[m].status = "RELEASED" /\ cycle[m + 1].status = "NONE"
      <4>1. /\ cycle'[m].status = "ARCHIVED" /\ cycle'[m + 1].status = "DRAFT"
            /\ \A n \in Months \ {m, m + 1} : cycle'[n] = cycle[n]
        <5>1. cycle' = [cycle EXCEPT ![m] = Archived(m, call[t].version), ![m + 1] = Opened(m + 1)]
          BY <2>3, <3>3 DEF CommitRollover
        <5>2. Archived(m, call[t].version).status = "ARCHIVED" /\ Opened(m + 1).status = "DRAFT"
          BY <1>1, <3>1 DEF Archived, Opened, NoCycle, TypeOK, CycleRecord
        <5>3. cycle \in [Months -> CycleRecord]
          BY <1>1 DEF TypeOK
        <5> HIDE DEF m
        <5> QED BY <3>1, <5>1, <5>2, <5>3
      <4>2. Chained'
        BY <3>1, <4>1 DEF CyclesInv, Chained
      <4>3. ASSUME ~CreatesOverlap  PROVE OneLive' /\ CreatesOK'
        <5>1. m \in Existing /\ Live = {m}
          BY <3>1, <3>3, <4>3 DEF CyclesInv, OneLive, Existing, Live
        <5>2. Live' = {m + 1}
          BY <3>1, <3>3, <4>1, <5>1 DEF Existing, Live
        <5> QED BY <1>5, <4>3, <5>1, <5>2 DEF OneLive, CyclesInv, CreatesOK
      <4> QED BY <4>2, <4>3
    <3> QED BY <3>2, <3>3
  <2> QED BY <1>1, <2>1, <2>2, <2>3, MostStepsKeepCycles
<1> QED BY <1>1, <1>4, <1>5, CreatorsAsked

LEMMA CyclesInit == Init => CyclesInv
<1> SUFFICES ASSUME Init  PROVE CyclesInv
  OBVIOUS
<1> USE DEF Init, Absent
<1>1. ShapedCalls
  BY IdleIsShaped DEF ShapedCalls
<1>2. TypeOK
  <2>1. cycle \in [Months -> CycleRecord] /\ package \in [Months -> [Versions -> PackageRecord]]
    BY BoundsAssumption DEF NoCycle, CycleRecord, NoPackage, PackageRecord
  <2> QED BY <1>1, <2>1, BoundsAssumption DEF TypeOK, ShapedCalls, ShapedRecord
<1>3. Existing = {}
  BY DEF Existing, NoCycle
<1>4. Chained /\ OneLive /\ CreatesOK
  BY <1>3 DEF Chained, NoCycle, OneLive, Live, CreatesOK, Idle
<1> QED BY <1>1, <1>2, <1>4 DEF CyclesInv

LEMMA CyclesStutter == CyclesInv /\ UNCHANGED vars => CyclesInv'
  BY DEF vars, CyclesInv, TypeOK, ShapedCalls, Chained, OneLive, CreatesOK, Live, Existing

LEMMA CyclesInvariant == Spec => []CyclesInv
<1>1. CyclesInv /\ [Next]_vars => CyclesInv'
  BY CyclesNext, CyclesStutter
<1> QED
  BY <1>1, CyclesInit, PTL DEF Spec

(* The cycles keep their types, and with them the packages, the storage and every request. *)
THEOREM CyclesTypeCorrect == Spec => []TypeOK
<1>1. CyclesInv => TypeOK
  BY DEF CyclesInv
<1> QED BY <1>1, CyclesInvariant, PTL

(* One cycle is current and the archived ones lead to it without a gap, however rollovers,  *)
(* finalizations, failures and crashes overlap (archiveAndCreateNextPayrollCycle), if        *)
(* requests that create the first cycle do not overlap.                                      *)
THEOREM OneAlwaysCurrent ==
  ASSUME ~CreatesOverlap
  PROVE  Spec => []OneCurrentCycle
<1>1. CyclesInv => OneCurrentCycle
  <2> SUFFICES ASSUME CyclesInv  PROVE OneCurrentCycle
    OBVIOUS
  <2>1. ASSUME Existing # {}  PROVE Cardinality(Live) = 1
    <3>1. PICK m \in Live : TRUE
      BY <2>1 DEF CyclesInv, OneLive
    <3>2. Live = {m}
      BY <3>1 DEF CyclesInv, OneLive
    <3> QED BY <3>2, FS_Singleton
  <2>2. \A m \in Existing \ Live : cycle[m + 1].status # "NONE"
    BY DEF CyclesInv, Chained, Existing, Live
  <2> QED BY <2>1, <2>2 DEF OneCurrentCycle
<1> QED BY <1>1, CyclesInvariant, PTL

-----------------------------------------------------------------------------
(* Packages: calls that begin no work on a package and write no file of one. *)

Quiet == \A u \in Callers :
           /\ Working(u)' => /\ Working(u)
                             /\ call'[u].month = call[u].month /\ call'[u].version = call[u].version
                             /\ call'[u].written = call[u].written
           /\ call'[u].stale \subseteq call[u].stale \cup Stale

LEMMA MostCallsAreQuiet ==
  ASSUME ShapedCalls
  PROVE  /\ \A t \in Callers : Serve(t) => Quiet \/ Reserve(t) \/ \E f \in Files : Store(t, f)
         /\ \A t \in Callers, m \in Months : Request(t, m) => Quiet
         /\ Crash \/ UNCHANGED call => Quiet
<1>1. \A t \in Callers : call[t] \in CallRecord /\ Shaped(call[t])
  BY DEF ShapedCalls, ShapedRecord
<1>2. ASSUME NEW t \in Callers, NEW r, Step(t, r), r.stale \subseteq call[t].stale \cup Stale,
             r.pc \in AtWork => /\ call[t].pc \in AtWork
                                /\ r.month = call[t].month /\ r.version = call[t].version /\ r.written = call[t].written
      PROVE  Quiet
  BY <1>2 DEF Step, ShapedCalls, Quiet, Working
<1>3. Idle.pc \notin AtWork /\ Idle.stale = {}
  BY DEF Idle, AtWork
<1>4. ASSUME NEW t \in Callers, Step(t, Idle)  PROVE Quiet
  BY <1>2, <1>3, <1>4
<1>5. ASSUME NEW t \in Callers, call[t].pc \in {"assemble", "store", "commit"}, Step(t, [call[t] EXCEPT !.pc = "clean"])
      PROVE  Quiet
  <2>1. PICK r : r = [call[t] EXCEPT !.pc = "clean"]
    OBVIOUS
  <2>2. r.stale = call[t].stale /\ r.month = call[t].month /\ r.version = call[t].version /\ r.written = call[t].written
    BY <1>1, <2>1 DEF CallRecord
  <2> QED BY <1>2, <1>5, <2>1, <2>2 DEF AtWork
<1>6. ASSUME NEW t \in Callers, Serve(t)
      PROVE  Quiet \/ Reserve(t) \/ \E f \in Files : Store(t, f)
  <2>1. CASE CommitCreate(t) \/ CommitEdit(t) \/ CleanUp(t)
    BY <1>4, <2>1 DEF CommitCreate, CommitEdit, CleanUp
  <2>2. CASE FindStale(t)
    <3>1. PICK r : r = [call[t] EXCEPT !.pc = "fail", !.stale = Stale]
      OBVIOUS
    <3>2. r.pc = "fail" /\ r.stale = Stale
      BY <1>1, <3>1 DEF CallRecord
    <3> QED BY <1>2, <2>2, <3>1, <3>2 DEF FindStale, AtWork
  <2>3. ASSUME Recover(t)  PROVE Quiet
    <3>1. PICK p \in call[t].stale : Step(t, [call[t] EXCEPT !.stale = call[t].stale \ {p}])
      BY <2>3 DEF Recover
    <3>2. PICK r : r = [call[t] EXCEPT !.stale = call[t].stale \ {p}]
      OBVIOUS
    <3>3. r.pc = call[t].pc /\ r.stale \subseteq call[t].stale
      BY <1>1, <3>2 DEF CallRecord
    <3> QED BY <1>2, <2>3, <3>1, <3>2, <3>3 DEF Recover, AtWork
  <2>7. CASE Summarize(t)
    <3>1. PICK r : r = [call[t] EXCEPT !.pc = "number", !.data["manifest"] = cycle[call[t].month].edits]
      OBVIOUS
    <3>2. r.pc = "number" /\ r.stale = call[t].stale
      BY <1>1, <3>1 DEF CallRecord
    <3> QED BY <1>2, <2>7, <3>1, <3>2 DEF Summarize, AtWork
  <2>8. CASE CountVersions(t)
    <3>1. PICK r : r = [call[t] EXCEPT !.pc = "reserve", !.version = NextVersion(call[t].month)]
      OBVIOUS
    <3>2. r.pc = "reserve" /\ r.stale = call[t].stale
      BY <1>1, <3>1 DEF CallRecord
    <3> QED BY <1>2, <1>4, <2>8, <3>1, <3>2 DEF CountVersions, AtWork
  <2>4. CASE CommitGenerate(t) \/ CommitRollover(t) \/ Fail(t)
    BY <1>4, <1>5, <2>4 DEF CommitGenerate, CommitRollover, Fail, Answered
  <2>5. ASSUME NEW f \in Files, Assemble(t, f)  PROVE Quiet
    <3>1. PICK r : r = [call[t] EXCEPT !.data[f] = cycle[call[t].month].edits,
                                       !.pc = IF {g \in Files : call[t].data[g] = Absent} = {f}
                                              THEN "store" ELSE "assemble"]
      OBVIOUS
    <3>2. r.stale = call[t].stale /\ r.month = call[t].month /\ r.version = call[t].version /\ r.written = call[t].written
      BY <1>1, <3>1 DEF CallRecord
    <3> QED BY <1>2, <2>5, <3>1, <3>2 DEF Assemble, AtWork
  <2> QED BY <1>6, <2>1, <2>2, <2>3, <2>4, <2>5, <2>7, <2>8 DEF Serve
<1>7. ASSUME NEW t \in Callers, NEW m \in Months, Request(t, m)  PROVE Quiet
  <2>1. \A k, pc : /\ [Idle EXCEPT !.kind = k, !.pc = pc, !.month = m].pc = pc
                   /\ [Idle EXCEPT !.kind = k, !.pc = pc, !.month = m].stale = {}
    BY DEF Idle
  <2> QED BY <1>2, <1>7, <2>1 DEF Request, RequestCreate, RequestEdit, RequestGenerate, RequestRollover, AtWork
<1>8. CASE Crash
  BY <1>3, <1>8 DEF Crash, Quiet, Working
<1>9. UNCHANGED call => Quiet
  BY DEF Quiet, Working
<1> QED
  BY <1>6, <1>7, <1>8, <1>9

(* What a quiet step has to leave of the packages, the storage and the cycles. *)
LEMMA BackupsKept ==
  ASSUME CyclesInv, CyclesInv', BackupsInv, Quiet,
         \A u \in Callers : Working(u) =>
           \/ ~Working(u)'
           \/ LostCommits /\ StatusOf(Of(u))' # "NONE"
           \/ /\ ~Calmly /\ StatusOf(Of(u))' \notin {"NONE", "READY"}
              /\ \A f \in Files : storage'[Key(Of(u), f)] = storage[Key(Of(u), f)]
           \/ /\ package'[Of(u)[1]][Of(u)[2]] = package[Of(u)[1]][Of(u)[2]]
              /\ \A f \in Files : storage'[Key(Of(u), f)] = storage[Key(Of(u), f)],
         Calmly => \A p \in Pairs :
           StatusOf(p) = "FAILED" \/ (StatusOf(p) = "GENERATING" /\ package[p[1]][p[2]].old) =>
             StatusOf(p)' = "FAILED" \/ package'[p[1]][p[2]] = package[p[1]][p[2]],
         ~LostCommits => ReadyIsWhole',
         Calmly => ArchivedHasBackup'
  PROVE  BackupsInv'
<1>1. ShapedCalls /\ ShapedCalls'
  BY DEF CyclesInv
<1>2. \A u \in Callers : call[u] \in CallRecord /\ Shaped(call[u]) /\ call'[u] \in CallRecord
  BY <1>1 DEF ShapedCalls, ShapedRecord
<1>3. \A u \in Callers : Working(u)' => Working(u) /\ Of(u)' = Of(u) /\ call'[u].written = call[u].written
  BY DEF Quiet, Of
<1>4. Exclusive'
  BY <1>3 DEF BackupsInv, Exclusive
<1>5. ASSUME NEW u \in Callers  PROVE WorkerOK(u)'
  <2>1. SUFFICES ASSUME Working(u)'  PROVE WorkerOK(u)'
    BY DEF WorkerOK
  <2>2. Working(u) /\ Of(u)' = Of(u) /\ call'[u].written = call[u].written
    BY <1>3, <2>1
  <2>3. WorkerOK(u)
    BY DEF BackupsInv
  <2>4. call[u].written \subseteq Files
    BY <1>2 DEF CallRecord
  <2> QED BY <2>1, <2>2, <2>3, <2>4 DEF WorkerOK, StatusOf, Calmly, Key
<1>6. ASSUME NEW u \in Callers  PROVE StaleOK(u)'
  <2>1. SUFFICES ASSUME Calmly, NEW p \in call'[u].stale
                 PROVE  (StatusOf(p) = "FAILED" \/ (StatusOf(p) = "GENERATING" /\ package[p[1]][p[2]].old))'
    BY DEF StaleOK
  <2>2. p \in Pairs
    BY <1>2, <2>1 DEF CallRecord, Pairs
  <2>3. p \in call[u].stale \/ p \in Stale
    BY <2>1 DEF Quiet
  <2>4. StatusOf(p) = "FAILED" \/ (StatusOf(p) = "GENERATING" /\ package[p[1]][p[2]].old)
    BY <2>1, <2>3 DEF BackupsInv, StaleOK, Stale, Generating
  <2> QED BY <2>1, <2>2, <2>4 DEF StatusOf
<1> QED BY <1>4, <1>5, <1>6 DEF BackupsInv

(* A ready package and its files stay, a failed one stays failed: per package. *)
Final(p) == /\ StatusOf(p) = "READY" => /\ package'[p[1]][p[2]].status = "READY"
                                        /\ \A f \in Files : storage'[Key(p, f)] = storage[Key(p, f)]
            /\ StatusOf(p) = "FAILED" => package'[p[1]][p[2]].status = "FAILED"

LEMMA WorkerFacts ==
  ASSUME ShapedCalls, NEW t \in Callers, Working(t) \/ call[t].pc = "reserve"
  PROVE  Of(t) \in Pairs
  BY DEF ShapedCalls, ShapedRecord, Shaped, Working, Of, Pairs

(* Ready packages that stay so keep the backups of archived cycles. *)
LEMMA ArchivesKept ==
  ASSUME TypeOK, ArchivedHasBackup,
         \A m \in Months : cycle'[m].status = "ARCHIVED" => cycle[m].status = "ARCHIVED" /\ cycle'[m].backup = cycle[m].backup,
         \A p \in Pairs : StatusOf(p) = "READY" => package'[p[1]][p[2]].status = "READY"
  PROVE  ArchivedHasBackup'
<1> SUFFICES ASSUME NEW m \in Months, cycle'[m].status = "ARCHIVED"
             PROVE  cycle'[m].backup # 0 /\ package'[m][cycle'[m].backup].status = "READY"
  BY DEF ArchivedHasBackup, StatusOf
<1>1. cycle[m].backup # 0 /\ StatusOf(<<m, cycle[m].backup>>) = "READY" /\ cycle'[m].backup = cycle[m].backup
  BY DEF ArchivedHasBackup
<1>2. <<m, cycle[m].backup>> \in Pairs
  BY <1>1, BoundsAssumption DEF TypeOK, CycleRecord, Pairs, Versions
<1> QED BY <1>1, <1>2

LEMMA SameArchives ==
  ASSUME TypeOK, ShapedCalls, Next
  PROVE  \/ \A m \in Months : cycle'[m].status = "ARCHIVED" => cycle[m].status = "ARCHIVED" /\ cycle'[m].backup = cycle[m].backup
         \/ \E t \in Callers : CommitRollover(t)
<1>1. ASSUME NEW t \in Callers, CommitCreate(t)
      PROVE  \A m \in Months : cycle'[m].status = "ARCHIVED" => cycle'[m] = cycle[m]
  BY <1>1 DEF CommitCreate, TypeOK, Opened, NoCycle
<1>2. ASSUME NEW t \in Callers, CommitEdit(t)
      PROVE  \A m \in Months : cycle'[m].status = cycle[m].status /\ cycle'[m].backup = cycle[m].backup
  BY <1>2 DEF CommitEdit, TypeOK, CycleRecord
<1>3. ASSUME NEW n \in Months, Finalize(n)
      PROVE  \A m \in Months : cycle'[m].status = "ARCHIVED" => cycle'[m] = cycle[m]
  BY <1>3 DEF Finalize, TypeOK, CycleRecord
<1>4. ASSUME NEW t \in Callers, Serve(t)
      PROVE  UNCHANGED cycle \/ CommitCreate(t) \/ CommitEdit(t) \/ CommitRollover(t)
  BY <1>4 DEF Serve, FindStale, Recover, Summarize, CountVersions, Reserve, CommitGenerate, Fail, CleanUp, Assemble, Store
<1>5. ASSUME NEW t \in Callers, NEW m \in Months, Request(t, m)  PROVE UNCHANGED cycle
  BY <1>5 DEF Request, RequestCreate, RequestEdit, RequestGenerate, RequestRollover
<1>6. CASE \/ Restart \/ Crash
           \/ \E p \in Months \X Versions : GrowOld(p)
  BY <1>6 DEF Restart, Crash, GrowOld
<1> QED
  BY <1>1, <1>2, <1>3, <1>4, <1>5, <1>6 DEF Next

(* A package declared abandoned by recovery: nobody works on it, if nothing is slow. *)
LEMMA AbandonedFacts ==
  ASSUME CyclesInv, BackupsInv, NEW S,
         Calmly => \A p \in S : StatusOf(p) = "FAILED" \/ (StatusOf(p) = "GENERATING" /\ package[p[1]][p[2]].old),
         Quiet, package' = Failed(S), UNCHANGED <<cycle, storage>>, CyclesInv'
  PROVE  BackupsInv' /\ (Calmly => \A p \in Pairs : Final(p))
<1>1. TypeOK /\ ShapedCalls
  BY DEF CyclesInv
<1>2. \A p \in Pairs : package'[p[1]][p[2]] = IF p \in S THEN [status |-> "FAILED", old |-> FALSE] ELSE package[p[1]][p[2]]
  BY <1>1, AbandonedSet DEF Pairs
<1>3. \A p \in Pairs : p \in S => StatusOf(p)' = "FAILED"
  BY <1>2 DEF StatusOf
<1>4. Calmly => \A p \in Pairs : Final(p)
  BY <1>2, <1>3 DEF Final, StatusOf
<1>5. ASSUME NEW u \in Callers, Working(u), Working(u)'
      PROVE  \/ LostCommits /\ StatusOf(Of(u))' # "NONE"
             \/ ~Calmly /\ StatusOf(Of(u))' \notin {"NONE", "READY"}
             \/ package'[Of(u)[1]][Of(u)[2]] = package[Of(u)[1]][Of(u)[2]]
  <2>1. Of(u) \in Pairs /\ Of(u)' = Of(u)
    BY <1>1, <1>5, WorkerFacts DEF Quiet, Of
  <2>2. WorkerOK(u)
    BY DEF BackupsInv
  <2>3. CASE Of(u) \in S
    <3>1. StatusOf(Of(u))' = "FAILED"
      BY <1>2, <2>1, <2>3 DEF StatusOf
    <3>2. ~Calmly
      BY <1>5, <2>2, <2>3 DEF WorkerOK
    <3> QED BY <3>1, <3>2
  <2>4. CASE Of(u) \notin S
    BY <1>2, <2>1, <2>4
  <2> QED BY <2>3, <2>4
<1>6. ~LostCommits => ReadyIsWhole'
  <2> SUFFICES ASSUME ~LostCommits, NEW p \in Pairs, package'[p[1]][p[2]].status = "READY"
               PROVE  \A f \in Files : storage'[Key(p, f)] # Absent
    BY DEF ReadyIsWhole, StatusOf, Pairs
  <2>1. StatusOf(p) = "READY"
    BY <1>2 DEF StatusOf
  <2> QED BY <2>1 DEF BackupsInv, ReadyIsWhole, Pairs
<1>7. Calmly => ArchivedHasBackup'
  BY <1>1, <1>4, ArchivesKept DEF Final, BackupsInv
<1>8. Calmly => \A p \in Pairs :
        StatusOf(p) = "FAILED" \/ (StatusOf(p) = "GENERATING" /\ package[p[1]][p[2]].old) =>
          StatusOf(p)' = "FAILED" \/ package'[p[1]][p[2]] = package[p[1]][p[2]]
  BY <1>2, <1>3
<1>9. BackupsInv'
  BY <1>5, <1>6, <1>7, <1>8, BackupsKept
<1> QED BY <1>4, <1>9

(* A request settles the package it works on: ready when its files are there, or failed. *)
LEMMA SettledFacts ==
  ASSUME CyclesInv, BackupsInv, CyclesInv', Quiet, NEW t \in Callers, Working(t),
         NEW st \in {"READY", "FAILED"},
         package' = SetStatus(Of(t), st) \/ (UNCHANGED package /\ st = "FAILED"),
         ~Working(t)' \/ LostCommits,
         \A k \in Keys : storage'[k] # storage[k] => \E f \in Files : k = Key(Of(t), f),
         st = "READY" => UNCHANGED storage /\ call[t].written = Files,
         (Calmly => \A p \in Pairs : Final(p)) => (Calmly => ArchivedHasBackup')
  PROVE  BackupsInv' /\ (Calmly => \A p \in Pairs : Final(p))
<1>1. TypeOK /\ ShapedCalls
  BY DEF CyclesInv
<1>2. Of(t) \in Pairs /\ WorkerOK(t)
  BY <1>1, WorkerFacts DEF BackupsInv
<1>3. \A p \in Pairs :
        \/ package'[p[1]][p[2]] = package[p[1]][p[2]] /\ (p = Of(t) => st = "FAILED")
        \/ p = Of(t) /\ package'[p[1]][p[2]] = [status |-> st, old |-> FALSE]
  <2>1. CASE package' = SetStatus(Of(t), st)
    <3>1. \A m \in Months, v \in Versions :
            package'[m][v] = IF m = Of(t)[1] /\ v = Of(t)[2] THEN [status |-> st, old |-> FALSE] ELSE package[m][v]
      <4>1. st \in {"NONE", "GENERATING", "READY", "FAILED"}
        OBVIOUS
      <4>2. \A m \in Months, v \in Versions :
              SetStatus(Of(t), st)[m][v] =
                IF m = Of(t)[1] /\ v = Of(t)[2] THEN [status |-> st, old |-> FALSE] ELSE package[m][v]
        BY <1>1, <1>2, <4>1, StatusSet
      <4> QED BY <2>1, <4>2
    <3>2. \A p \in Pairs : p[1] \in Months /\ p[2] \in Versions /\ (p = Of(t) <=> p[1] = Of(t)[1] /\ p[2] = Of(t)[2])
      BY <1>2 DEF Pairs
    <3> QED BY <3>1, <3>2
  <2>2. CASE UNCHANGED package /\ st = "FAILED"
    BY <2>2
  <2> QED BY <2>1, <2>2
<1>4. \A p \in Pairs, f \in Files : p # Of(t) => storage'[Key(p, f)] = storage[Key(p, f)]
  BY <1>2 DEF Key, Keys, Pairs
<1>5. \A p \in Pairs : p # Of(t) => Final(p)
  BY <1>3, <1>4 DEF Final, StatusOf
<1>6. Calmly => Final(Of(t))
  BY <1>2 DEF WorkerOK, Final
<1>7. Calmly => \A p \in Pairs : Final(p)
  BY <1>5, <1>6
<1>8. ASSUME NEW u \in Callers, Working(u), Working(u)'
      PROVE  \/ LostCommits /\ StatusOf(Of(u))' # "NONE"
             \/ /\ package'[Of(u)[1]][Of(u)[2]] = package[Of(u)[1]][Of(u)[2]]
                /\ \A f \in Files : storage'[Key(Of(u), f)] = storage[Key(Of(u), f)]
  <2>1. Of(u) \in Pairs /\ Of(u)' = Of(u)
    BY <1>1, <1>8, WorkerFacts DEF Quiet, Of
  <2>2. CASE u = t
    <3>1. StatusOf(Of(u))' # "NONE"
      BY <1>2, <1>3, <2>1, <2>2 DEF StatusOf, WorkerOK
    <3> QED BY <1>8, <2>2, <3>1
  <2>3. CASE u # t
    <3>1. Of(u) # Of(t)
      BY <1>8, <2>3 DEF BackupsInv, Exclusive
    <3> QED BY <1>3, <1>4, <2>1, <3>1
  <2> QED BY <2>2, <2>3
<1>9. ~LostCommits => ReadyIsWhole'
  <2> SUFFICES ASSUME ~LostCommits, NEW p \in Pairs, package'[p[1]][p[2]].status = "READY"
               PROVE  \A f \in Files : storage'[Key(p, f)] # Absent
    BY DEF ReadyIsWhole, StatusOf, Pairs
  <2>1. CASE p = Of(t)
    BY <1>2, <1>3, <2>1 DEF WorkerOK, StatusOf
  <2>2. CASE p # Of(t)
    <3>1. StatusOf(p) = "READY"
      BY <1>3, <2>2 DEF StatusOf
    <3> QED BY <1>4, <2>2, <3>1 DEF BackupsInv, ReadyIsWhole, Pairs
  <2> QED BY <2>1, <2>2
<1>10. Calmly => \A p \in Pairs :
         StatusOf(p) = "FAILED" \/ (StatusOf(p) = "GENERATING" /\ package[p[1]][p[2]].old) =>
           StatusOf(p)' = "FAILED" \/ package'[p[1]][p[2]] = package[p[1]][p[2]]
  BY <1>2, <1>3 DEF WorkerOK
<1>11. BackupsInv'
  BY <1>7, <1>8, <1>9, <1>10, BackupsKept
<1> QED BY <1>7, <1>11

LEMMA BackupsNext ==
  ASSUME CyclesInv, BackupsInv, Next
  PROVE  BackupsInv' /\ (Calmly => HistoryStep)
<1>1. CyclesInv' /\ TypeOK /\ ShapedCalls /\ TypeOK' /\ ShapedCalls'
  BY CyclesNext DEF CyclesInv
<1>2. \A t \in Callers : call[t] \in CallRecord /\ Shaped(call[t])
  BY <1>1 DEF ShapedCalls, ShapedRecord
<1>3. SUFFICES BackupsInv' /\ (Calmly => \A p \in Pairs : Final(p))
  BY DEF HistoryStep, Final, Pairs
<1> DEFINE Goal == BackupsInv' /\ (Calmly => \A p \in Pairs : Final(p))
<1>4. ASSUME Quiet, UNCHANGED <<package, storage>>,
             \A m \in Months : cycle'[m].status = "ARCHIVED" => cycle[m].status = "ARCHIVED" /\ cycle'[m].backup = cycle[m].backup
      PROVE  Goal
  <2>1. \A p \in Pairs : Final(p)
    BY <1>4 DEF Final, StatusOf
  <2>2. ~LostCommits => ReadyIsWhole'
    BY <1>4 DEF BackupsInv, ReadyIsWhole, StatusOf
  <2>3. Calmly => ArchivedHasBackup'
    BY <1>1, <1>4, <2>1, ArchivesKept DEF Final, BackupsInv
  <2>4. BackupsInv'
    BY <1>1, <1>4, <2>2, <2>3, BackupsKept
  <2> QED BY <2>1, <2>4
<1>5. ASSUME NEW t \in Callers, CommitGenerate(t)  PROVE Goal
  <2>1. Working(t) /\ package' = SetStatus(Of(t), "READY") /\ UNCHANGED <<cycle, storage>> /\ call[t].written = Files
    BY <1>2, <1>5 DEF CommitGenerate, Working, AtWork, Shaped
  <2>2. ~Working(t)' \/ LostCommits
    BY <1>1, <1>5 DEF CommitGenerate, Answered, Working, Step, Idle, AtWork, ShapedCalls
  <2>3. Quiet
    BY <1>1, <1>5, MostCallsAreQuiet DEF Serve, CommitGenerate, Reserve, Store
  <2>4. (Calmly => \A p \in Pairs : Final(p)) => (Calmly => ArchivedHasBackup')
    BY <1>1, <2>1, ArchivesKept DEF Final, BackupsInv
  <2> QED BY <1>1, <2>1, <2>2, <2>3, <2>4, SettledFacts
<1>6. ASSUME NEW t \in Callers, CommitRollover(t)  PROVE Goal
  <2> DEFINE m == call[t].month
  <2>1. m \in Months /\ m + 1 \in Months /\ m # m + 1 /\ call[t].version \in Versions /\ Working(t) /\ call[t].written = Files
    BY <1>2, <1>6, BoundsAssumption DEF CommitRollover, Working, AtWork, Shaped, Months
  <2>2. Quiet
    BY <1>1, <1>6, MostCallsAreQuiet DEF Serve, CommitRollover, Reserve, Store
  <2>3. CASE ~(cycle[m].status = "RELEASED" /\ cycle[m + 1].status = "NONE")
    BY <1>4, <1>6, <2>2, <2>3 DEF CommitRollover
  <2>4. CASE cycle[m].status = "RELEASED" /\ cycle[m + 1].status = "NONE"
    <3>1. /\ package' = SetStatus(Of(t), "READY") /\ UNCHANGED storage
          /\ cycle' = [cycle EXCEPT ![m] = Archived(m, call[t].version), ![m + 1] = Opened(m + 1)]
      BY <1>6, <2>4 DEF CommitRollover
    <3>2. ~Working(t)' \/ LostCommits
      BY <1>1, <1>6, <2>4 DEF CommitRollover, Answered, Working, Step, Idle, AtWork, ShapedCalls
    <3>3. ASSUME Calmly, \A p \in Pairs : Final(p)  PROVE ArchivedHasBackup'
      <4>1. Archived(m, call[t].version).backup = call[t].version /\ Opened(m + 1).status = "DRAFT"
        BY <1>1, <2>1 DEF Archived, Opened, NoCycle, TypeOK, CycleRecord
      <4>2. /\ cycle'[m].backup = call[t].version /\ cycle'[m + 1].status = "DRAFT"
            /\ \A n \in Months \ {m, m + 1} : cycle'[n] = cycle[n]
        <5>1. cycle \in [Months -> CycleRecord]
          BY <1>1 DEF TypeOK
        <5> HIDE DEF m
        <5> QED BY <2>1, <3>1, <4>1, <5>1
      <4>3. package'[m][call[t].version].status = "READY" /\ call[t].version # 0
        <5>1. <<m, call[t].version>> \in Pairs /\ Of(t) = <<m, call[t].version>>
          BY <2>1 DEF Pairs, Of
        <5>2. package'[m][call[t].version] = [status |-> "READY", old |-> FALSE]
          <6>1. \A i \in Months, v \in Versions :
                  SetStatus(Of(t), "READY")[i][v] =
                    IF i = Of(t)[1] /\ v = Of(t)[2] THEN [status |-> "READY", old |-> FALSE] ELSE package[i][v]
            BY <1>1, <5>1, StatusSet
          <6> QED BY <2>1, <3>1, <5>1, <6>1
        <5> QED BY <2>1, <5>2 DEF Versions
      <4>4. ASSUME NEW n \in Months, cycle'[n].status = "ARCHIVED"
            PROVE  cycle'[n].backup # 0 /\ package'[n][cycle'[n].backup].status = "READY"
        <5>1. CASE n = m
          BY <4>2, <4>3, <5>1
        <5>2. CASE n # m
          <6>1. cycle'[n] = cycle[n] /\ cycle[n].status = "ARCHIVED"
            BY <4>2, <4>4, <5>2
          <6>2. cycle[n].backup # 0 /\ StatusOf(<<n, cycle[n].backup>>) = "READY"
            BY <3>3, <6>1 DEF BackupsInv, ArchivedHasBackup
          <6>3. <<n, cycle[n].backup>> \in Pairs
            BY <1>1, <6>2, BoundsAssumption DEF TypeOK, CycleRecord, Pairs, Versions
          <6> QED BY <3>3, <6>1, <6>2, <6>3 DEF Final
        <5> QED BY <5>1, <5>2
      <4> QED BY <4>4 DEF ArchivedHasBackup, StatusOf
    <3> QED BY <1>1, <2>1, <2>2, <3>1, <3>2, <3>3, SettledFacts
  <2> QED BY <2>3, <2>4
<1>7. ASSUME NEW t \in Callers, CleanUp(t)  PROVE Goal
  <2>1. Working(t) /\ UNCHANGED cycle /\ call[t].written \subseteq Files
    BY <1>2, <1>7 DEF CleanUp, Working, AtWork, CallRecord
  <2>2. Quiet
    BY <1>1, <1>7, MostCallsAreQuiet DEF Serve, CleanUp, Reserve, Store
  <2>3. ~Working(t)'
    BY <1>1, <1>7 DEF CleanUp, Working, Step, Idle, AtWork, ShapedCalls
  <2>4. \A k \in Keys : storage'[k] # storage[k] => \E f \in Files : k = Key(Of(t), f)
    <3>1. PICK D \in SUBSET WrittenByThis(t) : storage' = [k \in Keys |-> IF k \in D THEN Absent ELSE storage[k]]
      BY <1>7 DEF CleanUp
    <3> QED BY <2>1, <3>1 DEF WrittenByThis
  <2>5. (\A p \in Pairs : Final(p)) /\ Calmly => ArchivedHasBackup'
    BY <1>1, <2>1, ArchivesKept DEF Final, BackupsInv
  <2> QED BY <1>1, <1>7, <2>1, <2>2, <2>3, <2>4, <2>5, SettledFacts DEF CleanUp
<1>8. ASSUME NEW t \in Callers, Recover(t)  PROVE Goal
  <2>1. Quiet
    BY <1>1, <1>8, MostCallsAreQuiet DEF Serve, Recover, Reserve, Store
  <2>2. PICK p \in call[t].stale : package' = Failed({p}) /\ UNCHANGED <<cycle, storage>>
    BY <1>8 DEF Recover
  <2>3. StaleOK(t)
    BY DEF BackupsInv
  <2>4. Calmly => \A q \in {p} : StatusOf(q) = "FAILED" \/ (StatusOf(q) = "GENERATING" /\ package[q[1]][q[2]].old)
    BY <2>3 DEF StaleOK
  <2> QED BY <1>1, <2>1, <2>2, <2>4, AbandonedFacts
<1>9. ASSUME Restart  PROVE Goal
  <2>1. Quiet
    BY <1>9, <1>1, MostCallsAreQuiet DEF Restart
  <2>2. package' = Failed(Stale) /\ UNCHANGED <<cycle, storage>>
    BY <1>9 DEF Restart
  <2>3. \A p \in Stale : StatusOf(p) = "GENERATING" /\ package[p[1]][p[2]].old
    BY DEF Stale, Generating
  <2> QED BY <1>1, <2>1, <2>2, <2>3, AbandonedFacts
<1>10. ASSUME NEW q \in Pairs, GrowOld(q)  PROVE Goal
  <2>1. Quiet /\ UNCHANGED <<cycle, storage>> /\ StatusOf(q) = "GENERATING" /\ ~package[q[1]][q[2]].old
    BY <1>1, <1>10, MostCallsAreQuiet DEF GrowOld, Generating
  <2>2. \A p \in Pairs : /\ package'[p[1]][p[2]].status = package[p[1]][p[2]].status
                         /\ p # q => package'[p[1]][p[2]] = package[p[1]][p[2]]
    <3>1. PICK m \in Months, v \in Versions : q = <<m, v>>
      BY DEF Pairs
    <3>2. package' = [package EXCEPT ![m] = [package[m] EXCEPT ![v] = [package[m][v] EXCEPT !.old = TRUE]]]
      BY <1>10, <3>1 DEF GrowOld
    <3>3. [package[m][v] EXCEPT !.old = TRUE].status = package[m][v].status
      <4>1. package[m][v] \in PackageRecord
        BY <1>1 DEF TypeOK
      <4> QED BY <4>1 DEF PackageRecord
    <3>4. \A n \in Months, w \in Versions :
             package'[n][w] = IF n = m /\ w = v THEN [package[m][v] EXCEPT !.old = TRUE] ELSE package[n][w]
      BY <1>1, <3>2 DEF TypeOK
    <3>5. \A p \in Pairs : p[1] \in Months /\ p[2] \in Versions /\ (p # q => p[1] # m \/ p[2] # v)
      BY <3>1 DEF Pairs
    <3> QED BY <3>3, <3>4, <3>5
  <2>3. \A p \in Pairs : Final(p)
    BY <2>1, <2>2 DEF Final, StatusOf
  <2>4. ~LostCommits => ReadyIsWhole'
    BY <2>1, <2>2 DEF BackupsInv, ReadyIsWhole, StatusOf, Pairs
  <2>5. Calmly => ArchivedHasBackup'
    BY <1>1, <2>1, <2>3, ArchivesKept DEF Final, BackupsInv
  <2>6. ASSUME NEW u \in Callers, Working(u), Working(u)'
        PROVE  \/ LostCommits /\ StatusOf(Of(u))' # "NONE"
               \/ ~Calmly /\ StatusOf(Of(u))' \notin {"NONE", "READY"}
               \/ package'[Of(u)[1]][Of(u)[2]] = package[Of(u)[1]][Of(u)[2]]
    <3>1. Of(u) \in Pairs /\ WorkerOK(u) /\ Of(u)' = Of(u)
      BY <1>1, <1>10, <2>6, WorkerFacts DEF BackupsInv, GrowOld, Of
    <3>2. CASE Of(u) # q
      BY <2>2, <3>1, <3>2
    <3>3. CASE Of(u) = q
      <4>1. StatusOf(Of(u))' = "GENERATING"
        BY <2>1, <2>2, <3>1, <3>3 DEF StatusOf
      <4>2. SlowGeneration
        BY <1>10, <2>6, <3>3 DEF GrowOld, Workers, Working, AtWork
      <4> QED BY <4>1, <4>2 DEF Calmly
    <3> QED BY <3>2, <3>3
  <2>7. \A p \in Pairs :
          StatusOf(p) = "FAILED" \/ (StatusOf(p) = "GENERATING" /\ package[p[1]][p[2]].old) =>
            StatusOf(p)' = "FAILED" \/ package'[p[1]][p[2]] = package[p[1]][p[2]]
    BY <2>1, <2>2 DEF StatusOf
  <2>8. BackupsInv'
    BY <1>1, <2>1, <2>4, <2>5, <2>6, <2>7, BackupsKept
  <2> QED BY <2>3, <2>8
<1>11. ASSUME NEW t \in Callers, Reserve(t), Free(Of(t))  PROVE Goal
  <2>1. Of(t) \in Pairs /\ StatusOf(Of(t)) = "NONE" /\ package' = SetStatus(Of(t), "GENERATING") /\ UNCHANGED <<cycle, storage>>
    BY <1>1, <1>11, WorkerFacts DEF Reserve, Free
  <2>2. /\ Of(t)' = Of(t) /\ call'[t].written = {} /\ call'[t].stale = {}
        /\ \A u \in Callers \ {t} : call'[u] = call[u]
    <3>1. PICK r : r = [call[t] EXCEPT !.pc = "assemble"]
      OBVIOUS
    <3>2. call' = [call EXCEPT ![t] = r]
      BY <1>11, <3>1 DEF Reserve, Step
    <3>3. r.month = call[t].month /\ r.version = call[t].version /\ r.written = {} /\ r.stale = {}
      BY <1>2, <1>11, <3>1 DEF CallRecord, Reserve, Shaped
    <3> QED BY <1>1, <3>2, <3>3 DEF ShapedCalls, Of
  <2>3. \A p \in Pairs : \/ p # Of(t) /\ package'[p[1]][p[2]] = package[p[1]][p[2]]
                         \/ p = Of(t) /\ package'[p[1]][p[2]] = [status |-> "GENERATING", old |-> FALSE]
    <3>1. \A m \in Months, v \in Versions :
            package'[m][v] = IF m = Of(t)[1] /\ v = Of(t)[2] THEN [status |-> "GENERATING", old |-> FALSE] ELSE package[m][v]
      BY <1>1, <2>1, StatusSet
    <3>2. \A p \in Pairs : p[1] \in Months /\ p[2] \in Versions /\ (p = Of(t) <=> p[1] = Of(t)[1] /\ p[2] = Of(t)[2])
      BY <2>1 DEF Pairs
    <3> QED BY <3>1, <3>2
  <2>4. \A p \in Pairs : Final(p)
    BY <2>1, <2>3 DEF Final, StatusOf
  <2>5. ~LostCommits => ReadyIsWhole'
    BY <2>1, <2>3 DEF BackupsInv, ReadyIsWhole, StatusOf, Pairs
  <2>6. Calmly => ArchivedHasBackup'
    BY <1>1, <2>1, <2>4, ArchivesKept DEF Final, BackupsInv
  <2>7. \A u \in Callers \ {t} : Working(u)' => Working(u) /\ Of(u)' = Of(u) /\ Of(u) \in Pairs /\ Of(u) # Of(t)
    BY <1>1, <2>1, <2>2, WorkerFacts DEF Working, Of, BackupsInv, WorkerOK
  <2>8. Exclusive'
    BY <2>2, <2>7 DEF BackupsInv, Exclusive
  <2>9. ASSUME NEW u \in Callers  PROVE WorkerOK(u)' /\ StaleOK(u)'
    <3>1. CASE u = t
      <4>1. package'[Of(t)[1]][Of(t)[2]] = [status |-> "GENERATING", old |-> FALSE]
        BY <2>1, <2>3
      <4> QED BY <2>2, <3>1, <4>1 DEF WorkerOK, StaleOK, StatusOf, Calmly
    <3>2. CASE u # t
      <4>1. WorkerOK(u) /\ StaleOK(u) /\ call'[u] = call[u]
        BY <2>2, <3>2 DEF BackupsInv
      <4>2. WorkerOK(u)'
        BY <2>1, <2>3, <2>7, <3>2, <4>1 DEF WorkerOK, StatusOf, Calmly
      <4>3. StaleOK(u)'
        <5>1. call[u].stale \subseteq Pairs
          BY <1>2 DEF CallRecord, Pairs
        <5> QED BY <2>1, <2>3, <4>1, <5>1 DEF StaleOK, StatusOf, Calmly
      <4> QED BY <4>2, <4>3
    <3> QED BY <3>1, <3>2
  <2> QED BY <2>4, <2>5, <2>6, <2>8, <2>9 DEF BackupsInv
<1>12. ASSUME NEW t \in Callers, Reserve(t), ~Free(Of(t))  PROVE Goal
  <2>1. Step(t, Idle) /\ UNCHANGED <<cycle, package, storage>>
    BY <1>12 DEF Reserve
  <2>2. Quiet
    BY <1>1, <2>1 DEF ShapedCalls, Step, Quiet, Working, Idle, AtWork
  <2> QED BY <1>4, <2>1, <2>2
<1>13. ASSUME NEW t \in Callers, NEW f \in Files, Store(t, f)  PROVE Goal
  <2>1. Working(t) /\ Of(t) \in Pairs /\ UNCHANGED <<cycle, package>>
    BY <1>1, <1>13, WorkerFacts DEF Store, Working, AtWork
  <2>2. /\ Of(t)' = Of(t) /\ call'[t].written = call[t].written \cup {f} /\ call'[t].stale = call[t].stale
        /\ \A u \in Callers \ {t} : call'[u] = call[u]
    <3>1. PICK r : r = [call[t] EXCEPT !.written = @ \cup {f},
                                       !.pc = IF call[t].written \cup {f} = Files THEN "commit" ELSE "store"]
      OBVIOUS
    <3>2. call' = [call EXCEPT ![t] = r]
      BY <1>13, <3>1 DEF Store, Step
    <3>3. /\ r.month = call[t].month /\ r.version = call[t].version
          /\ r.written = call[t].written \cup {f} /\ r.stale = call[t].stale
      BY <1>2, <3>1 DEF CallRecord
    <3> QED BY <1>1, <3>2, <3>3 DEF ShapedCalls, Of
  <2>3. call[t].data[f] # Absent
    BY <1>2, <1>13 DEF Store, Shaped
  <2>4. \A p \in Pairs, g \in Files : \/ storage'[Key(p, g)] = storage[Key(p, g)]
                                      \/ p = Of(t) /\ g = f
    <3>1. storage' = [storage EXCEPT ![Key(Of(t), f)] = call[t].data[f]]
      BY <1>13 DEF Store
    <3>2. \A p \in Pairs, g \in Files : Key(p, g) \in Keys /\ (Key(p, g) = Key(Of(t), f) => p = Of(t) /\ g = f)
      BY <2>1 DEF Key, Keys, Pairs
    <3> QED BY <1>1, <3>1, <3>2 DEF TypeOK
  <2>5. storage'[Key(Of(t), f)] # Absent
    BY <1>1, <1>13, <2>1, <2>3 DEF Store, TypeOK, Key, Keys, Pairs
  <2>6. Calmly => \A p \in Pairs : Final(p)
    BY <2>1, <2>4 DEF Final, StatusOf, BackupsInv, WorkerOK
  <2>7. ~LostCommits => ReadyIsWhole'
    <3> SUFFICES ASSUME ~LostCommits, NEW p \in Pairs, StatusOf(p) = "READY"
                 PROVE  \A g \in Files : storage'[Key(p, g)] # Absent
      BY <2>1 DEF ReadyIsWhole, StatusOf, Pairs
    <3>1. p # Of(t)
      BY <2>1 DEF BackupsInv, WorkerOK
    <3> QED BY <2>4, <3>1 DEF BackupsInv, ReadyIsWhole, Pairs
  <2>8. Calmly => ArchivedHasBackup'
    BY <2>1 DEF BackupsInv, ArchivedHasBackup, StatusOf
  <2>9. \A u \in Callers : Working(u)' => Working(u) /\ Of(u)' = Of(u) /\ Of(u) \in Pairs
    BY <1>1, <2>1, <2>2, WorkerFacts DEF Working, Of
  <2>10. Exclusive'
    BY <2>9 DEF BackupsInv, Exclusive
  <2>11. ASSUME NEW u \in Callers  PROVE WorkerOK(u)' /\ StaleOK(u)'
    <3>1. WorkerOK(u) /\ StaleOK(u) /\ call[u].written \subseteq Files
      BY <1>2 DEF BackupsInv, CallRecord
    <3>2. StaleOK(u)'
      BY <2>1, <2>2, <3>1 DEF StaleOK, StatusOf, Calmly
    <3>3. ASSUME Working(u)'  PROVE WorkerOK(u)'
      <4>1. ASSUME NEW g \in call'[u].written, ~LostCommits  PROVE storage'[Key(Of(u), g)] # Absent
        <5>1. Working(u) /\ Of(u) \in Pairs
          BY <2>9, <3>3
        <5>2. CASE u = t
          BY <2>2, <2>4, <2>5, <3>1, <4>1, <5>1, <5>2 DEF WorkerOK
        <5>3. CASE u # t
          <6>1. g \in call[u].written /\ Of(u) # Of(t)
            BY <2>1, <2>2, <4>1, <5>1, <5>3 DEF BackupsInv, Exclusive
          <6> QED BY <2>4, <3>1, <4>1, <5>1, <6>1 DEF WorkerOK
        <5> QED BY <5>2, <5>3
      <4> QED BY <2>1, <2>9, <3>1, <3>3, <4>1 DEF WorkerOK, StatusOf, Calmly
    <3> QED BY <3>2, <3>3 DEF WorkerOK
  <2> QED BY <2>6, <2>7, <2>8, <2>10, <2>11 DEF BackupsInv
<1>14. CASE \E t \in Callers : Serve(t)
  <2>1. PICK t \in Callers : Serve(t)
    BY <1>14
  <2>2. CASE CommitGenerate(t) \/ CommitRollover(t) \/ CleanUp(t) \/ Recover(t)
    BY <1>5, <1>6, <1>7, <1>8, <2>2
  <2>3. CASE Reserve(t)
    BY <1>11, <1>12, <2>3
  <2>4. CASE \E f \in Files : Store(t, f)
    BY <1>13, <2>4
  <2>5. CASE CommitCreate(t) \/ CommitEdit(t) \/ FindStale(t) \/ Summarize(t) \/ CountVersions(t) \/ Fail(t) \/ \E f \in Files : Assemble(t, f)
    <3>1. UNCHANGED <<package, storage>>
      BY <2>5 DEF CommitCreate, CommitEdit, FindStale, Summarize, CountVersions, Fail, Assemble
    <3>2. \/ Quiet \/ Reserve(t) \/ \E f \in Files : Store(t, f)
      BY <1>1, <2>1, MostCallsAreQuiet
    <3>3. \/ \E u \in Callers : CommitRollover(u)
          \/ \A m \in Months : cycle'[m].status = "ARCHIVED" => cycle[m].status = "ARCHIVED" /\ cycle'[m].backup = cycle[m].backup
      BY <1>1, SameArchives
    <3> QED BY <1>4, <1>6, <2>3, <2>4, <3>1, <3>2, <3>3
  <2> QED BY <2>1, <2>2, <2>3, <2>4, <2>5 DEF Serve
<1>15. CASE \/ \E t \in Callers, m \in Months : Request(t, m)
            \/ \E m \in Months : Finalize(m)
            \/ Crash
  <2>1. UNCHANGED <<package, storage>>
    BY <1>15 DEF Request, RequestCreate, RequestEdit, RequestGenerate, RequestRollover, Finalize, Crash
  <2>2. Quiet
    BY <1>1, <1>15, MostCallsAreQuiet DEF Finalize
  <2>3. \/ \E u \in Callers : CommitRollover(u)
        \/ \A m \in Months : cycle'[m].status = "ARCHIVED" => cycle[m].status = "ARCHIVED" /\ cycle'[m].backup = cycle[m].backup
    BY <1>1, SameArchives
  <2> QED BY <1>4, <1>6, <2>1, <2>2, <2>3
<1> QED
  BY <1>9, <1>10, <1>14, <1>15 DEF Next, Pairs

LEMMA BackupsInit == Init => BackupsInv
<1> SUFFICES ASSUME Init  PROVE BackupsInv
  OBVIOUS
<1>1. \A t \in Callers : ~Working(t) /\ call[t].stale = {}
  BY DEF Init, Idle, Working, AtWork
<1>2. \A p \in Pairs : StatusOf(p) = "NONE"
  BY DEF Init, Pairs, StatusOf, NoPackage
<1>3. \A m \in Months : cycle[m].status = "NONE"
  BY DEF Init, NoCycle
<1> QED
  BY <1>1, <1>2, <1>3 DEF BackupsInv, Exclusive, WorkerOK, StaleOK, ReadyIsWhole, ArchivedHasBackup, Pairs

LEMMA BackupsStutter == BackupsInv /\ UNCHANGED vars => BackupsInv'
  BY DEF vars, BackupsInv, Exclusive, WorkerOK, StaleOK, ReadyIsWhole, ArchivedHasBackup, Working, Of, StatusOf

LEMMA BackupsInvariant == Spec => []BackupsInv
<1>1. CyclesInv /\ BackupsInv /\ [Next]_vars => BackupsInv'
  BY BackupsNext, BackupsStutter
<1> QED
  BY <1>1, BackupsInit, CyclesInvariant, PTL DEF Spec

(* A package that can be downloaded has all its files, whatever other generations of the    *)
(* cycle did and however the server failed (writeBackupPackageFilesToStorage,               *)
(* failBackupPackageGeneration), slow generations included, if no commit is lost.           *)
THEOREM ReadyAlwaysWhole ==
  ASSUME ~LostCommits
  PROVE  Spec => []ReadyIsWhole
<1>1. BackupsInv => ReadyIsWhole
  BY DEF BackupsInv
<1> QED BY <1>1, BackupsInvariant, PTL

(* If, moreover, no generation outlives the stale threshold, an archived cycle keeps the      *)
(* complete backup it was archived with, and no generation under way is declared abandoned  *)
(* (recoverStaleGeneratingBackupPackages).                                                  *)
THEOREM BackupsAlwaysWhole ==
  ASSUME ~LostCommits, ~SlowGeneration
  PROVE  Spec => []BackupsAreWhole
<1>1. CyclesInv /\ BackupsInv => BackupsAreWhole
  <2> SUFFICES ASSUME CyclesInv, BackupsInv  PROVE LiveNotRecovered
    BY DEF CyclesInv, BackupsInv, BackupsAreWhole, Calmly
  <2>1. ASSUME NEW p \in Pairs, NEW t \in Workers(p)  PROVE StatusOf(p) = "GENERATING"
    BY <2>1 DEF Workers, BackupsInv, WorkerOK, Working, AtWork, Calmly
  <2> QED BY <2>1 DEF LiveNotRecovered, Pairs
<1> QED BY <1>1, CyclesInvariant, BackupsInvariant, PTL

(* Then the history of packages is not rewritten either: a ready package and its files      *)
(* stay, a failed version is never generated again (reserveBackupPackageVersion).           *)
THEOREM PackagesAlwaysFinal ==
  ASSUME ~LostCommits, ~SlowGeneration
  PROVE  Spec => PackagesAreFinal
<1>1. CyclesInv /\ BackupsInv /\ [Next]_vars => [HistoryStep]_vars
  BY BackupsNext DEF Calmly
<1> QED BY <1>1, CyclesInvariant, BackupsInvariant, PTL DEF Spec, PackagesAreFinal

-----------------------------------------------------------------------------
(* The employee registry and the current cycle's entries: the theorems of EmployeeRegistry.  *)
(* Its operators are Staff!Operator.                                                         *)

Columns   == {"present", "left", "site", "unit", "bank", "account", "eobi"}
Rostering == {"reconcile", "rollover"}
Read      == {"update", "leave", "reactivate", "import"}

(* What a request carries, by its kind: the change it will make, decided from the employee   *)
(* it read. A form that sends only what it changes names no field that stays.                *)
IsCall(c) == c = [kind |-> c.kind, pc |-> c.pc, who |-> c.who, data |-> c.data, seen |-> c.seen,
                  found |-> c.found, inCycle |-> c.inCycle, roster |-> c.roster]
Changes(s, d) ==
    /\ Staff!Fits(d)
    /\ Staff!NoImports => Staff!Overlay(s, d).bank = Staff!Overlay(s, d).account
    /\ Staff!NoImports /\ ~FormResubmits =>
         /\ "unit" \in DOMAIN d => d.unit # s.unit
         /\ "eobi" \in DOMAIN d => d.eobi # s.eobi
         /\ SiteOf[s.unit] = s.site /\ "site" \in DOMAIN d => "unit" \in DOMAIN d
Carries(c) ==
    /\ IsCall(c)
    /\ c.seen \in Staff!EmployeeRecord /\ c.found \in Staff!EntryRecord
    /\ c.kind \in Staff!Kinds \cup {"none"} /\ c.pc \in {"idle", "begin", "write"}
    /\ c.kind = "none" <=> c.pc = "idle"
    /\ Staff!NoImports => c.kind \in Requests \cup {"none"}
    /\ c.pc = "begin" => c.kind \in Staff!Updating
    /\ c.kind \in Staff!Updating \cup {"manual"} => c.who \in Employees
    /\ c.kind \in Read \cup {"manual"} => c.seen.present /\ Staff!CompositeKey(c.seen)
    /\ c.kind = "create" =>
         /\ c.data \in Staff!EmployeeRecord /\ c.data.present /\ c.seen = Staff!Unseen
         /\ Staff!NoImports => ~c.data.left /\ c.data.bank = c.data.account
    /\ c.kind \in {"update", "reactivate"} => Changes(c.seen, c.data)
    /\ c.kind = "update" => "left" \notin DOMAIN c.data
    /\ c.kind = "reactivate" => "left" \in DOMAIN c.data /\ c.data.left = FALSE
    /\ c.kind = "leave" => c.data = [left |-> TRUE]
    /\ c.kind = "import" => Staff!Fits(c.data)
    /\ c.kind \in Rostering =>
         /\ DOMAIN c.roster \subseteq Employees
         /\ \A e \in DOMAIN c.roster : c.roster[e] \in Staff!EmployeeRecord
    /\ c.kind = "reconcile" => \A e \in DOMAIN c.roster : c.roster[e].present /\ ~c.roster[e].left
    /\ c.kind = "rollover" => c.inCycle \in Nat /\ c.inCycle < MaxCycle

(* A transaction that writes an employee holds the row: the row it will leave belongs to one *)
(* site, and is a new one exactly when the request creates it.                               *)
HoldsRow(t) ==
    request[t].pc = "write" /\ request[t].kind \in Staff!Updating =>
      /\ Staff!CompositeKey(Staff!After(t))
      /\ (request[t].kind = "create") = ~employee[request[t].who].present
OneHolder == \A t \in Callers, u \in Callers, e \in Employees : Staff!Holds(t, e) /\ Staff!Holds(u, e) => t = u

(* A request of a kind that overlaps with nothing: what it has read is still so.             *)
StillSo(t) ==
    request[t].kind \in Alone =>
      /\ \A u \in Staff!Others(t) : request[u].pc = "idle"
      /\ request[t].kind \in Read \cup {"manual"} => request[t].seen = employee[request[t].who]
      /\ request[t].kind \in Staff!Updating /\ request[t].pc = "write" =>
           request[t].found = entry[request[t].who] /\ request[t].inCycle = IF draft THEN current ELSE 0
      /\ request[t].kind \in Rostering => \A e \in DOMAIN request[t].roster : request[t].roster[e] = employee[e]

RegistryInv ==
    /\ Staff!TypeOK
    /\ request = [t \in Callers |-> request[t]]
    /\ \A t \in Callers : Carries(request[t]) /\ HoldsRow(t) /\ (Staff!NoImports => StillSo(t))
    /\ OneHolder
    /\ Staff!UnitAtSite

-----------------------------------------------------------------------------
(* The operators. *)

LEMMA ColumnsOf ==
  ASSUME NEW r \in Staff!EmployeeRecord
  PROVE  DOMAIN r = Columns
  BY DEF Staff!EmployeeRecord, Columns

LEMMA Overlaid ==
  ASSUME NEW r \in Staff!EmployeeRecord, NEW d
  PROVE  LET o == Staff!Overlay(r, d) IN
         /\ DOMAIN o = Columns /\ o = [f \in Columns |-> o[f]]
         /\ o.present = IF "present" \in DOMAIN d THEN d.present ELSE r.present
         /\ o.left = IF "left" \in DOMAIN d THEN d.left ELSE r.left
         /\ o.site = IF "site" \in DOMAIN d THEN d.site ELSE r.site
         /\ o.unit = IF "unit" \in DOMAIN d THEN d.unit ELSE r.unit
         /\ o.bank = IF "bank" \in DOMAIN d THEN d.bank ELSE r.bank
         /\ o.account = IF "account" \in DOMAIN d THEN d.account ELSE r.account
         /\ o.eobi = IF "eobi" \in DOMAIN d THEN d.eobi ELSE r.eobi
  BY ColumnsOf DEF Staff!Overlay, Columns

LEMMA OverlayIsRecord ==
  ASSUME NEW r \in Staff!EmployeeRecord, NEW d, Staff!Fits(d)
  PROVE  Staff!Overlay(r, d) \in Staff!EmployeeRecord /\ Staff!Overlay(r, d).present = r.present
<1>1. PICK o : o = Staff!Overlay(r, d)
  OBVIOUS
<1>2. "present" \notin DOMAIN d
  BY DEF Staff!Fits, Staff!Fields
<1>3. /\ r.present \in BOOLEAN /\ r.left \in BOOLEAN /\ r.site \in Staff!Sites /\ r.unit \in Units
      /\ r.bank \in BOOLEAN /\ r.account \in BOOLEAN /\ r.eobi \in BOOLEAN
  BY DEF Staff!EmployeeRecord
<1>4. o.present = r.present
  BY <1>1, <1>2, Overlaid
<1>5. o.site \in Staff!Sites /\ o.unit \in Units
  BY <1>1, <1>3, Overlaid DEF Staff!Fits
<1>6. o.left \in BOOLEAN
  BY <1>1, <1>3, Overlaid DEF Staff!Fits
<1>7. o.bank \in BOOLEAN
  BY <1>1, <1>3, Overlaid DEF Staff!Fits
<1>8. o.account \in BOOLEAN
  BY <1>1, <1>3, Overlaid DEF Staff!Fits
<1>9. o.eobi \in BOOLEAN
  BY <1>1, <1>3, Overlaid DEF Staff!Fits
<1>10. o = [f \in Columns |-> o[f]] /\ DOMAIN o = Columns
  BY <1>1, Overlaid
<1>11. o \in Staff!EmployeeRecord
  BY <1>3, <1>4, <1>5, <1>6, <1>7, <1>8, <1>9, <1>10 DEF Staff!EmployeeRecord, Columns
<1> QED
  BY <1>1, <1>4, <1>11

LEMMA Profiled ==
  ASSUME Staff!RegistryConstants, NEW r \in Profiles
  PROVE  /\ Staff!Profile(r) \in Staff!EmployeeRecord /\ Staff!CompositeKey(Staff!Profile(r))
         /\ Staff!Profile(r).present /\ ~Staff!Profile(r).left
         /\ Staff!Profile(r).bank = Staff!Profile(r).account
<1>1. r \in Staff!ProfileRecord /\ SiteOf[r.unit] = r.site /\ (r.bank => r.account)
  BY DEF Staff!RegistryConstants
<1>2. PICK a \in BOOLEAN : a = (r.account /\ r.bank)
  OBVIOUS
<1>3. a = r.bank
  BY <1>1, <1>2 DEF Staff!ProfileRecord
<1>4. Staff!Profile(r) = [present |-> TRUE, left |-> FALSE, site |-> r.site, unit |-> r.unit,
                    bank |-> r.bank, account |-> a, eobi |-> r.eobi]
  BY <1>2 DEF Staff!Profile
<1> QED
  BY <1>1, <1>3, <1>4 DEF Staff!ProfileRecord, Staff!EmployeeRecord, Staff!CompositeKey

LEMMA NobodySeen ==
  ASSUME Staff!RegistryConstants
  PROVE  /\ Staff!Unseen \in Staff!EmployeeRecord /\ Staff!CompositeKey(Staff!Unseen) /\ ~Staff!Unseen.present
         /\ ~Staff!Unseen.left
         /\ IsCall(Staff!Idle) /\ Carries(Staff!Idle) /\ Staff!Idle.pc = "idle" /\ Staff!Idle.kind = "none"
<1>1. PICK r \in Profiles : r = CHOOSE x \in Profiles : TRUE
  BY DEF Staff!RegistryConstants
<1>2. PICK p : p = Staff!Profile(r)
  OBVIOUS
<1>3. /\ Staff!Unseen = [p EXCEPT !.present = FALSE] /\ p \in Staff!EmployeeRecord /\ Staff!CompositeKey(p)
      /\ ~p.left
  BY <1>1, <1>2, Profiled DEF Staff!Unseen
<1>4. /\ Staff!Unseen \in Staff!EmployeeRecord /\ Staff!CompositeKey(Staff!Unseen) /\ ~Staff!Unseen.present
      /\ ~Staff!Unseen.left
  BY <1>3 DEF Staff!EmployeeRecord, Staff!CompositeKey
<1>5. /\ IsCall(Staff!Idle) /\ Staff!Idle.pc = "idle" /\ Staff!Idle.kind = "none"
      /\ Staff!Idle.seen = Staff!Unseen /\ Staff!Idle.found = Staff!NoEntry
  BY DEF IsCall, Staff!Idle
<1>6. Staff!NoEntry \in Staff!EntryRecord
  BY DEF Staff!NoEntry, Staff!EntryRecord
<1>7. Carries(Staff!Idle)
  BY <1>4, <1>5, <1>6 DEF Carries, Staff!Updating, Read, Rostering
<1> QED
  BY <1>4, <1>5, <1>7

-----------------------------------------------------------------------------
(* What the requests carry. *)

LEMMA BankingFits ==
  ASSUME NEW r \in Staff!EmployeeRecord, NEW p, Staff!Fits(p), "left" \notin DOMAIN p, NEW d,
         d = Staff!Banking(r, p)
  PROVE  /\ Staff!Fits(d) /\ "left" \notin DOMAIN d
         /\ "account" \in DOMAIN d => d.account \in BOOLEAN
         /\ DOMAIN d \subseteq DOMAIN p \cup {"account"} /\ DOMAIN p \subseteq DOMAIN d
         /\ \A f \in DOMAIN p : f # "account" => d[f] = p[f]
         /\ ~Staff!Overlay(r, p).bank => "account" \in DOMAIN d /\ d.account = FALSE
         /\ Staff!Overlay(r, p).bank => d = p
<1>1. CASE ~Staff!Overlay(r, p).bank
  <2>1. /\ DOMAIN d = DOMAIN p \cup {"account"} /\ d["account"] = FALSE
        /\ \A f \in DOMAIN p : f # "account" => d[f] = p[f]
    BY <1>1 DEF Staff!Banking
  <2> QED
    BY <1>1, <2>1 DEF Staff!Fits, Staff!Fields
<1>2. CASE Staff!Overlay(r, p).bank
  <2>1. d = p
    BY <1>2 DEF Staff!Banking
  <2> QED
    BY <1>2, <2>1 DEF Staff!Fits
<1> QED
  BY <1>1, <1>2

LEMMA Decided ==
  ASSUME Staff!RegistryConstants, NEW r \in Staff!EmployeeRecord, NEW p, Staff!Fits(p), "left" \notin DOMAIN p,
         Staff!NoImports => Staff!Acceptable(r, p) /\ Staff!Names(r, p), NEW d, d = Staff!Banking(r, p)
  PROVE  Changes(r, d)
<1>1. PICK o : o = Staff!Overlay(r, p)
  OBVIOUS
<1>2. PICK v : v = Staff!Overlay(r, d)
  OBVIOUS
<1>3. /\ Staff!Fits(d) /\ \A f \in DOMAIN p : f # "account" => d[f] = p[f]
      /\ DOMAIN d \subseteq DOMAIN p \cup {"account"} /\ DOMAIN p \subseteq DOMAIN d
      /\ ~o.bank => "account" \in DOMAIN d /\ d.account = FALSE
      /\ o.bank => d = p
  BY <1>1, BankingFits, Zenon
<1>4. ASSUME Staff!NoImports  PROVE v.bank = v.account
  <2>1. o \in Staff!EmployeeRecord /\ v \in Staff!EmployeeRecord
    BY <1>1, <1>2, <1>3, OverlayIsRecord
  <2>2. CASE o.bank
    <3>1. v = o /\ o.account
      BY <1>1, <1>2, <1>3, <1>4, <2>2 DEF Staff!Acceptable
    <3> QED
      BY <2>1, <2>2, <3>1 DEF Staff!EmployeeRecord
  <2>3. CASE ~o.bank
    <3>1. v.account = FALSE
      BY <1>2, <1>3, <2>3, Overlaid
    <3>2. v.bank = o.bank
      BY <1>1, <1>2, <1>3, Overlaid
    <3> QED
      BY <2>1, <2>3, <3>1, <3>2 DEF Staff!EmployeeRecord
  <2> QED
    BY <2>2, <2>3
<1>5. ASSUME Staff!NoImports, ~FormResubmits
      PROVE  /\ "unit" \in DOMAIN d => d.unit # r.unit
             /\ "eobi" \in DOMAIN d => d.eobi # r.eobi
             /\ SiteOf[r.unit] = r.site /\ "site" \in DOMAIN d => "unit" \in DOMAIN d
  <2>1. \A f \in DOMAIN p : p[f] # r[f]
    BY <1>5 DEF Staff!Names
  <2>2. \A f \in {"unit", "eobi", "site"} : f \in DOMAIN d => f \in DOMAIN p /\ d[f] = p[f]
    BY <1>3
  <2>3. SUFFICES ASSUME SiteOf[r.unit] = r.site, "site" \in DOMAIN d, "unit" \notin DOMAIN d  PROVE FALSE
    BY <2>1, <2>2
  <2>4. "site" \in DOMAIN p /\ p.site # r.site /\ "unit" \notin DOMAIN p
    BY <1>3, <2>1, <2>2, <2>3
  <2>5. o.site = p.site /\ o.unit = r.unit
    BY <1>1, <2>4, Overlaid
  <2>6. SiteOf[o.unit] = o.site
    BY <1>1, <1>5, <2>4, <2>5 DEF Staff!Acceptable, Staff!IsTransfer
  <2> QED
    BY <2>3, <2>4, <2>5, <2>6
<1> QED
  BY <1>2, <1>3, <1>4, <1>5 DEF Changes

LEMMA DecidedToReturn ==
  ASSUME NEW r \in Staff!EmployeeRecord, NEW d, Changes(r, d), "left" \notin DOMAIN d, NEW b,
         b = Staff!Returning(d)
  PROVE  Changes(r, b) /\ "left" \in DOMAIN b /\ b.left = FALSE
<1>1. /\ DOMAIN b = DOMAIN d \cup {"left"} /\ b.left = FALSE
      /\ \A f \in DOMAIN d : b[f] = d[f]
  BY DEF Staff!Returning
<1>2. Staff!Fits(d)
  BY DEF Changes
<1>3. Staff!Fits(b)
  BY <1>1, <1>2 DEF Staff!Fits
<1>4. /\ Staff!Overlay(r, b).bank = Staff!Overlay(r, d).bank
      /\ Staff!Overlay(r, b).account = Staff!Overlay(r, d).account
  BY <1>1, Overlaid
<1> QED
  BY <1>1, <1>3, <1>4 DEF Changes

(* A request that has just been asked for. *)
NewCall(t, q) ==
    /\ Carries(q) /\ q.pc # "idle" /\ (q.pc = "write" => q.kind \notin Staff!Updating)
    /\ request' = [request EXCEPT ![t] = q] /\ Staff!Unchanged
    /\ request[t].pc = "idle"
    /\ \A u \in Staff!Others(t) : request[u].kind \notin Alone
    /\ Staff!NoImports /\ q.kind \in Alone => \A u \in Staff!Others(t) : request[u].pc = "idle"
    /\ q.kind \in Read \cup {"manual"} => q.seen = employee[q.who]
    /\ q.kind \in Rostering => \A e \in DOMAIN q.roster : q.roster[e] = employee[e]

(* The kinds that read the employee. *)
LEMMA ReadAsked ==
  ASSUME RegistryInv, Staff!RegistryConstants, NEW t \in Callers, NEW e \in Employees, employee[e].present,
         NEW k \in Read, NEW asked \in {k, "import"}, Staff!MayAsk(t, asked), NEW d, Staff!Ask(t, k, e, d),
         Staff!Unchanged,
         k \in {"update", "reactivate"} => Changes(employee[e], d),
         k = "update" => "left" \notin DOMAIN d,
         k = "reactivate" => "left" \in DOMAIN d /\ d.left = FALSE,
         k = "leave" => d = [left |-> TRUE],
         k = "import" => Staff!Fits(d)
  PROVE  \E q : NewCall(t, q)
<1>1. PICK q : q = [Staff!Idle EXCEPT !.kind = k, !.pc = "begin", !.who = e, !.data = d, !.seen = employee[e]]
  OBVIOUS
<1>2. request' = [request EXCEPT ![t] = q]
  BY <1>1 DEF Staff!Ask, Staff!Step
<1>3. /\ IsCall(q) /\ q.kind = k /\ q.pc = "begin" /\ q.who = e /\ q.data = d /\ q.seen = employee[e]
      /\ q.found \in Staff!EntryRecord
  BY <1>1 DEF Staff!Idle, IsCall, Staff!NoEntry, Staff!EntryRecord
<1>4. employee[e] \in Staff!EmployeeRecord /\ Staff!CompositeKey(employee[e])
  BY DEF RegistryInv, Staff!TypeOK, Staff!UnitAtSite, Staff!CompositeKey
<1>5. asked \in Requests /\ k \in Staff!Kinds /\ (Staff!NoImports => asked = k)
  BY DEF Staff!MayAsk, Staff!NoImports, Read, Staff!Kinds
<1>6. Carries(q)
  BY <1>3, <1>4, <1>5 DEF Carries, Read, Staff!Updating, Rostering
<1>7. /\ request[t].pc = "idle" /\ \A u \in Staff!Others(t) : request[u].kind \notin Alone
      /\ Staff!NoImports /\ k \in Alone => \A u \in Staff!Others(t) : request[u].pc = "idle"
  BY <1>5 DEF Staff!MayAsk
<1>8. k \notin Rostering
  BY DEF Read, Rostering
<1> QED
  BY <1>2, <1>3, <1>6, <1>7, <1>8 DEF NewCall

LEMMA CreateAsked ==
  ASSUME RegistryInv, Staff!RegistryConstants, NEW t \in Callers, NEW e \in Employees,
         NEW asked \in {"create", "import"}, Staff!MayAsk(t, asked), Staff!Unchanged,
         NEW d \in Staff!EmployeeRecord, d.present,
         Staff!NoImports => ~d.left /\ d.bank = d.account,
         Staff!Step(t, [Staff!Idle EXCEPT !.kind = "create", !.pc = "begin", !.who = e, !.data = d])
  PROVE  \E q : NewCall(t, q)
<1>1. PICK q : q = [Staff!Idle EXCEPT !.kind = "create", !.pc = "begin", !.who = e, !.data = d]
  OBVIOUS
<1>2. request' = [request EXCEPT ![t] = q]
  BY <1>1 DEF Staff!Step
<1>3. /\ IsCall(q) /\ q.kind = "create" /\ q.pc = "begin" /\ q.who = e /\ q.data = d /\ q.seen = Staff!Unseen
      /\ q.found \in Staff!EntryRecord
  BY <1>1 DEF Staff!Idle, IsCall, Staff!NoEntry, Staff!EntryRecord
<1>4. asked \in Requests /\ (Staff!NoImports => asked = "create")
  BY DEF Staff!MayAsk, Staff!NoImports
<1>5. Carries(q)
  BY <1>3, <1>4, NobodySeen DEF Carries, Read, Staff!Updating, Rostering, Staff!Kinds
<1>6. /\ request[t].pc = "idle" /\ \A u \in Staff!Others(t) : request[u].kind \notin Alone
      /\ Staff!NoImports /\ "create" \in Alone => \A u \in Staff!Others(t) : request[u].pc = "idle"
  BY <1>4 DEF Staff!MayAsk
<1> QED
  BY <1>2, <1>3, <1>5, <1>6 DEF NewCall, Read, Rostering

LEMMA UpdateAsked ==
  ASSUME RegistryInv, Staff!RegistryConstants, NEW t \in Callers, NEW e \in Employees, NEW p \in Patches,
         Staff!RequestUpdate(t, e, p) \/ Staff!RequestReactivate(t, e, p)
  PROVE  \E q : NewCall(t, q)
<1>1. PICK r \in Staff!EmployeeRecord : r = employee[e]
  BY DEF RegistryInv, Staff!TypeOK
<1>2. PICK d : d = Staff!Banking(r, p)
  OBVIOUS
<1>3. Staff!Fits(p) /\ "left" \notin DOMAIN p
  BY DEF Staff!RegistryConstants
<1>4. Staff!Acceptable(r, p) /\ Staff!Names(r, p) /\ employee[e].present /\ Staff!Unchanged
  BY <1>1 DEF Staff!RequestUpdate, Staff!RequestReactivate
<1>5. Changes(r, d) /\ "left" \notin DOMAIN d
  BY <1>2, <1>3, <1>4, Decided, BankingFits
<1>6. CASE Staff!RequestUpdate(t, e, p)
  <2>1. Staff!MayAsk(t, "update") /\ Staff!Ask(t, "update", e, d)
    BY <1>1, <1>2, <1>6 DEF Staff!RequestUpdate
  <2> QED
    BY <1>1, <1>4, <1>5, <2>1, ReadAsked DEF Read
<1>7. CASE Staff!RequestReactivate(t, e, p)
  <2>1. PICK b : b = Staff!Returning(d)
    OBVIOUS
  <2>2. Staff!MayAsk(t, "reactivate") /\ Staff!Ask(t, "reactivate", e, b)
    BY <1>1, <1>2, <1>7, <2>1 DEF Staff!RequestReactivate
  <2>3. Changes(r, b) /\ "left" \in DOMAIN b /\ b.left = FALSE
    BY <1>5, <2>1, DecidedToReturn
  <2> QED
    BY <1>1, <1>4, <2>2, <2>3, ReadAsked DEF Read
<1> QED
  BY <1>6, <1>7

(* A row of an import creates, reactivates or rewrites. *)
LEMMA ImportAsked ==
  ASSUME RegistryInv, Staff!RegistryConstants, NEW t \in Callers, NEW e \in Employees, NEW r \in Profiles,
         NEW gone \in BOOLEAN,
         Staff!RequestImport(t, e, r, gone)
  PROVE  \E q : NewCall(t, q)
<1>1. PICK s \in Staff!EmployeeRecord : s = employee[e]
  BY DEF RegistryInv, Staff!TypeOK
<1>2. r \in Staff!ProfileRecord
  BY DEF Staff!RegistryConstants
<1>3. PICK w : w = [f \in Staff!Fields \cup {"left"} |-> IF f = "left" THEN gone ELSE r[f]]
  OBVIOUS
<1>4. Staff!Fits(w) /\ Staff!Fits(r) /\ "left" \notin DOMAIN r
  BY <1>2, <1>3 DEF Staff!Fits, Staff!Fields, Staff!ProfileRecord
<1>5. ~Staff!NoImports /\ Staff!MayAsk(t, "import") /\ Staff!Unchanged
  BY DEF Staff!RequestImport, Staff!MayAsk, Staff!NoImports
<1>6. CASE ~employee[e].present
  <2>1. PICK o : o = Staff!Overlay(Staff!Profile(r), w)
    OBVIOUS
  <2>2. o \in Staff!EmployeeRecord
    BY <1>4, <2>1, Profiled, OverlayIsRecord
  <2>3. PICK d : d = [o EXCEPT !.present = TRUE]
    OBVIOUS
  <2>4. d \in Staff!EmployeeRecord /\ d.present
    BY <2>2, <2>3 DEF Staff!EmployeeRecord
  <2>5. Staff!Step(t, [Staff!Idle EXCEPT !.kind = "create", !.pc = "begin", !.who = e, !.data = d])
    BY <1>3, <1>6, <2>1, <2>3 DEF Staff!RequestImport
  <2> QED
    BY <1>5, <2>4, <2>5, CreateAsked, Zenon
<1>7. CASE employee[e].present /\ employee[e].left /\ ~gone
  <2>1. PICK d : d = Staff!Banking(s, r)
    OBVIOUS
  <2>2. Changes(s, d) /\ "left" \notin DOMAIN d
    BY <1>4, <1>5, <2>1, Decided, BankingFits
  <2>3. PICK b : b = Staff!Returning(d)
    OBVIOUS
  <2>4. Changes(s, b) /\ "left" \in DOMAIN b /\ b.left = FALSE
    BY <2>2, <2>3, DecidedToReturn
  <2>5. Staff!Ask(t, "reactivate", e, b)
    BY <1>1, <1>7, <2>1, <2>3 DEF Staff!RequestImport
  <2> QED
    BY <1>1, <1>5, <1>7, <2>4, <2>5, ReadAsked DEF Read
<1>8. CASE employee[e].present /\ (gone \/ ~employee[e].left)
  <2>1. Staff!Ask(t, "import", e, w)
    BY <1>3, <1>8 DEF Staff!RequestImport
  <2> QED
    BY <1>4, <1>5, <1>8, <2>1, ReadAsked DEF Read
<1> QED
  BY <1>6, <1>7, <1>8

LEMMA RosterAsked ==
  ASSUME RegistryInv, Staff!RegistryConstants, NEW t \in Callers, NEW k \in Rostering, Staff!MayAsk(t, k),
         Staff!Unchanged,
         NEW S \in SUBSET Employees, NEW w, w = [e \in S |-> employee[e]],
         NEW q, IsCall(q), q.kind = k, q.pc = "write", q.seen = Staff!Unseen, q.roster = w,
         q.found \in Staff!EntryRecord,
         k = "rollover" => q.inCycle \in Nat /\ q.inCycle < MaxCycle,
         k = "reconcile" => \A e \in S : employee[e].present /\ ~employee[e].left,
         request' = [request EXCEPT ![t] = q]
  PROVE  \E x : NewCall(t, x)
<1>1. /\ k \in Requests /\ k \in Staff!Kinds /\ k # "none" /\ k \notin Staff!Updating /\ k \notin Read
      /\ k # "manual" /\ k \notin {"update", "reactivate"}
  BY DEF Staff!MayAsk, Rostering, Staff!Kinds, Staff!Updating, Read
<1>2. /\ DOMAIN w \subseteq Employees /\ \A e \in DOMAIN w : w[e] = employee[e] /\ w[e] \in Staff!EmployeeRecord
      /\ k = "reconcile" => \A e \in DOMAIN w : w[e].present /\ ~w[e].left
  BY DEF RegistryInv, Staff!TypeOK
<1>3. Carries(q)
  BY <1>1, <1>2, NobodySeen DEF Carries, Staff!Updating, Read
<1>4. /\ request[t].pc = "idle" /\ \A u \in Staff!Others(t) : request[u].kind \notin Alone
      /\ Staff!NoImports /\ k \in Alone => \A u \in Staff!Others(t) : request[u].pc = "idle"
  BY DEF Staff!MayAsk
<1>5. NewCall(t, q)
  BY <1>1, <1>2, <1>3, <1>4 DEF NewCall
<1> QED
  BY <1>5

LEMMA Asked ==
  ASSUME RegistryInv, Staff!RegistryConstants, NEW t \in Callers, Staff!Request(t)
  PROVE  \E q : NewCall(t, q)
<1>1. ASSUME NEW e \in Employees, NEW r \in Profiles, Staff!RequestCreate(t, e, r)  PROVE \E q : NewCall(t, q)
  <2>1. PICK d : d = Staff!Profile(r)
    OBVIOUS
  <2>2. d \in Staff!EmployeeRecord /\ d.present /\ ~d.left /\ d.bank = d.account
    BY <2>1, Profiled
  <2> QED
    BY <1>1, <2>1, <2>2, CreateAsked DEF Staff!RequestCreate
<1>2. ASSUME NEW e \in Employees, Staff!RequestLeave(t, e)  PROVE \E q : NewCall(t, q)
  BY <1>2, ReadAsked DEF Staff!RequestLeave, Read
<1>3. ASSUME NEW e \in Employees, Staff!RequestManual(t, e)  PROVE \E q : NewCall(t, q)
  <2>1. PICK q : q = [Staff!Idle EXCEPT !.kind = "manual", !.pc = "write", !.who = e, !.seen = employee[e],
                                        !.inCycle = current]
    OBVIOUS
  <2>2. request' = [request EXCEPT ![t] = q] /\ Staff!MayAsk(t, "manual") /\ employee[e].present /\ Staff!Unchanged
    BY <1>3, <2>1 DEF Staff!RequestManual, Staff!Step
  <2>3. /\ IsCall(q) /\ q.kind = "manual" /\ q.pc = "write" /\ q.who = e /\ q.seen = employee[e]
        /\ q.found \in Staff!EntryRecord
    BY <2>1 DEF Staff!Idle, IsCall, Staff!NoEntry, Staff!EntryRecord
  <2>4. employee[e] \in Staff!EmployeeRecord /\ Staff!CompositeKey(employee[e])
    BY <2>2 DEF RegistryInv, Staff!TypeOK, Staff!UnitAtSite, Staff!CompositeKey
  <2>5. "manual" \in Requests
    BY <2>2 DEF Staff!MayAsk
  <2>6. Carries(q)
    BY <2>2, <2>3, <2>4, <2>5 DEF Carries, Read, Staff!Updating, Rostering, Staff!Kinds
  <2>7. /\ request[t].pc = "idle" /\ \A u \in Staff!Others(t) : request[u].kind \notin Alone
        /\ Staff!NoImports /\ "manual" \in Alone => \A u \in Staff!Others(t) : request[u].pc = "idle"
    BY <2>2 DEF Staff!MayAsk
  <2> QED
    BY <2>2, <2>3, <2>6, <2>7 DEF NewCall, Read, Rostering, Staff!Updating
<1>4. CASE Staff!RequestReconcile(t)
  <2>1. PICK w : w = [e \in Staff!Missing |-> employee[e]]
    OBVIOUS
  <2>2. PICK q : q = [Staff!Idle EXCEPT !.kind = "reconcile", !.pc = "write", !.roster = w]
    OBVIOUS
  <2>3. /\ IsCall(q) /\ q.kind = "reconcile" /\ q.pc = "write" /\ q.seen = Staff!Unseen /\ q.roster = w
        /\ q.found \in Staff!EntryRecord
    BY <2>2 DEF Staff!Idle, IsCall, Staff!NoEntry, Staff!EntryRecord
  <2>4. Staff!MayAsk(t, "reconcile") /\ Staff!Unchanged /\ request' = [request EXCEPT ![t] = q]
    BY <1>4, <2>1, <2>2 DEF Staff!RequestReconcile, Staff!Step
  <2>5. Staff!Missing \in SUBSET Employees /\ \A e \in Staff!Missing : employee[e].present /\ ~employee[e].left
    BY DEF Staff!Missing, Staff!Active
  <2> QED
    BY <2>1, <2>3, <2>4, <2>5, RosterAsked DEF Rostering
<1>5. CASE Staff!RequestRollover(t)
  <2>1. PICK S \in SUBSET Employees : S = Staff!Active \cup Staff!Departed
    BY DEF Staff!Active, Staff!Departed, Staff!RegistryConstants
  <2>2. PICK w : w = [e \in S |-> employee[e]]
    OBVIOUS
  <2>3. PICK q : q = [Staff!Idle EXCEPT !.kind = "rollover", !.pc = "write", !.inCycle = current, !.roster = w]
    OBVIOUS
  <2>4. /\ IsCall(q) /\ q.kind = "rollover" /\ q.pc = "write" /\ q.seen = Staff!Unseen /\ q.roster = w
        /\ q.found \in Staff!EntryRecord /\ q.inCycle = current
    BY <2>3 DEF Staff!Idle, IsCall, Staff!NoEntry, Staff!EntryRecord
  <2>5. Staff!MayAsk(t, "rollover") /\ Staff!Unchanged /\ request' = [request EXCEPT ![t] = q] /\ current < MaxCycle
    BY <1>5, <2>1, <2>2, <2>3 DEF Staff!RequestRollover, Staff!Step
  <2>6. current \in Nat
    BY DEF RegistryInv, Staff!TypeOK
  <2> QED
    BY <2>2, <2>4, <2>5, <2>6, RosterAsked DEF Rostering
<1> QED
  BY <1>1, <1>2, <1>3, <1>4, <1>5, UpdateAsked, ImportAsked DEF Staff!Request

-----------------------------------------------------------------------------
(* Every step keeps the invariant. *)

LEMMA OneRequest ==
  ASSUME RegistryInv, NEW t \in Callers, NEW q, request' = [request EXCEPT ![t] = q]
  PROVE  /\ request' = [u \in Callers |-> request'[u]]
         /\ request'[t] = q /\ \A u \in Staff!Others(t) : request'[u] = request[u]
  BY DEF RegistryInv, Staff!Others

(* While a request runs, none of a kind that overlaps with nothing does. *)
LEMMA OthersOverlap ==
  ASSUME RegistryInv, Staff!NoImports, NEW t \in Callers, request[t].pc # "idle"
  PROVE  \A u \in Staff!Others(t) : request[u].kind \notin Alone
  BY DEF RegistryInv, StillSo, Staff!Others

LEMMA NewKept ==
  ASSUME RegistryInv, Staff!RegistryConstants, NEW t \in Callers, NEW q, NewCall(t, q)
  PROVE  RegistryInv'
<1>1. /\ request' = [u \in Callers |-> request'[u]] /\ request'[t] = q
      /\ \A u \in Staff!Others(t) : request'[u] = request[u]
      /\ UNCHANGED <<employee, placed, entry, current, draft>>
  BY OneRequest DEF NewCall, Staff!Unchanged
<1>2. \A u \in Callers : Carries(request'[u])
  BY <1>1 DEF NewCall, RegistryInv, Staff!Others
<1>3. Staff!TypeOK'
  BY <1>1, <1>2 DEF RegistryInv, Staff!TypeOK, Carries
<1>4. \A u \in Callers : HoldsRow(u)'
  BY <1>1 DEF NewCall, RegistryInv, HoldsRow, Staff!After, Staff!Others
<1>5. OneHolder'
  BY <1>1 DEF NewCall, RegistryInv, OneHolder, Staff!Holds, Staff!Others
<1>6. ASSUME Staff!NoImports, NEW u \in Callers  PROVE StillSo(u)'
  <2>1. CASE u = t
    BY <1>1, <1>6, <2>1 DEF NewCall, StillSo, Staff!Others
  <2>2. CASE u # t
    <3>1. request'[u] = request[u] /\ request'[u].kind \notin Alone
      BY <1>1, <2>2 DEF NewCall, Staff!Others
    <3> QED
      BY <3>1 DEF StillSo
  <2> QED
    BY <2>1, <2>2
<1>7. Staff!UnitAtSite'
  BY <1>1 DEF RegistryInv, Staff!UnitAtSite
<1> QED
  BY <1>1, <1>2, <1>3, <1>4, <1>5, <1>6, <1>7 DEF RegistryInv

LEMMA BeginKept ==
  ASSUME RegistryInv, Staff!RegistryConstants, NEW t \in Callers, Staff!Begin(t)
  PROVE  RegistryInv'
<1>1. PICK c : c = request[t] /\ Carries(c)
  BY DEF RegistryInv
<1>2. PICK n : n = IF draft THEN current ELSE 0
  OBVIOUS
<1>3. PICK f : f = entry[c.who]
  OBVIOUS
<1>4. PICK q : q = [c EXCEPT !.pc = "write", !.found = f, !.inCycle = n]
  OBVIOUS
<1>5. /\ c.pc = "begin" /\ ~Staff!RowLocked(c.who) /\ (c.kind = "create") = ~employee[c.who].present
      /\ Staff!CompositeKey(Staff!After(t)) /\ request' = [request EXCEPT ![t] = q]
      /\ UNCHANGED <<employee, placed, entry, current, draft>>
  BY <1>1, <1>2, <1>3, <1>4 DEF Staff!Begin, Staff!Step, Staff!Unchanged
<1>6. c.kind \in Staff!Updating /\ c.who \in Employees /\ f \in Staff!EntryRecord
  BY <1>1, <1>3, <1>5 DEF Carries, RegistryInv, Staff!TypeOK
<1>7. /\ IsCall(q) /\ q.kind = c.kind /\ q.pc = "write" /\ q.who = c.who /\ q.data = c.data /\ q.seen = c.seen
      /\ q.found = f /\ q.inCycle = n /\ q.roster = c.roster
  BY <1>1, <1>4 DEF Carries, IsCall
<1>8. Carries(q)
  BY <1>1, <1>5, <1>6, <1>7 DEF Carries, Staff!Updating
<1>9. /\ request' = [u \in Callers |-> request'[u]] /\ request'[t] = q
      /\ \A u \in Staff!Others(t) : request'[u] = request[u]
  BY <1>5, OneRequest
<1>10. \A u \in Callers : Carries(request'[u])
  BY <1>8, <1>9 DEF RegistryInv, Staff!Others
<1>11. Staff!TypeOK'
  BY <1>5, <1>9, <1>10 DEF RegistryInv, Staff!TypeOK, Carries
<1>12. \A u \in Callers : HoldsRow(u)'
  <2>1. HoldsRow(t)'
    BY <1>1, <1>5, <1>7, <1>9 DEF HoldsRow, Staff!After
  <2>2. ASSUME NEW u \in Staff!Others(t)  PROVE HoldsRow(u)'
    BY <1>5, <1>9 DEF HoldsRow, Staff!After, RegistryInv, Staff!Others
  <2> QED
    BY <2>1, <2>2 DEF Staff!Others
<1>13. OneHolder'
  BY <1>5, <1>7, <1>9 DEF RegistryInv, OneHolder, Staff!Holds, Staff!RowLocked, Staff!Others
<1>14. ASSUME Staff!NoImports, NEW u \in Callers  PROVE StillSo(u)'
  <2>1. CASE u = t
    BY <1>1, <1>2, <1>3, <1>5, <1>6, <1>7, <1>9, <1>14, <2>1 DEF RegistryInv, StillSo, Staff!Others,
       Staff!Updating, Rostering
  <2>2. CASE u # t
    <3>1. request'[u] = request[u] /\ request'[u].kind \notin Alone
      BY <1>1, <1>5, <1>9, <1>14, <2>2, OthersOverlap DEF Staff!Others
    <3> QED
      BY <3>1 DEF StillSo
  <2> QED
    BY <2>1, <2>2
<1>15. Staff!UnitAtSite'
  BY <1>5 DEF RegistryInv, Staff!UnitAtSite
<1> QED
  BY <1>9, <1>10, <1>11, <1>12, <1>13, <1>14, <1>15 DEF RegistryInv

(* Requests end, or stay as they are, while no employee is written. *)
LEMMA RowsKept ==
  ASSUME RegistryInv, Staff!RegistryConstants, UNCHANGED <<employee, placed>>,
         entry' \in [Employees -> Staff!EntryRecord], current' \in 1 .. MaxCycle, draft' \in BOOLEAN,
         request' = [u \in Callers |-> request'[u]],
         \A u \in Callers : request'[u] = request[u] \/ request'[u] = Staff!Idle,
         Staff!NoImports => \A u \in Callers : request'[u].kind \notin Alone
  PROVE  RegistryInv'
<1>1. \A u \in Callers : Carries(request'[u])
  BY NobodySeen DEF RegistryInv
<1>2. Staff!TypeOK'
  BY <1>1 DEF RegistryInv, Staff!TypeOK, Carries
<1>3. \A u \in Callers : HoldsRow(u)'
  BY NobodySeen DEF RegistryInv, HoldsRow, Staff!After
<1>4. OneHolder'
  BY NobodySeen DEF RegistryInv, OneHolder, Staff!Holds
<1>5. ASSUME Staff!NoImports, NEW u \in Callers  PROVE StillSo(u)'
  BY <1>5 DEF StillSo
<1>6. Staff!UnitAtSite'
  BY DEF RegistryInv, Staff!UnitAtSite
<1> QED
  BY <1>1, <1>2, <1>3, <1>4, <1>5, <1>6 DEF RegistryInv

(* The row a transaction will leave. *)
LEMMA RowLeft ==
  ASSUME RegistryInv, Staff!RegistryConstants, NEW t \in Callers, request[t].pc = "write",
         request[t].kind \in Staff!Updating
  PROVE  /\ request[t].who \in Employees
         /\ Staff!After(t) \in Staff!EmployeeRecord /\ SiteOf[Staff!After(t).unit] = Staff!After(t).site
         /\ request[t].kind # "create" =>
              Staff!Fits(request[t].data) /\ Staff!After(t) = Staff!Overlay(employee[request[t].who], request[t].data)
         /\ Staff!After(t).present
<1>1. PICK c : c = request[t] /\ Carries(c)
  BY DEF RegistryInv
<1>2. PICK r : r = Staff!After(t)
  OBVIOUS
<1>3. c.who \in Employees
  BY <1>1 DEF Carries
<1>4. SiteOf[r.unit] = r.site /\ (c.kind = "create") = ~employee[c.who].present
  BY <1>1, <1>2 DEF RegistryInv, HoldsRow, Staff!CompositeKey
<1>5. employee[c.who] \in Staff!EmployeeRecord
  BY <1>3 DEF RegistryInv, Staff!TypeOK
<1>6. CASE c.kind = "create"
  BY <1>1, <1>2, <1>3, <1>4, <1>6 DEF Carries, Staff!After
<1>7. CASE c.kind # "create"
  <2>1. Staff!Fits(c.data)
    <3>1. CASE c.kind = "leave"
      <4>1. DOMAIN c.data = {"left"} /\ c.data["left"] = TRUE
        BY <1>1, <3>1 DEF Carries
      <4> QED
        BY <4>1 DEF Staff!Fits
    <3> QED
      BY <1>1, <1>7, <3>1 DEF Carries, Changes, Staff!Updating
  <2>2. r = Staff!Overlay(employee[c.who], c.data)
    BY <1>1, <1>2, <1>7 DEF Staff!After
  <2> QED
    BY <1>1, <1>2, <1>3, <1>4, <1>5, <1>7, <2>1, <2>2, OverlayIsRecord
<1> QED
  BY <1>6, <1>7

(* A transaction that ends leaves the employee's row as it decided. *)
LEMMA RowCommitted ==
  ASSUME RegistryInv, Staff!RegistryConstants, NEW t \in Callers, request[t].pc = "write",
         request[t].kind \in Staff!Updating,
         Staff!SaveEmployee(t), entry' \in [Employees -> Staff!EntryRecord], UNCHANGED <<current, draft>>,
         Staff!Step(t, Staff!Idle)
  PROVE  RegistryInv'
<1>1. PICK c : c = request[t] /\ Carries(c)
  BY DEF RegistryInv
<1>2. PICK r : r = Staff!After(t)
  OBVIOUS
<1>3. c.who \in Employees
  BY <1>1 DEF Carries
<1>4. r \in Staff!EmployeeRecord /\ SiteOf[r.unit] = r.site
  BY <1>2, RowLeft
<1>5. employee' = [employee EXCEPT ![c.who] = r]
  BY <1>1, <1>2 DEF Staff!SaveEmployee
<1>6. employee' \in [Employees -> Staff!EmployeeRecord]
  BY <1>4, <1>5 DEF RegistryInv, Staff!TypeOK
<1>7. /\ employee'[c.who] = r
      /\ \A e \in Employees \ {c.who} : employee'[e] = employee[e]
  BY <1>3, <1>5 DEF RegistryInv, Staff!TypeOK
<1>8. placed' \in [Employees -> Units]
  <2>1. PICK u : u = Staff!Overlay(c.seen, c.data).unit
    OBVIOUS
  <2>2. u \in Units
    <3>1. c.seen \in Staff!EmployeeRecord /\ c.seen.unit \in Units
      BY <1>1 DEF Carries, Staff!EmployeeRecord
    <3>2. u = IF "unit" \in DOMAIN c.data THEN c.data.unit ELSE c.seen.unit
      BY <2>1, <3>1, Overlaid
    <3>3. "unit" \in DOMAIN c.data => c.data.unit \in Units
      <4>1. CASE c.kind = "create"
        BY <1>1, <4>1 DEF Carries, Staff!EmployeeRecord
      <4>2. CASE c.kind = "leave"
        BY <1>1, <4>2 DEF Carries
      <4> QED
        BY <1>1, <4>1, <4>2 DEF Carries, Changes, Staff!Updating, Staff!Fits
    <3> QED
      BY <3>1, <3>2, <3>3
  <2>3. placed' = [placed EXCEPT ![c.who] = u] \/ placed' = [placed EXCEPT ![c.who] = @]
    BY <1>1, <2>1 DEF Staff!SaveEmployee
  <2> QED
    BY <2>2, <2>3 DEF RegistryInv, Staff!TypeOK
<1>9. /\ request' = [u \in Callers |-> request'[u]] /\ request'[t] = Staff!Idle
      /\ \A u \in Staff!Others(t) : request'[u] = request[u]
  BY OneRequest DEF Staff!Step
<1>10. \A u \in Callers : Carries(request'[u])
  BY <1>9, NobodySeen DEF RegistryInv, Staff!Others
<1>11. Staff!TypeOK'
  BY <1>6, <1>8, <1>10 DEF RegistryInv, Staff!TypeOK, Carries
<1>12. ASSUME NEW u \in Callers  PROVE HoldsRow(u)'
  <2>1. CASE u = t
    BY <1>9, <2>1, NobodySeen DEF HoldsRow
  <2>2. CASE u # t /\ request[u].pc = "write" /\ request[u].kind \in Staff!Updating
    <3>1. request[u].who \in Employees \ {c.who}
      <4>1. request[u].who \in Employees
        BY <2>2 DEF RegistryInv, Carries
      <4> QED
        BY <1>1, <2>2, <4>1 DEF RegistryInv, OneHolder, Staff!Holds
    <3> QED
      BY <1>7, <1>9, <2>2, <3>1 DEF RegistryInv, HoldsRow, Staff!After, Staff!Others
  <2>3. CASE u # t /\ ~(request[u].pc = "write" /\ request[u].kind \in Staff!Updating)
    BY <1>9, <2>3 DEF HoldsRow, Staff!Others
  <2> QED
    BY <2>1, <2>2, <2>3
<1>13. OneHolder'
  BY <1>9, NobodySeen DEF RegistryInv, OneHolder, Staff!Holds, Staff!Others
<1>14. ASSUME Staff!NoImports, NEW u \in Callers  PROVE StillSo(u)'
  <2>1. request'[u].kind \notin Alone
    BY <1>9, <1>14, NobodySeen, OthersOverlap DEF Staff!RegistryConstants, Staff!Kinds, Staff!Others
  <2> QED
    BY <2>1 DEF StillSo
<1>15. Staff!UnitAtSite'
  BY <1>4, <1>7 DEF RegistryInv, Staff!UnitAtSite
<1> QED
  BY <1>9, <1>10, <1>11, <1>12, <1>13, <1>14, <1>15 DEF RegistryInv

(* What the transactions write. *)
LEMMA CommitKept ==
  ASSUME RegistryInv, Staff!RegistryConstants, NEW t \in Callers,
         Staff!CommitCreate(t) \/ Staff!CommitUpdate(t) \/ Staff!CommitImport(t) \/ Staff!CommitLeave(t)
  PROVE  RegistryInv'
<1>1. PICK c : c = request[t] /\ Carries(c)
  BY DEF RegistryInv
<1>2. /\ c.pc = "write" /\ c.kind \in Staff!Updating
      /\ Staff!SaveEmployee(t) /\ UNCHANGED <<current, draft>> /\ Staff!Step(t, Staff!Idle)
  BY <1>1 DEF Staff!CommitCreate, Staff!CommitUpdate, Staff!CommitImport, Staff!CommitLeave, Staff!Updating
<1>3. PICK e \in Employees : e = c.who
  BY <1>1, <1>2, RowLeft
<1>4. entry[e] \in Staff!EntryRecord
  BY <1>3 DEF RegistryInv, Staff!TypeOK
<1>5. entry' = entry \/ \E r \in Staff!EntryRecord : entry' = [entry EXCEPT ![e] = r]
  <2>1. CASE Staff!CommitCreate(t)
    <3>1. PICK b \in BOOLEAN : b = Staff!After(t).eobi
      BY <1>1, <1>2, RowLeft DEF Staff!EmployeeRecord
    <3>2. Staff!OpenEntry(b) \in Staff!EntryRecord
      BY DEF Staff!OpenEntry, Staff!EntryRecord
    <3> QED
      BY <1>1, <1>3, <2>1, <3>1, <3>2 DEF Staff!CommitCreate, Staff!Seed
  <2>2. CASE Staff!CommitUpdate(t)
    <3>1. CASE Staff!Syncs(t)
      <4>1. PICK b \in BOOLEAN : b = c.data.eobi
        BY <1>1, <1>2, <2>2, <3>1, RowLeft DEF Staff!Syncs, Staff!Fits, Staff!CommitUpdate
      <4>2. PICK row : row = [entry[e] EXCEPT !.eobi = b]
        OBVIOUS
      <4>3. row \in Staff!EntryRecord
        BY <1>4, <4>2 DEF Staff!EntryRecord
      <4>4. entry' = [entry EXCEPT ![e] = row]
        BY <1>1, <1>3, <2>2, <3>1, <4>1, <4>2 DEF Staff!CommitUpdate
      <4> QED
        BY <4>3, <4>4
    <3> QED
      BY <2>2, <3>1 DEF Staff!CommitUpdate
  <2>3. CASE Staff!CommitImport(t)
    BY <2>3 DEF Staff!CommitImport
  <2>4. CASE Staff!CommitLeave(t)
    <3>1. Staff!NoEntry \in Staff!EntryRecord /\ Staff!Removed(entry[e]) = Staff!NoEntry
      BY DEF Staff!NoEntry, Staff!EntryRecord, Staff!Removed
    <3>2. Staff!HeldIfObliged(t, entry[e]) \in Staff!EntryRecord
      <4>1. PICK row : row = [entry[e] EXCEPT !.hold = TRUE]
        OBVIOUS
      <4>2. row \in Staff!EntryRecord
        BY <1>4, <4>1 DEF Staff!EntryRecord
      <4> QED
        BY <1>4, <4>1, <4>2 DEF Staff!HeldIfObliged
    <3> QED
      BY <1>1, <1>3, <2>4, <3>1, <3>2 DEF Staff!CommitLeave
  <2> QED
    BY <2>1, <2>2, <2>3, <2>4
<1>6. entry' \in [Employees -> Staff!EntryRecord]
  BY <1>5 DEF RegistryInv, Staff!TypeOK
<1> QED
  BY <1>1, <1>2, <1>6, RowCommitted

LEMMA CycleKept ==
  ASSUME RegistryInv, Staff!RegistryConstants, NEW t \in Callers,
         Staff!CommitManual(t) \/ Staff!CommitReconcile(t) \/ Staff!CommitRollover(t) \/ Staff!Abort(t)
  PROVE  RegistryInv'
<1>1. PICK c : c = request[t] /\ Carries(c)
  BY DEF RegistryInv
<1>2. request' = [request EXCEPT ![t] = Staff!Idle] /\ UNCHANGED <<employee, placed>> /\ c.pc # "idle"
  BY <1>1 DEF Staff!CommitManual, Staff!CommitReconcile, Staff!CommitRollover, Staff!Abort, Staff!Step,
     Staff!Unchanged
<1>3. /\ request' = [u \in Callers |-> request'[u]]
      /\ \A u \in Callers : request'[u] = request[u] \/ request'[u] = Staff!Idle
  BY <1>2, OneRequest DEF Staff!Others
<1>4. Staff!NoImports => \A u \in Callers : request'[u].kind \notin Alone
  <2>1. Staff!Idle.kind \notin Alone
    BY NobodySeen DEF Staff!RegistryConstants, Staff!Kinds
  <2> QED
    BY <1>1, <1>2, <2>1, OneRequest, OthersOverlap DEF Staff!Others
<1>5. entry' \in [Employees -> Staff!EntryRecord] /\ current' \in 1 .. MaxCycle /\ draft' \in BOOLEAN
  <2>1. /\ \A b \in BOOLEAN : Staff!OpenEntry(b) \in Staff!EntryRecord
        /\ Staff!HeldEntry \in Staff!EntryRecord /\ Staff!NoEntry \in Staff!EntryRecord
    BY DEF Staff!OpenEntry, Staff!HeldEntry, Staff!NoEntry, Staff!EntryRecord
  <2>2. \A e \in Employees : entry[e] \in Staff!EntryRecord /\ entry[e].eobi \in BOOLEAN
    BY DEF RegistryInv, Staff!TypeOK, Staff!EntryRecord
  <2>3. CASE Staff!CommitManual(t)
    <3>1. PICK b \in BOOLEAN : b = c.seen.eobi
      BY <1>1 DEF Carries, Staff!EmployeeRecord
    <3>2. c.who \in Employees
      BY <1>1, <2>3 DEF Staff!CommitManual, Carries
    <3> QED
      BY <1>1, <2>1, <2>3, <3>1, <3>2 DEF Staff!CommitManual, RegistryInv, Staff!TypeOK
  <2>4. CASE Staff!CommitReconcile(t)
    <3>1. \A e \in DOMAIN c.roster : c.roster[e].eobi \in BOOLEAN
      BY <1>1, <2>4 DEF Staff!CommitReconcile, Carries, Rostering, Staff!EmployeeRecord
    <3> QED
      BY <1>1, <2>1, <2>2, <2>4, <3>1 DEF Staff!CommitReconcile, RegistryInv, Staff!TypeOK
  <2>5. CASE Staff!CommitRollover(t)
    <3>1. \A e \in DOMAIN c.roster : c.roster[e].eobi \in BOOLEAN
      BY <1>1, <2>5 DEF Staff!CommitRollover, Carries, Rostering, Staff!EmployeeRecord
    <3>2. \A e \in Employees : e \in DOMAIN c.roster => Staff!Carried(e, c.roster[e]) \in Staff!EntryRecord
      BY <2>1, <2>2, <3>1 DEF Staff!Carried
    <3>3. current' \in 1 .. MaxCycle
      BY <1>1, <2>5 DEF Staff!CommitRollover, Carries, Staff!Current, RegistryInv, Staff!TypeOK,
         Staff!RegistryConstants
    <3> QED
      BY <1>1, <2>1, <2>5, <3>2, <3>3 DEF Staff!CommitRollover
  <2>6. CASE Staff!Abort(t)
    BY <2>6 DEF Staff!Abort, Staff!Unchanged, RegistryInv, Staff!TypeOK
  <2> QED
    BY <2>3, <2>4, <2>5, <2>6
<1> QED
  BY <1>2, <1>3, <1>4, <1>5, RowsKept

(* An edit of an entry, or the end of the draft. *)
LEMMA EntryKept ==
  ASSUME RegistryInv, Staff!RegistryConstants, Staff!Calm, NEW e \in Employees,
         Staff!Oblige(e) \/ Staff!SwitchHold(e) \/ Staff!Delete(e) \/ Staff!Release(e)
  PROVE  RegistryInv'
<1>1. PICK r \in Staff!EntryRecord : r = entry[e]
  BY DEF RegistryInv, Staff!TypeOK
<1>2. PICK b \in BOOLEAN : b = ~r.hold
  OBVIOUS
<1>3. PICK x, y, z : x = [r EXCEPT !.obliged = TRUE] /\ y = [r EXCEPT !.hold = b] /\ z = [r EXCEPT !.state = "resolved"]
  OBVIOUS
<1>4. /\ x \in Staff!EntryRecord /\ y \in Staff!EntryRecord /\ z \in Staff!EntryRecord
      /\ Staff!NoEntry \in Staff!EntryRecord
  BY <1>3 DEF Staff!EntryRecord, Staff!NoEntry
<1>5. /\ \E q \in {x, y, z, Staff!NoEntry} : entry' = [entry EXCEPT ![e] = q]
      /\ UNCHANGED <<employee, placed, current, draft, request>>
  BY <1>1, <1>2, <1>3 DEF Staff!Oblige, Staff!SwitchHold, Staff!Delete, Staff!Release, Staff!Removed,
     RegistryInv, Staff!TypeOK
<1>6. entry' \in [Employees -> Staff!EntryRecord]
  BY <1>4, <1>5 DEF RegistryInv, Staff!TypeOK
<1> QED
  BY <1>5, <1>6, RowsKept DEF RegistryInv, Staff!TypeOK, Staff!Calm

LEMMA FinalizeKept ==
  ASSUME RegistryInv, Staff!RegistryConstants, Staff!Calm, Staff!Finalize
  PROVE  RegistryInv'
  BY RowsKept DEF RegistryInv, Staff!TypeOK, Staff!Calm, Staff!Finalize

(* EOBI is the only field of an employee that an entry's edit writes. *)
LEMMA EobiKept ==
  ASSUME RegistryInv, Staff!RegistryConstants, Staff!Calm, NEW e \in Employees, Staff!EditEobi(e)
  PROVE  RegistryInv'
<1>1. PICK b \in BOOLEAN : b = ~entry[e].eobi
  OBVIOUS
<1>2. PICK r \in Staff!EmployeeRecord : r = employee[e]
  BY DEF RegistryInv, Staff!TypeOK
<1>3. PICK w : w = [r EXCEPT !.eobi = b]
  OBVIOUS
<1>4. w \in Staff!EmployeeRecord /\ w.unit = r.unit /\ w.site = r.site /\ w.present = r.present
  BY <1>3 DEF Staff!EmployeeRecord
<1>5. PICK x \in Staff!EntryRecord : x = entry[e]
  BY DEF RegistryInv, Staff!TypeOK
<1>6. PICK y : y = [x EXCEPT !.eobi = b]
  OBVIOUS
<1>7. y \in Staff!EntryRecord
  BY <1>6 DEF Staff!EntryRecord
<1>8. /\ employee' = [employee EXCEPT ![e] = w] /\ entry' = [entry EXCEPT ![e] = y]
      /\ UNCHANGED <<placed, current, draft, request>>
  BY <1>1, <1>2, <1>3, <1>5, <1>6 DEF Staff!EditEobi
<1>9. /\ employee' \in [Employees -> Staff!EmployeeRecord] /\ entry' \in [Employees -> Staff!EntryRecord]
      /\ employee'[e] = w /\ \A z \in Employees \ {e} : employee'[z] = employee[z]
  BY <1>4, <1>7, <1>8 DEF RegistryInv, Staff!TypeOK
<1>10. Staff!TypeOK'
  BY <1>8, <1>9 DEF RegistryInv, Staff!TypeOK
<1>11. ASSUME NEW u \in Callers, request[u].pc = "write", request[u].kind \in Staff!Updating  PROVE HoldsRow(u)'
  <2>1. PICK d : d = request[u].data
    OBVIOUS
  <2>2. PICK o, v : o = Staff!After(u) /\ v = Staff!After(u)'
    OBVIOUS
  <2>3. /\ SiteOf[o.unit] = o.site /\ (request[u].kind = "create") = ~employee[request[u].who].present
        /\ request[u].who \in Employees
    BY <1>11, <2>2 DEF RegistryInv, HoldsRow, Staff!CompositeKey, Carries
  <2>4. employee'[request[u].who].present = employee[request[u].who].present
    BY <1>2, <1>4, <1>9, <2>3
  <2>5. v.unit = o.unit /\ v.site = o.site
    <3>1. CASE request[u].kind = "create" \/ request[u].who # e
      BY <1>8, <1>9, <2>2, <2>3, <3>1 DEF Staff!After
    <3>2. CASE request[u].kind # "create" /\ request[u].who = e
      <4>1. o = Staff!Overlay(r, d) /\ v = Staff!Overlay(w, d)
        BY <1>2, <1>8, <1>9, <2>1, <2>2, <3>2 DEF Staff!After
      <4> QED
        BY <1>4, <4>1, Overlaid
    <3> QED
      BY <3>1, <3>2
  <2> QED
    BY <1>8, <2>2, <2>3, <2>4, <2>5 DEF HoldsRow, Staff!CompositeKey
<1>12. \A u \in Callers : HoldsRow(u)'
  BY <1>8, <1>11 DEF HoldsRow
<1>13. OneHolder' /\ \A u \in Callers : StillSo(u)'
  BY <1>8 DEF RegistryInv, OneHolder, Staff!Holds, StillSo, Staff!Calm
<1>14. Staff!UnitAtSite'
  BY <1>2, <1>4, <1>9 DEF RegistryInv, Staff!UnitAtSite
<1> QED
  BY <1>8, <1>10, <1>12, <1>13, <1>14 DEF RegistryInv

LEMMA RegistryInit ==
  ASSUME Staff!RegistryConstants, Staff!Init
  PROVE  RegistryInv
<1>1. ASSUME NEW e \in Employees
      PROVE  employee[e] \in Staff!EmployeeRecord /\ SiteOf[employee[e].unit] = employee[e].site
  <2>1. PICK R : R = {Staff!Profile(r) : r \in Profiles}
    OBVIOUS
  <2>2. employee[e] = Staff!Unseen \/ \E r \in Profiles : employee[e] = Staff!Profile(r)
    <3>1. employee \in [Employees -> R \cup {Staff!Unseen}]
      BY <2>1 DEF Staff!Init
    <3>2. employee[e] \in R \cup {Staff!Unseen}
      BY <3>1
    <3> QED
      BY <2>1, <3>2
  <2> QED
    BY <2>2, Profiled, NobodySeen DEF Staff!CompositeKey
<1>2. ASSUME NEW e \in Employees  PROVE entry[e] \in Staff!EntryRecord /\ placed[e] \in Units
  BY <1>1 DEF Staff!Init, Staff!OpenEntry, Staff!NoEntry, Staff!EntryRecord, Staff!EmployeeRecord
<1>3. /\ employee \in [Employees -> Staff!EmployeeRecord] /\ entry \in [Employees -> Staff!EntryRecord]
      /\ placed \in [Employees -> Units]
  BY <1>1, <1>2 DEF Staff!Init
<1>4. \A t \in Callers : request[t] = Staff!Idle
  BY DEF Staff!Init
<1>5. Staff!TypeOK
  BY <1>3, <1>4, NobodySeen DEF Staff!Init, Staff!TypeOK, Staff!RegistryConstants
<1>6. \A t \in Callers : HoldsRow(t) /\ StillSo(t)
  BY <1>4, NobodySeen DEF HoldsRow, StillSo, Staff!RegistryConstants, Staff!Kinds
<1>7. OneHolder
  BY <1>4, NobodySeen DEF OneHolder, Staff!Holds
<1>8. Staff!UnitAtSite
  BY <1>1 DEF Staff!UnitAtSite
<1> QED
  BY <1>4, <1>5, <1>6, <1>7, <1>8, NobodySeen DEF RegistryInv, Staff!Init

LEMMA RegistryNext ==
  ASSUME RegistryInv, Staff!RegistryConstants, [Staff!Next]_Staff!vars
  PROVE  RegistryInv'
<1>1. CASE UNCHANGED Staff!vars
  BY <1>1 DEF Staff!vars, RegistryInv, Staff!TypeOK, HoldsRow, Staff!After, StillSo, OneHolder, Staff!Holds,
     Staff!UnitAtSite
<1>2. ASSUME NEW t \in Callers, Staff!Request(t)  PROVE RegistryInv'
  BY <1>2, Asked, NewKept
<1>3. ASSUME NEW t \in Callers, Staff!Serve(t)  PROVE RegistryInv'
  BY <1>3, BeginKept, CommitKept, CycleKept DEF Staff!Serve
<1>4. ASSUME Staff!Calm, NEW e \in Employees, Staff!EntryStep(e)  PROVE RegistryInv'
  BY <1>4, EntryKept, EobiKept DEF Staff!EntryStep
<1> QED
  BY <1>1, <1>2, <1>3, <1>4, FinalizeKept DEF Staff!Next

LEMMA RegistryInvAlways ==
  ASSUME Staff!RegistryConstants
  PROVE  Staff!Spec => []RegistryInv
<1>1. Staff!RegistryConstants
  OBVIOUS
<1>2. Staff!Init => RegistryInv
  BY <1>1, RegistryInit
<1>3. RegistryInv /\ [Staff!Next]_Staff!vars => RegistryInv'
  BY <1>1, RegistryNext
<1> QED
  BY <1>2, <1>3, PTL DEF Staff!Spec

-----------------------------------------------------------------------------
(* What follows. *)

(* The steps that leave the employees and their places alone, and what a commit does to them. *)
LEMMA RowsWritten ==
  ASSUME RegistryInv, Staff!RegistryConstants, NEW t \in Callers, Staff!Request(t) \/ Staff!Serve(t)
  PROVE  \/ UNCHANGED <<employee, placed>>
         \/ /\ request[t].pc = "write" /\ request[t].kind \in Staff!Updating /\ Staff!SaveEmployee(t)
            /\ Staff!NoImports => request[t].kind \in {"create", "update", "leave", "reactivate"}
<1>1. CASE Staff!Request(t)
  BY <1>1, Asked DEF NewCall, Staff!Unchanged
<1>2. CASE Staff!Serve(t)
  BY <1>2 DEF Staff!Serve, Staff!Begin, Staff!Abort, Staff!CommitCreate, Staff!CommitUpdate,
     Staff!CommitImport, Staff!CommitLeave, Staff!CommitManual,
     Staff!CommitReconcile, Staff!CommitRollover, Staff!Unchanged, Staff!Updating, RegistryInv, Carries, Staff!NoImports
<1> QED
  BY <1>1, <1>2

(* What a commit makes of the columns. *)
LEMMA Saved ==
  ASSUME RegistryInv, Staff!RegistryConstants, NEW t \in Callers, request[t].pc = "write",
         request[t].kind \in Staff!Updating,
         Staff!SaveEmployee(t), NEW c, c = request[t]
  PROVE  /\ c.who \in Employees /\ employee'[c.who] = Staff!After(t)
         /\ placed'[c.who] = IF c.kind = "create" \/ (c.kind # "leave" /\ Staff!IsTransfer(c.seen, c.data))
                             THEN Staff!Overlay(c.seen, c.data).unit ELSE placed[c.who]
         /\ \A e \in Employees \ {c.who} : employee'[e] = employee[e] /\ placed'[e] = placed[e]
<1>1. c.who \in Employees
  BY RowLeft
<1>2. PICK r : r = Staff!After(t)
  OBVIOUS
<1>3. PICK u : u = IF c.kind = "create" \/ (c.kind # "leave" /\ Staff!IsTransfer(c.seen, c.data))
                   THEN Staff!Overlay(c.seen, c.data).unit ELSE placed[c.who]
  OBVIOUS
<1>4. employee' = [employee EXCEPT ![c.who] = r] /\ placed' = [placed EXCEPT ![c.who] = u]
  BY <1>2, <1>3 DEF Staff!SaveEmployee
<1> QED
  BY <1>1, <1>2, <1>3, <1>4 DEF RegistryInv, Staff!TypeOK

LEMMA TransfersNext ==
  ASSUME RegistryInv, Staff!RegistryConstants, Staff!NoImports, ~FormResubmits, Staff!TransfersRecorded,
         [Staff!Next]_Staff!vars
  PROVE  Staff!TransfersRecorded'
<1>1. CASE UNCHANGED <<employee, placed>>
  BY <1>1 DEF Staff!TransfersRecorded
<1>2. ASSUME NEW t \in Callers, request[t].pc = "write",
             request[t].kind \in {"create", "update", "leave", "reactivate"},
             Staff!SaveEmployee(t)
      PROVE  Staff!TransfersRecorded'
  <2>1. PICK c : c = request[t] /\ Carries(c)
    BY DEF RegistryInv
  <2>2. PICK s : s = c.seen
    OBVIOUS
  <2>3. PICK d : d = c.data
    OBVIOUS
  <2>4. PICK e \in Employees : e = c.who
    BY <1>2, <2>1, RowLeft DEF Staff!Updating
  <2>5. s \in Staff!EmployeeRecord /\ employee[e] \in Staff!EmployeeRecord
    BY <2>1, <2>2 DEF Carries, RegistryInv, Staff!TypeOK
  <2>6. /\ employee'[e] = Staff!After(t)
        /\ placed'[e] = IF c.kind = "create" \/ (c.kind # "leave" /\ Staff!IsTransfer(s, d))
                        THEN Staff!Overlay(s, d).unit ELSE placed[e]
        /\ \A x \in Employees \ {e} : employee'[x] = employee[x] /\ placed'[x] = placed[x]
    BY <1>2, <2>1, <2>2, <2>3, <2>4, Saved DEF Staff!Updating
  <2>7. placed'[e] = Staff!After(t).unit
    <3>1. CASE c.kind = "create"
      <4>1. Staff!After(t) = d /\ d \in Staff!EmployeeRecord
        BY <2>1, <2>3, <3>1 DEF Staff!After, Carries
      <4>2. "unit" \in DOMAIN d
        BY <4>1 DEF Staff!EmployeeRecord
      <4> QED
        BY <2>5, <2>6, <3>1, <4>1, <4>2, Overlaid
    <3>2. CASE c.kind # "create"
      <4>1. Staff!After(t) = Staff!Overlay(employee[e], d) /\ employee[e].present
        BY <1>2, <2>1, <2>3, <2>4, <3>2 DEF Staff!After, RegistryInv, HoldsRow, Staff!Updating
      <4>2. placed[e] = employee[e].unit
        BY <4>1 DEF Staff!TransfersRecorded
      <4>3. CASE "unit" \notin DOMAIN d /\ ~(c.kind # "leave" /\ Staff!IsTransfer(s, d))
        BY <2>5, <2>6, <3>2, <4>1, <4>2, <4>3, Overlaid
      <4>4. CASE "unit" \in DOMAIN d /\ c.kind # "leave" /\ Staff!IsTransfer(s, d)
        BY <2>5, <2>6, <4>1, <4>4, Overlaid
      <4>5. ("unit" \in DOMAIN d) = (c.kind # "leave" /\ Staff!IsTransfer(s, d))
        <5>1. CASE c.kind = "leave"
          BY <2>1, <2>3, <5>1 DEF Carries
        <5>2. CASE c.kind # "leave"
          <6>1. Changes(s, d) /\ SiteOf[s.unit] = s.site
            BY <1>2, <2>1, <2>2, <2>3, <3>2, <5>2 DEF Carries, Read, Staff!CompositeKey
          <6>2. PICK o : o = Staff!Overlay(s, d)
            OBVIOUS
          <6>3. "unit" \in DOMAIN d => o.unit = d.unit /\ d.unit # s.unit
            BY <2>5, <6>1, <6>2, Overlaid DEF Changes
          <6>4. "unit" \notin DOMAIN d => o.unit = s.unit /\ o.site = s.site
            BY <2>5, <6>1, <6>2, Overlaid DEF Changes
          <6> QED
            BY <5>2, <6>2, <6>3, <6>4 DEF Staff!IsTransfer
        <5> QED
          BY <5>1, <5>2
      <4> QED
        BY <4>3, <4>4, <4>5
    <3> QED
      BY <3>1, <3>2
  <2> QED
    BY <2>6, <2>7 DEF Staff!TransfersRecorded
<1>3. ASSUME NEW t \in Callers, Staff!Request(t) \/ Staff!Serve(t)  PROVE Staff!TransfersRecorded'
  BY <1>1, <1>2, <1>3, RowsWritten
<1>4. ASSUME NEW e \in Employees, Staff!EditEobi(e)  PROVE Staff!TransfersRecorded'
  <2>1. PICK r \in Staff!EmployeeRecord : r = employee[e]
    BY DEF RegistryInv, Staff!TypeOK
  <2>2. PICK b \in BOOLEAN : b = ~entry[e].eobi
    OBVIOUS
  <2>3. PICK w : w = [r EXCEPT !.eobi = b]
    OBVIOUS
  <2>4. employee' = [employee EXCEPT ![e] = w] /\ UNCHANGED placed
    BY <1>4, <2>1, <2>2, <2>3 DEF Staff!EditEobi
  <2>5. w.unit = r.unit /\ w.present = r.present
    BY <2>3 DEF Staff!EmployeeRecord
  <2> QED
    BY <2>1, <2>4, <2>5 DEF Staff!TransfersRecorded, RegistryInv, Staff!TypeOK
<1> QED
  BY <1>1, <1>3, <1>4 DEF Staff!Next, Staff!EntryStep, Staff!Oblige, Staff!SwitchHold, Staff!Delete,
     Staff!Release, Staff!Finalize, Staff!vars

(* Updates and returns that overlap with nothing decide from the row they will write. *)
LEMMA BankingNext ==
  ASSUME RegistryInv, Staff!RegistryConstants, Staff!NoImports, {"update", "reactivate"} \subseteq Alone,
         Staff!BankingComplete, [Staff!Next]_Staff!vars
  PROVE  Staff!BankingComplete'
<1>1. CASE UNCHANGED employee
  BY <1>1 DEF Staff!BankingComplete
<1>2. ASSUME NEW t \in Callers, request[t].pc = "write",
             request[t].kind \in {"create", "update", "leave", "reactivate"},
             Staff!SaveEmployee(t)
      PROVE  Staff!BankingComplete'
  <2>1. PICK c : c = request[t] /\ Carries(c)
    BY DEF RegistryInv
  <2>2. PICK d : d = c.data
    OBVIOUS
  <2>3. PICK e \in Employees : e = c.who
    BY <1>2, <2>1, RowLeft DEF Staff!Updating
  <2>4. employee'[e] = Staff!After(t) /\ \A x \in Employees \ {e} : employee'[x] = employee[x]
    BY <1>2, <2>1, <2>3, Saved DEF Staff!Updating
  <2>5. Staff!After(t).bank = Staff!After(t).account
    <3>1. CASE c.kind = "create"
      BY <2>1, <3>1 DEF Staff!After, Carries
    <3>2. CASE c.kind = "leave"
      <4>1. Staff!After(t) = Staff!Overlay(employee[e], d) /\ employee[e].present
        BY <1>2, <2>1, <2>2, <2>3, <3>2 DEF Staff!After, RegistryInv, HoldsRow, Staff!Updating
      <4>2. DOMAIN d = {"left"}
        BY <2>1, <2>2, <3>2 DEF Carries
      <4>3. employee[e] \in Staff!EmployeeRecord
        BY DEF RegistryInv, Staff!TypeOK
      <4>4. Staff!After(t).bank = employee[e].bank /\ Staff!After(t).account = employee[e].account
        BY <4>1, <4>2, <4>3, Overlaid
      <4> QED
        BY <4>1, <4>4 DEF Staff!BankingComplete
    <3>3. CASE c.kind \in {"update", "reactivate"}
      <4>1. c.seen = employee[e]
        BY <2>1, <2>3, <3>3 DEF RegistryInv, StillSo, Read
      <4>2. Staff!After(t) = Staff!Overlay(c.seen, d)
        BY <2>1, <2>2, <2>3, <3>3, <4>1 DEF Staff!After
      <4> QED
        BY <2>1, <2>2, <3>3, <4>2 DEF Carries, Changes
    <3> QED
      BY <1>2, <2>1, <3>1, <3>2, <3>3
  <2> QED
    BY <2>4, <2>5 DEF Staff!BankingComplete
<1>3. ASSUME NEW t \in Callers, Staff!Request(t) \/ Staff!Serve(t)  PROVE Staff!BankingComplete'
  BY <1>1, <1>2, <1>3, RowsWritten
<1>4. ASSUME NEW e \in Employees, Staff!EditEobi(e)  PROVE Staff!BankingComplete'
  <2>1. PICK r \in Staff!EmployeeRecord : r = employee[e]
    BY DEF RegistryInv, Staff!TypeOK
  <2>2. PICK b \in BOOLEAN : b = ~entry[e].eobi
    OBVIOUS
  <2>3. PICK w : w = [r EXCEPT !.eobi = b]
    OBVIOUS
  <2>4. employee' = [employee EXCEPT ![e] = w]
    BY <1>4, <2>1, <2>2, <2>3 DEF Staff!EditEobi
  <2>5. w.bank = r.bank /\ w.account = r.account /\ w.present = r.present
    BY <2>3 DEF Staff!EmployeeRecord
  <2> QED
    BY <2>1, <2>4, <2>5 DEF Staff!BankingComplete, RegistryInv, Staff!TypeOK
<1> QED
  BY <1>1, <1>3, <1>4 DEF Staff!Next, Staff!EntryStep, Staff!Oblige, Staff!SwitchHold, Staff!Delete,
     Staff!Release, Staff!Finalize, Staff!vars

(* Two partial updates, each right of the employee it read, never leave an employee in a     *)
(* unit of another site, whatever requests overlap. Where nothing is imported and a form     *)
(* sends only what it changes, the recorded transfers lead to where the employee is; where   *)
(* updates wait for each other, who has a bank has an account and nobody else.               *)
THEOREM EmployeesCoherent ==
  ASSUME Staff!RegistryConstants
  PROVE  Staff!Spec => []EmployeeIsCoherent
<1>1. Staff!RegistryConstants
  OBVIOUS
<1> DEFINE Inv == /\ Staff!NoImports /\ ~FormResubmits => Staff!TransfersRecorded
                  /\ Staff!NoImports /\ {"update", "reactivate"} \subseteq Alone => Staff!BankingComplete
<1>2. Staff!Init => Inv
  <2>1. SUFFICES ASSUME Staff!Init  PROVE Staff!TransfersRecorded /\ Staff!BankingComplete
    OBVIOUS
  <2>2. Staff!TransfersRecorded
    BY <2>1 DEF Staff!Init, Staff!TransfersRecorded
  <2>3. ASSUME NEW e \in Employees, employee[e].present  PROVE employee[e].bank = employee[e].account
    <3>1. PICK R : R = {Staff!Profile(r) : r \in Profiles}
      OBVIOUS
    <3>2. employee \in [Employees -> R \cup {Staff!Unseen}]
      BY <2>1, <3>1 DEF Staff!Init
    <3>3. employee[e] \in R
      BY <1>1, <2>3, <3>2, NobodySeen
    <3> QED
      BY <1>1, <3>1, <3>3, Profiled
  <2> QED
    BY <2>2, <2>3 DEF Staff!BankingComplete
<1>3. RegistryInv /\ Inv /\ [Staff!Next]_Staff!vars => Inv'
  <2>1. SUFFICES ASSUME RegistryInv, Inv, [Staff!Next]_Staff!vars  PROVE Inv'
    OBVIOUS
  <2>2. Staff!NoImports /\ ~FormResubmits => Staff!TransfersRecorded'
    BY <1>1, <2>1, TransfersNext
  <2>3. Staff!NoImports /\ {"update", "reactivate"} \subseteq Alone => Staff!BankingComplete'
    BY <1>1, <2>1, BankingNext
  <2> QED
    BY <2>2, <2>3
<1>4. RegistryInv /\ Inv => EmployeeIsCoherent
  BY DEF RegistryInv, EmployeeIsCoherent, Staff!EmployeeIsCoherent
<1>5. Staff!Spec => []RegistryInv
  BY <1>1, RegistryInvAlways
<1> QED
  <2> HIDE DEF Inv
  <2> QED
    BY <1>2, <1>3, <1>4, <1>5, PTL DEF Staff!Spec

-----------------------------------------------------------------------------
(* The entries of the draft. *)

(* What each step does to an entry. *)
LEMMA ResolvedNext ==
  ASSUME RegistryInv, Staff!RegistryConstants, [Staff!Next]_Staff!vars
  PROVE  Staff!ResolvedStep
<1>1. SUFFICES ASSUME NEW e \in Employees, entry[e].state = "resolved", current' = current
      PROVE  entry'[e].state = "resolved"
  BY DEF Staff!ResolvedStep
<1>2. entry[e] \in Staff!EntryRecord /\ \A x \in Employees : entry[x] \in Staff!EntryRecord
  BY DEF RegistryInv, Staff!TypeOK
<1>3. CASE entry' = entry
  BY <1>1, <1>3
<1>4. ASSUME NEW x \in Employees, NEW q, entry' = [entry EXCEPT ![x] = q],
             entry[x].state = "resolved" => q.state = "resolved"
      PROVE  entry'[e].state = "resolved"
  BY <1>1, <1>4 DEF RegistryInv, Staff!TypeOK
<1>5. ASSUME NEW t \in Callers, Staff!CommitCreate(t)  PROVE entry'[e].state = "resolved"
  <2>1. PICK b : b = Staff!After(t).eobi
    OBVIOUS
  <2>2. request[t].who \in Employees
    BY <1>5, RowLeft DEF Staff!CommitCreate, Staff!Updating
  <2>3. \/ entry' = entry
        \/ entry' = [entry EXCEPT ![request[t].who] = Staff!OpenEntry(b)] /\ entry[request[t].who].state = "none"
    BY <1>5, <2>1 DEF Staff!CommitCreate, Staff!Seed
  <2> QED
    BY <1>3, <1>4, <2>2, <2>3
<1>6. ASSUME NEW t \in Callers, Staff!CommitUpdate(t)  PROVE entry'[e].state = "resolved"
  <2>1. PICK x \in Employees : x = request[t].who
    BY <1>6, RowLeft DEF Staff!CommitUpdate, Staff!Updating
  <2>2. PICK b : b = request[t].data.eobi
    OBVIOUS
  <2>3. PICK q : q = [entry[x] EXCEPT !.eobi = b]
    OBVIOUS
  <2>4. q.state = entry[x].state
    BY <1>2, <2>3 DEF Staff!EntryRecord
  <2>5. entry' = entry \/ entry' = [entry EXCEPT ![x] = q]
    BY <1>6, <2>1, <2>2, <2>3 DEF Staff!CommitUpdate
  <2> QED
    BY <1>3, <1>4, <2>4, <2>5
<1>7. ASSUME NEW t \in Callers, Staff!CommitLeave(t)  PROVE entry'[e].state = "resolved"
  <2>1. PICK x \in Employees : x = request[t].who
    BY <1>7, RowLeft DEF Staff!CommitLeave, Staff!Updating
  <2>2. PICK q : q = Staff!HeldIfObliged(t, entry[x])
    OBVIOUS
  <2>3. PICK h : h = [entry[x] EXCEPT !.hold = TRUE]
    OBVIOUS
  <2>4. q.state = entry[x].state
    BY <1>2, <2>2, <2>3 DEF Staff!HeldIfObliged, Staff!EntryRecord
  <2>5. \/ entry' = entry
        \/ entry' = [entry EXCEPT ![x] = q]
        \/ entry' = [entry EXCEPT ![x] = Staff!NoEntry] /\ entry[x].state = "open"
    BY <1>7, <2>1, <2>2 DEF Staff!CommitLeave, Staff!Removed, Staff!Unreferenced
  <2> QED
    BY <1>3, <1>4, <2>4, <2>5
<1>8. ASSUME NEW t \in Callers, Staff!CommitManual(t)  PROVE entry'[e].state = "resolved"
  <2>1. PICK x \in Employees : x = request[t].who
    BY <1>8 DEF Staff!CommitManual, RegistryInv, Carries
  <2>2. PICK q : q = Staff!OpenEntry(request[t].seen.eobi)
    OBVIOUS
  <2>3. \/ entry' = entry
        \/ entry' = [entry EXCEPT ![x] = q] /\ entry[x].state = "none"
    BY <1>8, <2>1, <2>2 DEF Staff!CommitManual
  <2> QED
    BY <1>3, <1>4, <2>3
<1>9. ASSUME NEW t \in Callers, Staff!CommitReconcile(t)  PROVE entry'[e].state = "resolved"
  BY <1>1, <1>9 DEF Staff!CommitReconcile
<1>10. ASSUME NEW t \in Callers, Staff!CommitRollover(t)  PROVE FALSE
  BY <1>1, <1>10 DEF Staff!CommitRollover, RegistryInv, Staff!TypeOK
<1>11. ASSUME NEW x \in Employees, Staff!EntryStep(x)  PROVE entry'[e].state = "resolved"
  <2>1. CASE Staff!EditEobi(x) \/ Staff!Oblige(x) \/ Staff!SwitchHold(x) \/ Staff!Delete(x)
    <3>1. entry[x].state = "open" /\ \E q : entry' = [entry EXCEPT ![x] = q]
      BY <2>1 DEF Staff!EditEobi, Staff!Oblige, Staff!SwitchHold, Staff!Delete
    <3> QED
      BY <1>4, <3>1
  <2>2. CASE Staff!Release(x)
    BY <1>1, <2>2 DEF Staff!Release, RegistryInv, Staff!TypeOK
  <2> QED
    BY <1>11, <2>1, <2>2 DEF Staff!EntryStep
<1>12. ASSUME NEW t \in Callers, Staff!Request(t)  PROVE entry' = entry
  BY <1>12, Asked DEF NewCall, Staff!Unchanged
<1> QED
  BY <1>3, <1>5, <1>6, <1>7, <1>8, <1>9, <1>10, <1>11, <1>12 DEF Staff!Next, Staff!Serve, Staff!Begin,
     Staff!Abort, Staff!CommitImport, Staff!Unchanged,
     Staff!Finalize, Staff!vars

(* A resolved entry outlives departures, returns, reconciliations and every other request,   *)
(* however they overlap: until the next cycle it is not deleted, reopened or created again.  *)
THEOREM ResolvedAlwaysOutlives ==
  ASSUME Staff!RegistryConstants
  PROVE  Staff!Spec => ResolvedOutlives
<1>1. Staff!RegistryConstants
  OBVIOUS
<1>2. RegistryInv /\ [Staff!Next]_Staff!vars => [Staff!ResolvedStep]_rvars
  BY <1>1, ResolvedNext
<1> QED
  BY <1>1, <1>2, RegistryInvAlways, PTL DEF Staff!Spec, ResolvedOutlives

(* Who has left has no entry that a sweep would pay, unless its hold was lifted by hand. *)
LEMMA LeaverNext ==
  ASSUME RegistryInv, Staff!RegistryConstants, Staff!LeaversApart, [Staff!Next]_Staff!vars
  PROVE  Staff!LeaverStep
<1>1. SUFFICES ASSUME NEW e \in Employees, draft', employee'[e].left, entry'[e].state = "open", ~entry'[e].hold
      PROVE  Staff!Payable(e) \/ Staff!LiftedByHand(e)
  BY DEF Staff!LeaverStep, Staff!Payable
<1>2. /\ Staff!NoImports /\ "manual" \notin Requests /\ "leave" \in Alone /\ "reconcile" \in Alone
      /\ "rollover" \in Alone
  BY DEF Staff!LeaversApart
<1>3. CASE UNCHANGED <<employee, entry, draft>>
  BY <1>1, <1>3 DEF Staff!Payable
<1>4. \A x \in Employees : entry[x] \in Staff!EntryRecord /\ employee[x] \in Staff!EmployeeRecord
  BY DEF RegistryInv, Staff!TypeOK
<1>5. ASSUME NEW t \in Callers, Staff!CommitCreate(t)  PROVE Staff!Payable(e)
  <2>1. PICK c : c = request[t] /\ Carries(c)
    BY DEF RegistryInv
  <2>2. c.pc = "write" /\ c.kind \in {"create", "reactivate"} /\ Staff!SaveEmployee(t) /\ UNCHANGED draft
    BY <1>5, <2>1 DEF Staff!CommitCreate
  <2>3. /\ c.who \in Employees /\ employee'[c.who] = Staff!After(t)
        /\ \A x \in Employees \ {c.who} : employee'[x] = employee[x]
    BY <2>1, <2>2, Saved DEF Staff!Updating
  <2>4. ~Staff!After(t).left
    <3>1. CASE c.kind = "create"
      BY <1>2, <2>1, <3>1 DEF Staff!After, Carries
    <3>2. CASE c.kind = "reactivate"
      <4>1. Staff!After(t) = Staff!Overlay(employee[c.who], c.data)
        BY <2>1, <3>2 DEF Staff!After
      <4> QED
        BY <1>4, <2>1, <2>3, <3>2, <4>1, Overlaid DEF Carries
    <3> QED
      BY <2>2, <3>1, <3>2
  <2>5. e # c.who
    BY <1>1, <2>3, <2>4
  <2>6. entry'[e] = entry[e]
    BY <1>4, <1>5, <2>1, <2>5 DEF Staff!CommitCreate, Staff!Seed, RegistryInv, Staff!TypeOK
  <2> QED
    BY <1>1, <2>2, <2>3, <2>5, <2>6 DEF Staff!Payable
<1>6. ASSUME NEW t \in Callers, Staff!CommitUpdate(t)  PROVE Staff!Payable(e)
  <2>1. PICK c : c = request[t] /\ Carries(c)
    BY DEF RegistryInv
  <2>2. c.pc = "write" /\ c.kind = "update" /\ Staff!SaveEmployee(t) /\ UNCHANGED draft
    BY <1>6, <2>1 DEF Staff!CommitUpdate
  <2>3. /\ c.who \in Employees /\ employee'[c.who] = Staff!After(t)
        /\ \A x \in Employees \ {c.who} : employee'[x] = employee[x]
    BY <2>1, <2>2, Saved DEF Staff!Updating
  <2>4. Staff!After(t).left = employee[c.who].left
    <3>1. Staff!After(t) = Staff!Overlay(employee[c.who], c.data) /\ "left" \notin DOMAIN c.data
      BY <2>1, <2>2 DEF Staff!After, Carries
    <3> QED
      BY <1>4, <2>3, <3>1, Overlaid
  <2>5. employee[e].left
    BY <1>1, <2>3, <2>4
  <2>6. entry'[e].state = entry[e].state /\ entry'[e].hold = entry[e].hold
    <3>1. PICK b : b = c.data.eobi
      OBVIOUS
    <3>2. PICK q : q = [entry[c.who] EXCEPT !.eobi = b]
      OBVIOUS
    <3>3. q.state = entry[c.who].state /\ q.hold = entry[c.who].hold
      BY <1>4, <2>3, <3>2 DEF Staff!EntryRecord
    <3>4. entry' = entry \/ entry' = [entry EXCEPT ![c.who] = q]
      BY <1>6, <2>1, <3>1, <3>2 DEF Staff!CommitUpdate
    <3> QED
      BY <2>3, <3>3, <3>4 DEF RegistryInv, Staff!TypeOK
  <2> QED
    BY <1>1, <2>2, <2>5, <2>6 DEF Staff!Payable
<1>7. ASSUME NEW t \in Callers, Staff!CommitLeave(t)  PROVE Staff!Payable(e)
  <2>1. PICK c : c = request[t] /\ Carries(c)
    BY DEF RegistryInv
  <2>2. c.pc = "write" /\ c.kind = "leave" /\ Staff!SaveEmployee(t) /\ UNCHANGED draft
    BY <1>7, <2>1 DEF Staff!CommitLeave
  <2>3. /\ c.who \in Employees
        /\ \A x \in Employees \ {c.who} : employee'[x] = employee[x]
    BY <2>1, <2>2, Saved DEF Staff!Updating
  <2>4. c.found = entry[c.who] /\ c.inCycle = current
    BY <1>1, <1>2, <2>1, <2>2 DEF RegistryInv, StillSo, Staff!Updating
  <2>5. CASE e # c.who
    <3>1. entry'[e] = entry[e]
      BY <1>7, <2>1, <2>3, <2>5 DEF Staff!CommitLeave, RegistryInv, Staff!TypeOK
    <3> QED
      BY <1>1, <2>2, <2>3, <2>5, <3>1 DEF Staff!Payable
  <2>6. CASE e = c.who
    <3>1. Staff!Open(t) <=> entry[e].state = "open"
      BY <2>1, <2>4, <2>6 DEF Staff!Open, Staff!Current
    <3>2. CASE ~Staff!Open(t)
      BY <1>1, <1>7, <3>1, <3>2 DEF Staff!CommitLeave
    <3>3. CASE Staff!Open(t) /\ ~c.found.obliged
      <4>1. entry'[e] = Staff!NoEntry
        BY <1>7, <2>1, <2>6, <3>3 DEF Staff!CommitLeave, Staff!Removed, RegistryInv, Staff!TypeOK
      <4> QED
        BY <1>1, <4>1 DEF Staff!NoEntry
    <3>4. CASE Staff!Open(t) /\ c.found.obliged
      <4>1. PICK h : h = [entry[e] EXCEPT !.hold = TRUE]
        OBVIOUS
      <4>2. h.hold
        BY <1>4, <4>1 DEF Staff!EntryRecord
      <4>3. entry'[e] = IF entry[e].hold THEN entry[e] ELSE h
        BY <1>7, <2>1, <2>4, <2>6, <3>4, <4>1 DEF Staff!CommitLeave, Staff!HeldIfObliged, RegistryInv,
           Staff!TypeOK
      <4> QED
        BY <1>1, <4>2, <4>3
    <3> QED
      BY <3>2, <3>3, <3>4
  <2> QED
    BY <2>5, <2>6
<1>8. ASSUME NEW t \in Callers, Staff!CommitReconcile(t)  PROVE Staff!Payable(e)
  <2>1. PICK c : c = request[t] /\ Carries(c)
    BY DEF RegistryInv
  <2>2. c.kind = "reconcile" /\ UNCHANGED <<employee, draft>>
    BY <1>8, <2>1 DEF Staff!CommitReconcile
  <2>3. \A x \in DOMAIN c.roster : ~employee[x].left
    BY <1>2, <2>1, <2>2 DEF RegistryInv, StillSo, Carries, Rostering
  <2>4. entry'[e] = entry[e]
    BY <1>1, <1>8, <2>1, <2>2, <2>3 DEF Staff!CommitReconcile
  <2> QED
    BY <1>1, <2>2, <2>4 DEF Staff!Payable
<1>9. ASSUME NEW t \in Callers, Staff!CommitRollover(t)  PROVE Staff!Payable(e)
  <2>1. PICK c : c = request[t] /\ Carries(c)
    BY DEF RegistryInv
  <2>2. c.kind = "rollover" /\ UNCHANGED employee
    BY <1>9, <2>1 DEF Staff!CommitRollover
  <2>3. \A x \in DOMAIN c.roster : c.roster[x] = employee[x]
    BY <1>2, <2>1, <2>2 DEF RegistryInv, StillSo, Rostering
  <2>4. entry'[e] = IF e \in DOMAIN c.roster THEN Staff!Carried(e, c.roster[e]) ELSE Staff!NoEntry
    BY <1>9, <2>1 DEF Staff!CommitRollover
  <2> QED
    BY <1>1, <2>2, <2>3, <2>4 DEF Staff!Carried, Staff!HeldEntry, Staff!NoEntry
<1>10. ASSUME NEW x \in Employees, Staff!EntryStep(x)
       PROVE  Staff!Payable(e) \/ Staff!LiftedByHand(e)
  <2>1. PICK r \in Staff!EntryRecord : r = entry[x]
    BY <1>4
  <2>2. PICK s \in Staff!EmployeeRecord : s = employee[x]
    BY <1>4
  <2>3. PICK b \in BOOLEAN : b = ~r.eobi
    OBVIOUS
  <2>4. CASE Staff!EditEobi(x)
    <3>1. PICK q, w : q = [r EXCEPT !.eobi = b] /\ w = [s EXCEPT !.eobi = b]
      OBVIOUS
    <3>2. q.state = r.state /\ q.hold = r.hold /\ w.left = s.left
      BY <3>1 DEF Staff!EntryRecord, Staff!EmployeeRecord
    <3>3. entry' = [entry EXCEPT ![x] = q] /\ employee' = [employee EXCEPT ![x] = w] /\ UNCHANGED draft
      BY <2>1, <2>2, <2>3, <2>4, <3>1 DEF Staff!EditEobi
    <3> QED
      BY <1>1, <2>1, <2>2, <3>2, <3>3 DEF Staff!Payable, RegistryInv, Staff!TypeOK
  <2>5. CASE Staff!Oblige(x)
    <3>1. PICK q : q = [r EXCEPT !.obliged = TRUE]
      OBVIOUS
    <3>2. q.state = r.state /\ q.hold = r.hold
      BY <3>1 DEF Staff!EntryRecord
    <3>3. entry' = [entry EXCEPT ![x] = q] /\ UNCHANGED <<employee, draft>>
      BY <2>1, <2>5, <3>1 DEF Staff!Oblige
    <3> QED
      BY <1>1, <2>1, <3>2, <3>3 DEF Staff!Payable, RegistryInv, Staff!TypeOK
  <2>6. CASE Staff!SwitchHold(x)
    <3>1. UNCHANGED <<employee, draft>> /\ entry[x].state = "open"
      BY <2>6 DEF Staff!SwitchHold
    <3>2. e # x => entry'[e] = entry[e]
      BY <2>6 DEF Staff!SwitchHold, RegistryInv, Staff!TypeOK
    <3> QED
      BY <1>1, <3>1, <3>2 DEF Staff!Payable, Staff!LiftedByHand
  <2>7. CASE Staff!Delete(x) \/ Staff!Release(x)
    <3>1. UNCHANGED <<employee, draft>> /\ (e # x => entry'[e] = entry[e])
      BY <2>7 DEF Staff!Delete, Staff!Release, RegistryInv, Staff!TypeOK
    <3>2. entry'[x].state # "open"
      <4>1. PICK q : q = [r EXCEPT !.state = "resolved"]
        OBVIOUS
      <4>2. q.state = "resolved"
        BY <4>1 DEF Staff!EntryRecord
      <4>3. entry' = [entry EXCEPT ![x] = q] \/ entry' = [entry EXCEPT ![x] = Staff!NoEntry]
        BY <2>1, <2>7, <4>1 DEF Staff!Delete, Staff!Release, Staff!Removed
      <4> QED
        BY <4>2, <4>3 DEF Staff!NoEntry, RegistryInv, Staff!TypeOK
    <3> QED
      BY <1>1, <3>1, <3>2 DEF Staff!Payable
  <2> QED
    BY <1>10, <2>4, <2>5, <2>6, <2>7 DEF Staff!EntryStep
<1>11. CASE Staff!Finalize
  BY <1>1, <1>11 DEF Staff!Finalize
<1>12. ASSUME NEW t \in Callers, Staff!CommitManual(t) \/ Staff!CommitImport(t)  PROVE FALSE
  BY <1>2, <1>12 DEF Staff!CommitManual, Staff!CommitImport, RegistryInv, Carries, Staff!NoImports
<1>13. ASSUME NEW t \in Callers, Staff!Request(t) \/ Staff!Begin(t) \/ Staff!Abort(t)
       PROVE  UNCHANGED <<employee, entry, draft>>
  BY <1>13, Asked DEF NewCall, Staff!Begin, Staff!Abort, Staff!Unchanged
<1> QED
  BY <1>3, <1>5, <1>6, <1>7, <1>8, <1>9, <1>10, <1>11, <1>12, <1>13 DEF Staff!Next, Staff!Serve, Staff!vars

(* What an update found of the entry is still so as far as its own write is concerned. *)
Settled(t) ==
    request[t].pc = "write" /\ request[t].kind \in Staff!Updating =>
      /\ request[t].inCycle = current \/ ~draft
      /\ request[t].kind # "create" /\ request[t].found.state # "open" => entry[request[t].who].state # "open"
      /\ draft /\ request[t].found.state = "open" /\ entry[request[t].who].state = "open"
           => entry[request[t].who].eobi = request[t].found.eobi
EobiInv ==
    /\ Staff!EobiAgrees
    /\ \A e \in Employees : ~employee[e].present => entry[e].state = "none"
    /\ \A t \in Callers : Settled(t)

(* The part of it that one employee's row and entry decide. *)
Follows(e) ==
    /\ draft /\ entry[e].state = "open" /\ employee[e].present => entry[e].eobi = employee[e].eobi
    /\ ~employee[e].present => entry[e].state = "none"

LEMMA FollowsKept ==
  ASSUME RegistryInv, EobiInv, current' = current, draft' => draft,
         NEW t \in Callers, \A u \in Staff!Others(t) : request'[u] = request[u],
         request'[t] = request[t] \/ request'[t].pc # "write" \/ request'[t].kind \notin Staff!Updating,
         NEW e \in Employees, \A x \in Employees \ {e} : employee'[x] = employee[x] /\ entry'[x] = entry[x],
         Follows(e)',
         \/ entry'[e].state = "open" => entry[e].state = "open" /\ entry'[e].eobi = entry[e].eobi
         \/ Staff!Holds(t, e) /\ request'[t].pc # "write"
  PROVE  EobiInv'
<1>1. ASSUME NEW x \in Employees  PROVE Follows(x)'
  BY <1>1 DEF Follows, EobiInv, Staff!EobiAgrees
<1>2. ASSUME NEW u \in Callers, request'[u].pc = "write", request'[u].kind \in Staff!Updating  PROVE Settled(u)'
  <2>1. request'[u] = request[u]
    BY <1>2 DEF Staff!Others
  <2>2. request[u].who \in Employees
    BY <1>2, <2>1 DEF RegistryInv, Carries
  <2>3. entry'[request[u].who].state = "open" =>
          entry[request[u].who].state = "open" /\ entry'[request[u].who].eobi = entry[request[u].who].eobi
    <3>1. CASE request[u].who # e
      BY <2>2, <3>1
    <3>2. CASE request[u].who = e /\ Staff!Holds(t, e) /\ request'[t].pc # "write"
      <4>1. Staff!Holds(u, e)
        BY <1>2, <2>1, <3>2 DEF Staff!Holds
      <4> QED
        BY <1>2, <3>2, <4>1 DEF RegistryInv, OneHolder
    <3> QED
      BY <3>1, <3>2
  <2> QED
    BY <1>2, <2>1, <2>3 DEF EobiInv, Settled
<1> QED
  BY <1>1, <1>2 DEF EobiInv, Staff!EobiAgrees, Follows, Settled

(* The commits of the registry. *)
LEMMA EobiCommitted ==
  ASSUME RegistryInv, Staff!RegistryConstants, Staff!EobiIsFollowed, EobiInv, NEW t \in Callers,
         Staff!CommitCreate(t) \/ Staff!CommitUpdate(t) \/ Staff!CommitLeave(t)
  PROVE  EobiInv'
<1>1. PICK c : c = request[t] /\ Carries(c)
  BY DEF RegistryInv
<1>2. Staff!NoImports /\ ~FormResubmits /\ c.kind # "reactivate"
  BY <1>1 DEF Staff!EobiIsFollowed, Staff!NoImports, Carries
<1>3. /\ c.pc = "write" /\ c.kind \in {"create", "update", "leave"} /\ Staff!SaveEmployee(t)
      /\ UNCHANGED <<current, draft>> /\ request' = [request EXCEPT ![t] = Staff!Idle]
  BY <1>1, <1>2 DEF Staff!CommitCreate, Staff!CommitUpdate, Staff!CommitLeave, Staff!Step
<1>4. PICK e \in Employees : e = c.who
  BY <1>1, <1>3, RowLeft DEF Staff!Updating
<1>5. PICK o : o = Staff!After(t)
  OBVIOUS
<1>6. PICK r \in Staff!EmployeeRecord : r = employee[e]
  BY DEF RegistryInv, Staff!TypeOK
<1>7. PICK x \in Staff!EntryRecord : x = entry[e]
  BY DEF RegistryInv, Staff!TypeOK
<1>8. PICK d : d = c.data
  OBVIOUS
<1>9. /\ o \in Staff!EmployeeRecord /\ o.present /\ employee'[e] = o
      /\ \A y \in Employees \ {e} : employee'[y] = employee[y]
  BY <1>1, <1>3, <1>4, <1>5, RowLeft, Saved DEF Staff!Updating
<1>10. /\ c.kind # "create" => r.present /\ o = Staff!Overlay(r, d)
       /\ c.kind = "create" => ~r.present
  BY <1>1, <1>3, <1>4, <1>5, <1>6, <1>8 DEF Staff!After, RegistryInv, HoldsRow, Staff!Updating
<1>11. Settled(t) /\ (draft /\ x.state = "open" /\ r.present => x.eobi = r.eobi) /\ (~r.present => x.state = "none")
  BY <1>6, <1>7 DEF EobiInv, Staff!EobiAgrees
<1>12. CASE Staff!CommitCreate(t)
  <2>1. c.kind = "create" /\ x.state = "none"
    BY <1>1, <1>2, <1>10, <1>11, <1>12 DEF Staff!CommitCreate
  <2>2. PICK b : b = o.eobi
    OBVIOUS
  <2>3. entry' = entry \/ entry' = [entry EXCEPT ![e] = Staff!OpenEntry(b)]
    BY <1>1, <1>4, <1>5, <1>12, <2>2 DEF Staff!CommitCreate, Staff!Seed
  <2>4. /\ \A y \in Employees \ {e} : entry'[y] = entry[y]
        /\ entry'[e] = x \/ entry'[e] = Staff!OpenEntry(b)
    BY <1>7, <2>3 DEF RegistryInv, Staff!TypeOK
  <2>5. Follows(e)'
    BY <1>9, <2>1, <2>2, <2>4 DEF Follows, Staff!OpenEntry
  <2> QED
    BY <1>1, <1>3, <1>4, <1>9, <2>4, <2>5, OneRequest, NobodySeen, FollowsKept DEF Staff!Holds, Staff!Updating
<1>13. CASE Staff!CommitUpdate(t)
  <2>1. c.kind = "update" /\ Changes(c.seen, d) /\ Staff!Fits(d)
    BY <1>1, <1>8, <1>13 DEF Staff!CommitUpdate, Carries, Changes
  <2>2. PICK b : b = d.eobi
    OBVIOUS
  <2>3. PICK y : y = [x EXCEPT !.eobi = b]
    OBVIOUS
  <2>4. y.state = x.state /\ y.eobi = b
    BY <2>3 DEF Staff!EntryRecord
  <2>5. entry' = IF Staff!Syncs(t) THEN [entry EXCEPT ![e] = y] ELSE entry
    BY <1>1, <1>4, <1>7, <1>8, <1>13, <2>2, <2>3 DEF Staff!CommitUpdate
  <2>6. /\ \A z \in Employees \ {e} : entry'[z] = entry[z]
        /\ entry'[e] = IF Staff!Syncs(t) THEN y ELSE x
    BY <1>7, <2>5 DEF RegistryInv, Staff!TypeOK
  <2>7. "eobi" \in DOMAIN d => d.eobi # c.seen.eobi
    BY <1>2, <2>1 DEF Changes
  <2>8. o.eobi = IF "eobi" \in DOMAIN d THEN b ELSE r.eobi
    BY <1>10, <2>1, <2>2, Overlaid
  <2>9. Staff!Syncs(t) <=> "eobi" \in DOMAIN d /\ Staff!Open(t) /\ c.found.eobi # b
    BY <1>1, <1>8, <2>2, <2>7 DEF Staff!Syncs
  <2>10. Staff!Open(t) \/ ~draft \/ x.state # "open"
    BY <1>1, <1>3, <1>4, <1>7, <1>11, <2>1 DEF Settled, Staff!Open, Staff!Current, Staff!Updating
  <2>11. draft /\ x.state = "open" /\ Staff!Open(t) => x.eobi = c.found.eobi
    BY <1>1, <1>3, <1>4, <1>7, <1>11, <2>1 DEF Settled, Staff!Open, Staff!Updating
  <2>12. Follows(e)'
    BY <1>3, <1>9, <1>10, <1>11, <2>1, <2>4, <2>6, <2>8, <2>9, <2>10, <2>11 DEF Follows
  <2>13. request'[t] = Staff!Idle /\ \A u \in Staff!Others(t) : request'[u] = request[u]
    BY <1>3, OneRequest
  <2> QED
    BY <1>1, <1>3, <1>4, <1>9, <2>6, <2>12, <2>13, NobodySeen, FollowsKept DEF Staff!Holds, Staff!Updating
<1>14. CASE Staff!CommitLeave(t)
  <2>1. c.kind = "leave" /\ DOMAIN d = {"left"}
    BY <1>1, <1>8, <1>14 DEF Staff!CommitLeave, Carries
  <2>2. PICK h : h = [x EXCEPT !.hold = TRUE]
    OBVIOUS
  <2>3. h.state = x.state /\ h.eobi = x.eobi
    BY <2>2 DEF Staff!EntryRecord
  <2>4. PICK q : q \in {x, h, Staff!NoEntry} /\ entry' = [entry EXCEPT ![e] = q]
    <3>1. entry = [entry EXCEPT ![e] = x]
      BY <1>7 DEF RegistryInv, Staff!TypeOK
    <3> QED
      BY <1>1, <1>4, <1>7, <1>14, <2>2, <3>1 DEF Staff!CommitLeave, Staff!HeldIfObliged, Staff!Removed
  <2>5. entry'[e] = q /\ \A z \in Employees \ {e} : entry'[z] = entry[z]
    BY <2>4 DEF RegistryInv, Staff!TypeOK
  <2>6. o.eobi = r.eobi
    BY <1>10, <2>1, Overlaid
  <2>7. Follows(e)' /\ (q.state = "open" => x.state = "open" /\ q.eobi = x.eobi)
    BY <1>3, <1>9, <1>10, <1>11, <2>1, <2>3, <2>4, <2>5, <2>6 DEF Follows, Staff!NoEntry
  <2> QED
    BY <1>3, <1>7, <1>9, <2>5, <2>7, OneRequest, NobodySeen, FollowsKept
<1> QED
  BY <1>12, <1>13, <1>14

(* The entries that come from a roster, and the edits of entries. *)
LEMMA EobiRostered ==
  ASSUME RegistryInv, Staff!RegistryConstants, Staff!EobiIsFollowed, EobiInv, NEW t \in Callers,
         Staff!CommitManual(t) \/ Staff!CommitReconcile(t)
  PROVE  EobiInv'
<1>1. PICK c : c = request[t] /\ Carries(c)
  BY DEF RegistryInv
<1>2. /\ Staff!NoImports /\ c.kind \in {"manual", "reconcile"} /\ c.kind \in Alone
      /\ UNCHANGED <<employee, current, draft>> /\ request' = [request EXCEPT ![t] = Staff!Idle]
  BY <1>1 DEF Staff!EobiIsFollowed, Staff!NoImports, Carries, Staff!CommitManual, Staff!CommitReconcile,
     Staff!Step
<1>3. StillSo(t) /\ \A u \in Staff!Others(t) : request[u].pc = "idle"
  BY <1>1, <1>2 DEF RegistryInv, StillSo
<1>4. ASSUME NEW x \in Employees  PROVE Follows(x)'
  <2>1. Follows(x)
    BY DEF EobiInv, Staff!EobiAgrees, Follows
  <2>2. CASE Staff!CommitManual(t)
    <3>1. c.who \in Employees /\ c.seen = employee[c.who] /\ c.seen.present /\ c.kind = "manual"
      BY <1>1, <1>2, <1>3, <2>2 DEF Carries, StillSo, Staff!CommitManual
    <3>2. PICK b : b = c.seen.eobi
      OBVIOUS
    <3>3. entry' = entry \/ entry' = [entry EXCEPT ![c.who] = Staff!OpenEntry(b)]
      BY <1>1, <2>2, <3>2 DEF Staff!CommitManual
    <3>4. entry'[x] = entry[x] \/ (x = c.who /\ entry'[x] = Staff!OpenEntry(b))
      BY <3>1, <3>3 DEF RegistryInv, Staff!TypeOK
    <3> QED
      BY <1>2, <2>1, <3>1, <3>2, <3>4 DEF Follows, Staff!OpenEntry
  <2>3. CASE Staff!CommitReconcile(t)
    <3>1. c.kind = "reconcile" /\ \A y \in DOMAIN c.roster : c.roster[y] = employee[y] /\ employee[y].present
      BY <1>1, <1>2, <1>3, <2>3 DEF Carries, StillSo, Staff!CommitReconcile, Rostering
    <3>2. entry'[x] = entry[x] \/ (x \in DOMAIN c.roster /\ entry'[x] = Staff!OpenEntry(c.roster[x].eobi))
      BY <1>1, <2>3 DEF Staff!CommitReconcile
    <3> QED
      BY <1>2, <2>1, <3>1, <3>2 DEF Follows, Staff!OpenEntry
  <2> QED
    BY <2>2, <2>3
<1>5. \A u \in Callers : Settled(u)'
  <2>1. \A u \in Callers : request'[u].pc = "idle"
    BY <1>2, <1>3, OneRequest, NobodySeen DEF Staff!Others
  <2> QED
    BY <2>1 DEF Settled
<1> QED
  BY <1>4, <1>5 DEF EobiInv, Staff!EobiAgrees, Follows

LEMMA EobiEdited ==
  ASSUME RegistryInv, Staff!RegistryConstants, EobiInv, NEW x \in Employees, Staff!EntryStep(x)
  PROVE  EobiInv'
<1>1. PICK r \in Staff!EntryRecord : r = entry[x]
  BY DEF RegistryInv, Staff!TypeOK
<1>2. PICK s \in Staff!EmployeeRecord : s = employee[x]
  BY DEF RegistryInv, Staff!TypeOK
<1>3. PICK b \in BOOLEAN : b = ~r.eobi
  OBVIOUS
<1>4. PICK h \in BOOLEAN : h = ~r.hold
  OBVIOUS
<1>5. UNCHANGED <<current, draft, request>> /\ r.state = "open"
  BY <1>1 DEF Staff!EntryStep, Staff!EditEobi, Staff!Oblige, Staff!SwitchHold, Staff!Delete, Staff!Release
<1>6. PICK q1, q2, q3, q4, w : /\ q1 = [r EXCEPT !.eobi = b] /\ q2 = [r EXCEPT !.obliged = TRUE]
                               /\ q3 = [r EXCEPT !.hold = h] /\ q4 = [r EXCEPT !.state = "resolved"]
                               /\ w = [s EXCEPT !.eobi = b]
  OBVIOUS
<1>7. /\ q1.state = r.state /\ q1.eobi = b /\ q2.state = r.state /\ q2.eobi = r.eobi
      /\ q3.state = r.state /\ q3.eobi = r.eobi /\ q4.state = "resolved"
      /\ w.present = s.present /\ w.eobi = b
  BY <1>6 DEF Staff!EntryRecord, Staff!EmployeeRecord
<1>8. Follows(x) /\ \A u \in Callers : Settled(u)
  BY DEF EobiInv, Staff!EobiAgrees, Follows
<1>9. \E q \in {q1, q2, q3, q4, Staff!NoEntry} :
        /\ entry' = [entry EXCEPT ![x] = q]
        /\ \/ q = q1 /\ employee' = [employee EXCEPT ![x] = w] /\ (s.eobi # b => ~Staff!RowLocked(x))
           \/ q # q1 /\ employee' = employee
           \/ q \in {q2, q3, q4, Staff!NoEntry} /\ employee' = employee
  <2>1. CASE Staff!EditEobi(x)
    BY <1>1, <1>2, <1>3, <1>6, <2>1 DEF Staff!EditEobi
  <2>2. CASE Staff!Oblige(x)
    BY <1>1, <1>6, <2>2 DEF Staff!Oblige
  <2>3. CASE Staff!SwitchHold(x)
    BY <1>1, <1>4, <1>6, <2>3 DEF Staff!SwitchHold
  <2>4. CASE Staff!Delete(x)
    BY <2>4 DEF Staff!Delete, Staff!Removed
  <2>5. CASE Staff!Release(x)
    BY <1>1, <1>6, <2>5 DEF Staff!Release
  <2> QED
    BY <2>1, <2>2, <2>3, <2>4, <2>5 DEF Staff!EntryStep
<1>10. PICK q \in {q1, q2, q3, q4, Staff!NoEntry} :
         /\ entry'[x] = q /\ \A y \in Employees \ {x} : entry'[y] = entry[y] /\ employee'[y] = employee[y]
         /\ \/ q = q1 /\ employee'[x] = w /\ (s.eobi # b => ~Staff!RowLocked(x))
            \/ q \in {q2, q3, q4, Staff!NoEntry} /\ employee'[x] = s
  BY <1>2, <1>9 DEF RegistryInv, Staff!TypeOK
<1>11. Follows(x)'
  BY <1>1, <1>2, <1>5, <1>7, <1>8, <1>10 DEF Follows, Staff!NoEntry
<1>12. \A y \in Employees : Follows(y)'
  BY <1>5, <1>10, <1>11 DEF EobiInv, Staff!EobiAgrees, Follows
<1>13. \A u \in Callers : Settled(u)'
  <2>1. \A y \in Employees : entry'[y].state = "open" => entry[y].state = "open"
    BY <1>1, <1>5, <1>10
  <2>2. \A u \in Callers : request[u].kind \in Staff!Updating => request[u].who \in Employees
    BY DEF RegistryInv, Carries
  <2>3. ASSUME draft, q.state = "open", Staff!RowLocked(x)  PROVE q.eobi = r.eobi
    <3>1. r.eobi = s.eobi
      BY <1>1, <1>2, <1>5, <1>8, <2>3 DEF Follows
    <3> QED
      BY <1>3, <1>7, <1>10, <2>3, <3>1 DEF Staff!NoEntry
  <2>4. ASSUME NEW u \in Callers, request[u].pc = "write", request[u].kind \in Staff!Updating, draft,
               entry'[request[u].who].state = "open"
        PROVE  entry'[request[u].who].eobi = entry[request[u].who].eobi
    <3>1. CASE request[u].who # x
      BY <1>10, <2>2, <2>4, <3>1
    <3>2. CASE request[u].who = x
      BY <1>1, <1>10, <2>3, <2>4, <3>2 DEF Staff!RowLocked, Staff!Holds
    <3> QED
      BY <3>1, <3>2
  <2> QED
    BY <1>5, <1>8, <2>1, <2>2, <2>4 DEF Settled
<1> QED
  BY <1>12, <1>13 DEF EobiInv, Staff!EobiAgrees, Follows

LEMMA EobiNext ==
  ASSUME RegistryInv, Staff!RegistryConstants, Staff!EobiIsFollowed, EobiInv, [Staff!Next]_Staff!vars
  PROVE  EobiInv'
<1>1. CASE UNCHANGED Staff!vars
  BY <1>1 DEF Staff!vars, EobiInv, Staff!EobiAgrees, Settled
<1>2. ASSUME NEW t \in Callers, NEW q, request' = [request EXCEPT ![t] = q], Staff!Unchanged,
             q.pc = "write" /\ q.kind \in Staff!Updating => q.found = entry[q.who] /\ q.inCycle = IF draft THEN current ELSE 0
      PROVE  EobiInv'
  <2>1. request'[t] = q /\ \A u \in Staff!Others(t) : request'[u] = request[u]
    BY <1>2, OneRequest
  <2>2. \A u \in Callers : Settled(u)'
    BY <1>2, <2>1 DEF EobiInv, Settled, Staff!Unchanged, Staff!Others
  <2> QED
    BY <1>2, <2>2 DEF EobiInv, Staff!EobiAgrees, Staff!Unchanged
<1>3. ASSUME NEW t \in Callers, Staff!Request(t)  PROVE EobiInv'
  BY <1>2, <1>3, Asked DEF NewCall
<1>4. ASSUME NEW t \in Callers, Staff!Begin(t)  PROVE EobiInv'
  <2>1. PICK c : c = request[t] /\ IsCall(c)
    BY DEF RegistryInv, Carries
  <2>2. PICK n : n = IF draft THEN current ELSE 0
    OBVIOUS
  <2>3. PICK f : f = entry[c.who]
    OBVIOUS
  <2>4. PICK q : q = [c EXCEPT !.pc = "write", !.found = f, !.inCycle = n]
    OBVIOUS
  <2>5. q.found = f /\ q.inCycle = n /\ q.who = c.who
    BY <2>1, <2>4 DEF IsCall
  <2>6. request' = [request EXCEPT ![t] = q] /\ Staff!Unchanged
    BY <1>4, <2>1, <2>2, <2>3, <2>4 DEF Staff!Begin, Staff!Step
  <2> QED
    BY <1>2, <2>2, <2>3, <2>5, <2>6
<1>5. ASSUME NEW t \in Callers, Staff!Abort(t)  PROVE EobiInv'
  BY <1>2, <1>5, NobodySeen DEF Staff!Abort, Staff!Step
<1>6. ASSUME NEW t \in Callers, Staff!CommitImport(t) \/ Staff!CommitRollover(t)  PROVE FALSE
  BY <1>6 DEF Staff!CommitImport, Staff!CommitRollover, Staff!EobiIsFollowed, Staff!NoImports, RegistryInv,
     Carries
<1>7. ASSUME NEW t \in Callers, Staff!Serve(t)  PROVE EobiInv'
  BY <1>4, <1>5, <1>6, <1>7, EobiCommitted, EobiRostered DEF Staff!Serve
<1>8. CASE Staff!Finalize
  BY <1>8 DEF Staff!Finalize, EobiInv, Staff!EobiAgrees, Settled
<1> QED
  BY <1>1, <1>3, <1>7, <1>8, EobiEdited DEF Staff!Next

(* The open draft follows the registry. While the cycle does not change, and entries that    *)
(* come from a roster do not overlap with updates, EOBI of an entry and of its employee      *)
(* agree, however updates, departures and edits of entries overlap.                          *)
THEOREM EntriesFollow ==
  ASSUME Staff!RegistryConstants
  PROVE  Staff!Spec => []EntryFollowsEmployee
<1>1. Staff!RegistryConstants
  OBVIOUS
<1> DEFINE Inv == Staff!EobiIsFollowed => EobiInv
<1>2. Staff!Init => Inv
  <2>1. SUFFICES ASSUME Staff!Init  PROVE EobiInv
    OBVIOUS
  <2>2. ASSUME NEW e \in Employees
        PROVE  /\ entry[e].state = "open" => entry[e].eobi = employee[e].eobi
               /\ ~employee[e].present => entry[e].state = "none"
    BY <2>1 DEF Staff!Init, Staff!OpenEntry, Staff!NoEntry
  <2>3. \A t \in Callers : Settled(t)
    BY <1>1, <2>1, NobodySeen DEF Staff!Init, Settled
  <2> QED
    BY <2>2, <2>3 DEF EobiInv, Staff!EobiAgrees
<1>3. RegistryInv /\ Inv /\ [Staff!Next]_Staff!vars => Inv'
  BY <1>1, EobiNext
<1>4. Inv => EntryFollowsEmployee
  BY DEF EobiInv, EntryFollowsEmployee, Staff!EntryFollowsEmployee
<1>5. Staff!Spec => []RegistryInv
  BY <1>1, RegistryInvAlways
<1> QED
  <2> HIDE DEF Inv
  <2> QED
    BY <1>2, <1>3, <1>4, <1>5, PTL DEF Staff!Spec

(* Where departures and rosters overlap with nothing, no departure, reconciliation, return   *)
(* or rollover leaves somebody who has left with an entry that a sweep would pay: only an    *)
(* edit that lifts the hold of a leaver's open entry does.                                   *)
THEOREM LeaversStayUnpaid ==
  ASSUME Staff!RegistryConstants
  PROVE  Staff!Spec => LeaversUnpaid
<1>1. Staff!RegistryConstants
  OBVIOUS
<1>2. RegistryInv /\ [Staff!Next]_Staff!vars => [Staff!LeaversApart => Staff!LeaverStep]_rvars
  BY <1>1, LeaverNext
<1> QED
  BY <1>1, <1>2, RegistryInvAlways, PTL DEF Staff!Spec, LeaversUnpaid

=============================================================================
