------------------------ MODULE PayrollEntryEditingProofs ------------------------
(***************************************************************************)
(* For any entries, units, lines and callers: entries stay whole, nothing  *)
(* is overwritten, and work is kept.                                       *)
(*                                                                         *)
(* The invariant says of every request what it still knows: a request      *)
(* whose entry still has the version it read sees the entry and its lines  *)
(* as it read them, and what its checks found out still holds.  A step     *)
(* that writes an entry raises its version, so the others who have read it *)
(* know nothing any more and will be refused.  Bulk updates have no        *)
(* version; what they matched still fits where nothing overlaps with them. *)
(***************************************************************************)
EXTENDS PayrollEntryEditing, SumProofs

-----------------------------------------------------------------------------
(* The rows. *)

\* A number that was not given to a line yet is of no entry.
UnusedIsFree == \A l \in Lines \ used : line[l].entry = None

RowsTyped ==
  /\ entry \in [Entries -> EntryRecord]
  /\ line \in [Lines -> LineRecord]
  /\ used \in SUBSET Lines
  /\ assigned \in [Entries -> Units]
  /\ archived \in BOOLEAN

RowsOK == RowsTyped /\ UnusedIsFree /\ EntryIsWhole

(* The requests. *)

\* Nobody has written the entry of the request q since q read it.
Unwritten(q) == entry[q.entry].present /\ entry[q.entry].version = q.seen.row.version

\* What a request has read is still so, as long as nobody has written its entry.
Knows(q) ==
  /\ q.seen.row.version \in Nat /\ q.seen.row.version <= entry[q.entry].version
  /\ Unwritten(q) => Now(q.entry) = q.seen
  /\ q.kind \in {"update", "remove", "assign"} => q.line \in used /\ line[q.line].entry \in {q.entry, None}

\* What its checks have found out.
Checked(q) ==
  /\ q.kind \in Versioned /\ q.entry \in Entries
  /\ q.pc = "count" => q.kind = "remove"
  /\ q.pc = "fresh" => q.kind = "assign"
  /\ ~q.seen.row.resolved
  /\ q.kind = "edit" => q.change[2] \in Rates
  /\ q.kind = "add" => q.change[2] \in Units /\ SiteOf[q.change[2]] = q.seen.row.site
  /\ q.kind = "update" => /\ q.change[1] \in Fields /\ q.change[2] \in Values(q.change[1])
                          /\ q.change[1] = "unit" => SiteOf[q.change[2]] = q.seen.row.site
  /\ q.kind \in {"update", "remove", "assign"} => q.line \in DOMAIN q.seen.lines
  /\ q.kind = "assign" => DOMAIN q.seen.lines = {q.line} /\ q.seen.lines[q.line].days = 0
  /\ q.fresh \subseteq Units

\* A line that is about to be removed is not the last one.
Counted(q) ==
  q.kind = "remove" /\ q.pc = "write" /\ Unwritten(q) => \E k \in DOMAIN q.seen.lines : k # q.line

\* A bulk update writes to lines of the entries it matched, or to lines that are gone.
Matched(q) ==
  \A e \in DOMAIN q.matched :
    e \in Entries /\ q.matched[e].line \in used /\ line[q.matched[e].line].entry \in {e, None}

\* A request under way.
RequestOK(q) ==
  /\ DOMAIN q = DOMAIN Idle
  /\ q.pc \in Steps /\ q.kind \in Versioned \cup {"none", "bulk"}
  /\ q.pc \in {"count", "fresh", "write"} => Checked(q) /\ Knows(q) /\ Counted(q)
  /\ q.pc \in {"match", "bulk"} =>
       q.kind \in {"none", "bulk"} /\ q.change[1] \in {"rate", "basis"} /\ q.change[2] \in Values(q.change[1])
  /\ q.pc = "bulk" => Matched(q)

\* What a bulk update matched and checked, where nothing overlaps with it.
Fitting(q) ==
  \A e \in DOMAIN q.matched :
    /\ entry[e].present /\ ~entry[e].resolved
    /\ q.matched[e].line = Primary(e)
    /\ \A b \in Bases : q.change[1] = "basis" /\ q.change[2] = b => Fits(Rebased(e, b))

BulkAlone ==
  ~BulkOverlaps => \A t \in Callers : call[t].pc = "bulk" =>
    Fitting(call[t]) /\ \A s \in Callers : call[s].pc = "bulk" => s = t

EditingInv ==
  /\ RowsOK
  /\ DOMAIN call = Callers /\ \A t \in Callers : RequestOK(call[t])
  /\ BulkAlone

-----------------------------------------------------------------------------
\* A cycle as it was created satisfies the invariant.
LEMMA InitEditing == Init => EditingInv
<1> SUFFICES ASSUME Init PROVE EditingInv
  OBVIOUS
<1>1. RowsTyped
  <2>1. \A s \in Sites, r \in Rates : NewEntry(s, r) \in EntryRecord
    BY DEF NewEntry, EntryRecord
  <2>2. entry \in [Entries -> EntryRecord]
    BY <2>1 DEF Init
  <2>3. line \in [Lines -> LineRecord] /\ assigned \in [Entries -> Units] /\ archived = FALSE
    <3>1. line \in [Lines -> LineRecord]
      BY DEF Init
    <3>2. assigned \in [Entries -> Units]
      BY DEF Init
    <3>3. archived = FALSE
      BY DEF Init
    <3> QED
      BY <3>1, <3>2, <3>3
  <2>4. used \in SUBSET Lines
    BY DEF Init
  <2> QED
    BY <2>2, <2>3, <2>4 DEF RowsTyped
<1>2. UnusedIsFree /\ AtLeastOneLine /\ DaysWithinCycle
  BY DEF Init, UnusedIsFree, AtLeastOneLine, DaysWithinCycle
<1>3. LinesAtEntrySite
  <2>1. \A e \in Entries : entry[e].present
    BY DEF Init, NewEntry
  <2>2. \A l \in Lines : line[l].entry # None => line[l].entry \in Entries
    BY DEF Init, LineRecord
  <2>3. \A l \in Lines : line[l].entry # None => l \in used
    BY DEF Init
  <2> QED
    BY <2>1, <2>2, <2>3 DEF Init, LinesAtEntrySite
<1>4. \A t \in Callers : call[t] = Idle
  BY DEF Init
<1>5. RequestOK(Idle) /\ Idle.pc = "idle"
  BY DEF RequestOK, Idle, Steps
<1> QED
  BY <1>1, <1>2, <1>3, <1>4, <1>5 DEF Init, EditingInv, RowsOK, EntryIsWhole, BulkAlone

-----------------------------------------------------------------------------
(* What a step leaves of the rows that others have read. *)
Steady ==
  /\ used \subseteq used'
  /\ \A l \in used : line'[l].entry = line[l].entry \/ line'[l].entry = None
  /\ \A e \in Entries : /\ entry'[e].present => entry[e].present
                        /\ entry[e].version \in Nat /\ entry'[e].version \in Nat
                        /\ entry[e].version <= entry'[e].version
                        /\ entry'[e].present /\ entry'[e].version = entry[e].version => Now(e)' = Now(e)

\* A step that leaves the rows steady leaves what every request knows.
LEMMA OthersKeep ==
  ASSUME Steady, NEW q, RequestOK(q)
  PROVE  RequestOK(q)'
<1>1. ASSUME q.pc \in {"count", "fresh", "write"} PROVE Knows(q)' /\ Counted(q)'
  <2>1. q.entry \in Entries /\ Knows(q) /\ Counted(q)
    BY <1>1 DEF RequestOK, Checked
  <2>2. PICK e \in Entries : e = q.entry
    BY <2>1
  <2>3. PICK v \in Nat : v = q.seen.row.version
    BY <2>1 DEF Knows
  <2>4. v <= entry[e].version
    BY <2>1, <2>2, <2>3 DEF Knows
  <2>5. /\ entry'[e].present => entry[e].present
        /\ entry[e].version \in Nat /\ entry'[e].version \in Nat /\ entry[e].version <= entry'[e].version
        /\ entry'[e].present /\ entry'[e].version = entry[e].version => Now(e)' = Now(e)
    BY DEF Steady
  <2>6. v <= entry'[e].version
    BY <2>4, <2>5
  <2>7. entry'[e].present /\ entry'[e].version = v => entry[e].present /\ entry[e].version = v /\ Now(e)' = Now(e)
    BY <2>4, <2>5
  <2>8. Unwritten(q)' => Unwritten(q) /\ Now(e)' = Now(e)
    BY <2>2, <2>3, <2>7 DEF Unwritten
  <2>9. Counted(q)'
    BY <2>1, <2>8 DEF Counted
  <2>10. Unwritten(q) => Now(e) = q.seen
    BY <2>1, <2>2 DEF Knows
  <2>11. Unwritten(q)' => Now(e)' = q.seen
    BY <2>8, <2>10
  <2>12. Unwritten(q)' => Now(q.entry)' = q.seen
    BY <2>2, <2>11 DEF Now, LinesOf
  <2>13. q.kind \in {"update", "remove", "assign"} => q.line \in used' /\ line'[q.line].entry \in {q.entry, None}
    BY <2>1 DEF Knows, Steady
  <2> QED
    BY <2>2, <2>3, <2>6, <2>9, <2>12, <2>13 DEF Knows
<1>2. ASSUME q.pc = "bulk" PROVE Matched(q)'
  BY <1>2 DEF RequestOK, Matched, Steady
<1> QED
  BY <1>1, <1>2 DEF RequestOK, Checked, Values

-----------------------------------------------------------------------------
(* What a step does to the rows. *)

\* The entry e is written, and of the lines only its own.
Written(e) ==
  /\ \A x \in Entries \ {e} : entry'[x] = entry[x] /\ LinesOf(x)' = LinesOf(x)
  /\ entry'[e].present => entry[e].present /\ entry'[e].version = entry[e].version + 1
  /\ entry'[e].version \in Nat /\ entry[e].version <= entry'[e].version
  /\ used \subseteq used'
  /\ \A l \in used : line'[l].entry = line[l].entry \/ line'[l].entry = None

\* Writing one entry, under a new version, leaves the rows steady.
LEMMA WrittenSteady ==
  ASSUME RowsTyped, NEW e \in Entries, Written(e)
  PROVE  Steady
<1>1. \A x \in Entries : entry[x].version \in Nat
  BY DEF RowsTyped, EntryRecord
<1>2. ASSUME NEW x \in Entries \ {e} PROVE entry'[x] = entry[x] /\ Now(x)' = Now(x)
  <2>1. entry'[x] = entry[x] /\ LinesOf(x)' = LinesOf(x)
    BY DEF Written
  <2> QED
    BY <2>1 DEF Now
<1>3. /\ entry'[e].present => entry[e].present
      /\ entry'[e].version \in Nat /\ entry[e].version <= entry'[e].version
      /\ ~(entry'[e].present /\ entry'[e].version = entry[e].version)
  BY <1>1 DEF Written
<1>4. used \subseteq used' /\ \A l \in used : line'[l].entry = line[l].entry \/ line'[l].entry = None
  BY DEF Written
<1> QED
  BY <1>1, <1>2, <1>3, <1>4 DEF Steady

\* The entry e is whole.
Whole(e) ==
  /\ entry[e].present => DOMAIN LinesOf(e) # {}
  /\ \A l \in DOMAIN LinesOf(e) : entry[e].present /\ SiteOf[line[l].unit] = entry[e].site
  /\ ~BulkOverlaps => Fits(LinesOf(e))

\* The property, entry by entry.
LEMMA WholeByEntry == line \in [Lines -> LineRecord] => (EntryIsWhole <=> \A e \in Entries : Whole(e))
<1> SUFFICES ASSUME line \in [Lines -> LineRecord] PROVE EntryIsWhole <=> \A e \in Entries : Whole(e)
  OBVIOUS
<1>1. \A l \in Lines : line[l].entry \in Entries \cup {None}
  BY DEF LineRecord
<1>2. \A e \in Entries : DOMAIN LinesOf(e) = {l \in Lines : line[l].entry = e}
  BY DEF LinesOf
<1>3. \A e \in Entries : e # None
  BY OtherAssumption
<1>4. LinesAtEntrySite <=> \A e \in Entries : \A l \in DOMAIN LinesOf(e) :
                             entry[e].present /\ SiteOf[line[l].unit] = entry[e].site
  BY <1>1, <1>2, <1>3 DEF LinesAtEntrySite
<1> QED
  BY <1>4 DEF EntryIsWhole, AtLeastOneLine, DaysWithinCycle, Whole

\* If the entry that is written is whole afterwards, all entries are.
LEMMA WrittenRows ==
  ASSUME RowsOK, NEW w \in Entries, Written(w), Whole(w)', RowsTyped', UnusedIsFree'
  PROVE  RowsOK'
<1>1. \A x \in Entries : Whole(x)
  BY WholeByEntry DEF RowsOK, RowsTyped
<1>2. ASSUME NEW x \in Entries \ {w} PROVE Whole(x)'
  <2>1. entry'[x] = entry[x] /\ LinesOf(x)' = LinesOf(x)
    BY DEF Written
  <2>2. DOMAIN LinesOf(x) = {l \in Lines : line[l].entry = x} /\ DOMAIN LinesOf(x)' = {l \in Lines : line'[l].entry = x}
    BY DEF LinesOf
  <2>3. \A l \in DOMAIN LinesOf(x) : LinesOf(x)[l] = line[l]
    BY DEF LinesOf
  <2>4. \A l \in DOMAIN LinesOf(x)' : LinesOf(x)'[l] = line'[l]
    BY DEF LinesOf
  <2>5. \A l \in DOMAIN LinesOf(x) : line'[l] = line[l]
    BY <2>1, <2>3, <2>4
  <2>6. Whole(x)
    BY <1>1
  <2>7. entry'[x].present => DOMAIN LinesOf(x)' # {}
    BY <2>1, <2>6 DEF Whole
  <2>8. \A l \in DOMAIN LinesOf(x)' : entry'[x].present /\ SiteOf[line'[l].unit] = entry'[x].site
    BY <2>1, <2>5, <2>6 DEF Whole
  <2>9. ~BulkOverlaps => Fits(LinesOf(x)')
    BY <2>1, <2>6 DEF Whole
  <2> QED
    BY <2>7, <2>8, <2>9 DEF Whole, Fits, LinesOf
<1>3. \A x \in Entries : Whole(x)'
  BY <1>2
<1>4. line' \in [Lines -> LineRecord]
  BY DEF RowsTyped
<1>5. (line \in [Lines -> LineRecord] => (EntryIsWhole <=> \A e \in Entries : Whole(e)))'
  BY WholeByEntry, PTL
<1> QED
  BY <1>3, <1>4, <1>5 DEF RowsOK

\* The caller t goes on to r: the others know what they knew.
LEMMA CallStep ==
  ASSUME EditingInv, NEW t \in Callers, NEW r, call' = [call EXCEPT ![t] = r],
         Steady, RowsOK', RequestOK(r)', r.pc # "bulk",
         ~BulkOverlaps => \A s \in Callers \ {t} : call[s].pc # "bulk"
  PROVE  EditingInv'
<1>1. DOMAIN call' = Callers /\ call'[t] = r /\ \A s \in Callers \ {t} : call'[s] = call[s]
  BY DEF EditingInv
<1>2. ASSUME NEW s \in Callers PROVE RequestOK(call[s])'
  <2>1. PICK q : q = call'[s]
    OBVIOUS
  <2>2. RequestOK(q)'
    <3>1. CASE s = t
      <4>1. q = r
        BY <1>1, <2>1, <3>1
      <4> QED
        BY <4>1
    <3>2. CASE s # t
      <4>1. q = call[s]
        BY <1>1, <2>1, <3>2
      <4>2. RequestOK(q)
        BY <4>1 DEF EditingInv
      <4> QED
        BY <4>2, OthersKeep
    <3> QED
      BY <3>1, <3>2
  <2> QED
    BY <2>1, <2>2 DEF RequestOK, Checked, Knows, Counted, Matched, Unwritten, Now, LinesOf
<1>3. ~BulkOverlaps => \A s \in Callers : call'[s].pc # "bulk"
  BY <1>1
<1>4. BulkAlone'
  BY <1>3 DEF BulkAlone
<1> QED
  BY <1>1, <1>2, <1>4 DEF EditingInv

\* Nothing is written.
LEMMA StillSteady ==
  ASSUME RowsOK, UNCHANGED <<entry, line>>, used \subseteq used'
  PROVE  Steady
<1>1. \A e \in Entries : entry[e].version \in Nat
  BY DEF RowsOK, RowsTyped, EntryRecord
<1> QED
  BY <1>1 DEF Steady, Now, LinesOf

\* Nor do the rows change.
LEMMA StillRows ==
  ASSUME RowsOK, UNCHANGED <<entry, line, used, archived, assigned>>
  PROVE  RowsOK'
<1>1. RowsTyped' /\ UnusedIsFree'
  BY DEF RowsOK, RowsTyped, UnusedIsFree
<1>2. EntryIsWhole'
  BY DEF RowsOK, EntryIsWhole, AtLeastOneLine, LinesAtEntrySite, DaysWithinCycle, LinesOf, Fits
<1> QED
  BY <1>1, <1>2 DEF RowsOK

\* The caller has no request any more.
LEMMA IdleOK == RequestOK(Idle)' /\ Idle.pc = "idle" /\ Idle.kind = "none"
  BY DEF RequestOK, Idle, Steps

-----------------------------------------------------------------------------
(* Requests. *)

\* The fields of a request that was just read.
LEMMA ReadFields ==
  ASSUME NEW k, NEW p, NEW e, NEW l, NEW c, NEW r, r = Read(k, p, e, l, c)
  PROVE  /\ DOMAIN r = DOMAIN Idle
         /\ r.kind = k /\ r.pc = p /\ r.entry = e /\ r.line = l /\ r.change = c
         /\ r.seen = Now(e) /\ r.fresh = {} /\ r.matched = <<>>
  BY DEF Read, Idle

\* What a request has just read is so.
LEMMA ReadKnows ==
  ASSUME RowsOK, NEW k \in Versioned, NEW p \in {"count", "fresh", "write"}, NEW e \in Entries, NEW l, NEW c,
         NEW r, r = Read(k, p, e, l, c),
         Editable(e),
         p = "count" => k = "remove", p = "fresh" => k = "assign", p = "write" => k # "remove",
         k = "edit" => c[2] \in Rates,
         k = "add" => c[2] \in Units /\ SiteOf[c[2]] = entry[e].site,
         k = "update" => c[1] \in Fields /\ c[2] \in Values(c[1]) /\ (c[1] = "unit" => SiteOf[c[2]] = entry[e].site),
         k \in {"update", "remove", "assign"} => l \in DOMAIN LinesOf(e),
         k = "assign" => DOMAIN LinesOf(e) = {l} /\ NotWorked(l)
  PROVE  RequestOK(r)
<1>1. /\ DOMAIN r = DOMAIN Idle
      /\ r.kind = k /\ r.pc = p /\ r.entry = e /\ r.line = l /\ r.change = c
      /\ r.seen = Now(e) /\ r.fresh = {}
  BY ReadFields
<1>2. r.seen.row = entry[e] /\ r.seen.lines = LinesOf(e)
  BY <1>1 DEF Now
<1>3. entry[e].version \in Nat
  BY DEF RowsOK, RowsTyped, EntryRecord
<1>4. DOMAIN LinesOf(e) = {x \in Lines : line[x].entry = e} /\ \A x \in DOMAIN LinesOf(e) : LinesOf(e)[x] = line[x]
  BY DEF LinesOf
<1>5. \A x \in DOMAIN LinesOf(e) : x \in used /\ line[x].entry = e
  BY <1>4, OtherAssumption DEF RowsOK, RowsTyped, UnusedIsFree
<1>6. Knows(r)
  BY <1>1, <1>2, <1>3, <1>5 DEF Knows
<1>7. Checked(r)
  BY <1>1, <1>2, <1>4 DEF Checked, Editable, NotWorked
<1>8. Counted(r)
  BY <1>1 DEF Counted
<1> QED
  BY <1>1, <1>6, <1>7, <1>8 DEF RequestOK, Steps, Versioned

\* A request that was just read starts.
LEMMA RequestStarts ==
  ASSUME EditingInv, NEW t \in Callers, NEW r, RequestOK(r), Step(t, r), r.pc # "bulk",
         ~BulkOverlaps => Quiet, UNCHANGED <<entry, line, used, assigned, archived>>
  PROVE  EditingInv'
<1>1. RowsOK' /\ Steady
  BY StillRows, StillSteady DEF EditingInv
<1>2. call' = [call EXCEPT ![t] = r]
  BY DEF Step
<1>3. RequestOK(r)'
  BY <1>1, OthersKeep
<1> QED
  BY <1>1, <1>2, <1>3, CallStep DEF Quiet

\* The first line of an entry is one of its lines.
LEMMA PrimaryIsLine ==
  ASSUME NEW e \in Entries, DOMAIN LinesOf(e) # {}
  PROVE  Primary(e) \in DOMAIN LinesOf(e)
<1>1. PICK S : S = DOMAIN LinesOf(e)
  OBVIOUS
<1>2. S \subseteq Nat
  BY <1>1, LinesAssumption DEF LinesOf
<1>3. \E n \in S : \A m \in S : n <= m
  BY <1>1, <1>2, LeastNatural
<1>4. Min(S) \in S
  BY <1>3 DEF Min
<1> QED
  BY <1>1, <1>4 DEF Primary

\* Every request begins with what it has read and checked.
LEMMA EditingRequest ==
  ASSUME EditingInv, NEW t \in Callers, Request(t), ~BulkOverlaps => Quiet
  PROVE  EditingInv'
<1>0. RowsOK
  BY DEF EditingInv
<1>1. CASE \E e \in Entries : \E v \in Rates : RequestEdit(t, e, v)
  <2>1. PICK e \in Entries, v \in Rates : RequestEdit(t, e, v)
    BY <1>1
  <2>2. PICK c : c = <<"rate", v>>
    OBVIOUS
  <2>3. PICK r : r = Read("edit", "write", e, 0, c)
    OBVIOUS
  <2>4. c[2] \in Rates
    BY <2>2
  <2>5. Editable(e) /\ Step(t, r) /\ UNCHANGED <<entry, line, used, assigned, archived>>
    BY <2>1, <2>2, <2>3 DEF RequestEdit, Receives
  <2>6. RequestOK(r)
    BY <1>0, <2>3, <2>4, <2>5, ReadKnows DEF Versioned
  <2>7. r.pc # "bulk"
    BY <2>3, ReadFields
  <2> QED
    BY <2>5, <2>6, <2>7, RequestStarts
<1>2. CASE \E e \in Entries : \E u \in Units : RequestAdd(t, e, u)
  <2>1. PICK e \in Entries, u \in Units : RequestAdd(t, e, u)
    BY <1>2
  <2>2. PICK c : c = <<"unit", u>>
    OBVIOUS
  <2>3. PICK r : r = Read("add", "write", e, 0, c)
    OBVIOUS
  <2>4. c[2] \in Units /\ SiteOf[c[2]] = entry[e].site
    BY <2>1, <2>2 DEF RequestAdd
  <2>5. Editable(e) /\ Step(t, r) /\ UNCHANGED <<entry, line, used, assigned, archived>>
    BY <2>1, <2>2, <2>3 DEF RequestAdd, Receives
  <2>6. RequestOK(r)
    BY <1>0, <2>3, <2>4, <2>5, ReadKnows DEF Versioned
  <2>7. r.pc # "bulk"
    BY <2>3, ReadFields
  <2> QED
    BY <2>5, <2>6, <2>7, RequestStarts
<1>3. CASE \E e \in Entries : RequestAssign(t, e)
  <2>1. PICK e \in Entries : RequestAssign(t, e)
    BY <1>3
  <2>2. PICK l : l = Primary(e)
    OBVIOUS
  <2>3. PICK r : r = Read("assign", "fresh", e, l, <<"none", 0>>)
    OBVIOUS
  <2>4. Editable(e) /\ Step(t, r) /\ UNCHANGED <<entry, line, used, assigned, archived>> /\ NotWorked(l)
    BY <2>1, <2>2, <2>3 DEF RequestAssign, Receives
  <2>5. DOMAIN LinesOf(e) = {l}
    <3>1. Cardinality(DOMAIN LinesOf(e)) = 1
      BY <2>1 DEF RequestAssign
    <3>2. IsFiniteSet(DOMAIN LinesOf(e))
      BY LinesAssumption, FS_Subset DEF LinesOf
    <3>3. PICK x : DOMAIN LinesOf(e) = {x}
      BY <3>1, <3>2, FS_Singleton
    <3>4. l \in DOMAIN LinesOf(e)
      BY <2>2, <3>3, PrimaryIsLine
    <3> QED
      BY <3>3, <3>4
  <2>6. RequestOK(r)
    BY <1>0, <2>3, <2>4, <2>5, ReadKnows DEF Versioned
  <2>7. r.pc # "bulk"
    BY <2>3, ReadFields
  <2> QED
    BY <2>4, <2>6, <2>7, RequestStarts
<1>4. CASE \E e \in Entries : RequestDelete(t, e)
  <2>1. PICK e \in Entries : RequestDelete(t, e)
    BY <1>4
  <2>2. PICK r : r = Read("delete", "write", e, 0, <<"none", 0>>)
    OBVIOUS
  <2>3. Editable(e) /\ Step(t, r) /\ UNCHANGED <<entry, line, used, assigned, archived>>
    BY <2>1, <2>2 DEF RequestDelete, Receives
  <2>4. RequestOK(r)
    BY <1>0, <2>2, <2>3, ReadKnows DEF Versioned
  <2>5. r.pc # "bulk"
    BY <2>2, ReadFields
  <2> QED
    BY <2>3, <2>4, <2>5, RequestStarts
<1>5. ASSUME NEW l \in Lines, line[l].entry # None PROVE line[l].entry \in Entries /\ l \in DOMAIN LinesOf(line[l].entry)
  BY <1>0, <1>5 DEF RowsOK, RowsTyped, LineRecord, LinesOf
<1>6. CASE \E l \in Lines : RequestRemove(t, l)
  <2>1. PICK l \in Lines : RequestRemove(t, l)
    BY <1>6
  <2>2. PICK e \in Entries : e = line[l].entry
    BY <1>5, <2>1 DEF RequestRemove
  <2>3. PICK r : r = Read("remove", "count", e, l, <<"none", 0>>)
    OBVIOUS
  <2>4. /\ Editable(e) /\ Step(t, r) /\ UNCHANGED <<entry, line, used, assigned, archived>>
        /\ l \in DOMAIN LinesOf(e)
    BY <1>5, <2>1, <2>2, <2>3 DEF RequestRemove, Receives
  <2>5. RequestOK(r)
    BY <1>0, <2>3, <2>4, ReadKnows DEF Versioned
  <2>6. r.pc # "bulk"
    BY <2>3, ReadFields
  <2> QED
    BY <2>4, <2>5, <2>6, RequestStarts
<1>7. CASE \E l \in Lines : \E f \in Fields : \E v \in Values(f) : RequestUpdate(t, l, f, v)
  <2>a. PICK l \in Lines, f \in Fields : \E v \in Values(f) : RequestUpdate(t, l, f, v)
    BY <1>7
  <2>1. PICK v \in Values(f) : RequestUpdate(t, l, f, v)
    BY <2>a
  <2>2. PICK e \in Entries : e = line[l].entry
    BY <1>5, <2>1 DEF RequestUpdate
  <2>3. PICK c : c = <<f, v>>
    OBVIOUS
  <2>4. PICK r : r = Read("update", "write", e, l, c)
    OBVIOUS
  <2>5. c[1] \in Fields /\ c[2] \in Values(c[1]) /\ (c[1] = "unit" => SiteOf[c[2]] = entry[e].site)
    BY <2>1, <2>2, <2>3 DEF RequestUpdate
  <2>6. /\ Editable(e) /\ Step(t, r) /\ UNCHANGED <<entry, line, used, assigned, archived>>
        /\ l \in DOMAIN LinesOf(e)
    BY <1>5, <2>1, <2>2, <2>3, <2>4 DEF RequestUpdate, Receives
  <2>7. RequestOK(r)
    BY <1>0, <2>4, <2>5, <2>6, ReadKnows DEF Versioned
  <2>8. r.pc # "bulk"
    BY <2>4, ReadFields
  <2> QED
    BY <2>6, <2>7, <2>8, RequestStarts
<1>8. CASE \E f \in {"rate", "basis"} : \E v \in Values(f) : RequestBulk(t, f, v)
  <2>a. PICK f \in {"rate", "basis"} : \E v \in Values(f) : RequestBulk(t, f, v)
    BY <1>8
  <2>1. PICK v \in Values(f) : RequestBulk(t, f, v)
    BY <2>a
  <2>2. PICK c : c = <<f, v>>
    OBVIOUS
  <2>3. PICK k \in {"none", "bulk"} : k = IF archived THEN "none" ELSE "bulk"
    OBVIOUS
  <2>4. PICK r : r = [Idle EXCEPT !.kind = k, !.pc = "match", !.change = c]
    OBVIOUS
  <2>5. DOMAIN r = DOMAIN Idle /\ r.kind = k /\ r.pc = "match" /\ r.change = c
    BY <2>4 DEF Idle
  <2>6. c[1] \in {"rate", "basis"} /\ c[2] \in Values(c[1])
    BY <2>1, <2>2
  <2>7. RequestOK(r)
    BY <2>3, <2>5, <2>6 DEF RequestOK, Steps
  <2>8. Step(t, r) /\ UNCHANGED <<entry, line, used, assigned, archived>>
    BY <2>1, <2>2, <2>3, <2>4 DEF RequestBulk
  <2> QED
    BY <2>5, <2>7, <2>8, RequestStarts
<1> QED
  BY <1>1, <1>2, <1>3, <1>4, <1>6, <1>7, <1>8 DEF Request

\* The next step of a request that has been checked.
LEMMA Onward ==
  ASSUME NEW q, RequestOK(q), q.pc \in {"count", "fresh"},
         NEW r, r = [q EXCEPT !.pc = "write", !.fresh = r.fresh], r.fresh \subseteq Units, Counted(r)
  PROVE  RequestOK(r) /\ r.pc = "write"
<1>1. /\ DOMAIN r = DOMAIN Idle /\ DOMAIN q = DOMAIN Idle
      /\ Checked(q) /\ Knows(q)
  BY DEF RequestOK
<1>2. DOMAIN Idle = {"kind", "pc", "entry", "line", "change", "seen", "fresh", "matched"}
  BY DEF Idle
<1>3. /\ r.pc = "write"
      /\ r.kind = q.kind /\ r.entry = q.entry /\ r.line = q.line /\ r.change = q.change /\ r.seen = q.seen
  BY <1>1, <1>2
<1>4. Checked(r)
  BY <1>1, <1>3 DEF Checked
<1>5. Knows(r)
  BY <1>1, <1>3 DEF Knows, Unwritten
<1> QED
  BY <1>1, <1>3, <1>4, <1>5 DEF RequestOK, Steps, Checked

\* Nothing more is to be done.
LEMMA GivesUp ==
  ASSUME EditingInv, NEW t \in Callers, Step(t, Idle), ~BulkOverlaps => Quiet,
         UNCHANGED <<entry, line, used, assigned, archived>>
  PROVE  EditingInv'
<1>1. RequestOK(Idle) /\ Idle.pc # "bulk"
  BY DEF RequestOK, Idle, Steps
<1> QED
  BY <1>1, RequestStarts

(* The reads of a transaction. *)

\* A removal counts the lines.
LEMMA EditingCount ==
  ASSUME EditingInv, NEW t \in Callers, CountLines(t), ~BulkOverlaps => Quiet
  PROVE  EditingInv'
<1>1. PICK q : q = call[t]
  OBVIOUS
<1>2. RequestOK(q) /\ q.pc = "count"
  BY <1>1 DEF EditingInv, CountLines
<1>3. UNCHANGED <<entry, line, used, assigned, archived>>
  BY DEF CountLines
<1>4. CASE Cardinality(DOMAIN LinesOf(q.entry)) > 1
  <2>1. PICK r : r = [q EXCEPT !.pc = "write"]
    OBVIOUS
  <2>2. Step(t, r)
    BY <1>1, <1>4, <2>1 DEF CountLines
  <2>3. DOMAIN q = {"kind", "pc", "entry", "line", "change", "seen", "fresh", "matched"} /\ Checked(q) /\ Knows(q)
    BY <1>2 DEF RequestOK, Idle
  <2>4. /\ r.fresh = q.fresh /\ r.kind = q.kind /\ r.entry = q.entry /\ r.line = q.line /\ r.seen = q.seen
        /\ r = [q EXCEPT !.pc = "write", !.fresh = r.fresh]
    BY <2>1, <2>3
  <2>5. r.fresh \subseteq Units
    BY <2>3, <2>4 DEF Checked
  <2>6. Counted(r)
    <3>1. SUFFICES ASSUME Unwritten(q) PROVE \E k \in DOMAIN q.seen.lines : k # q.line
      BY <2>4 DEF Counted, Unwritten
    <3>2. q.seen.lines = LinesOf(q.entry)
      BY <2>3, <3>1 DEF Knows, Now
    <3>3. PICK D : D = DOMAIN LinesOf(q.entry)
      OBVIOUS
    <3>4. SUFFICES ASSUME D \subseteq {q.line} PROVE FALSE
      BY <3>2, <3>3
    <3>5. D = {} \/ D = {q.line}
      BY <3>4
    <3>6. Cardinality(D) = 0 \/ Cardinality(D) = 1
      BY <3>5, FS_EmptySet, FS_Singleton
    <3> QED
      BY <1>4, <3>3, <3>6
  <2>7. RequestOK(r) /\ r.pc = "write"
    BY <1>2, <2>4, <2>5, <2>6, Onward
  <2> QED
    BY <1>3, <2>2, <2>7, RequestStarts
<1>5. CASE ~(Cardinality(DOMAIN LinesOf(q.entry)) > 1)
  <2>1. Step(t, Idle)
    BY <1>1, <1>5 DEF CountLines
  <2> QED
    BY <1>3, <2>1, GivesUp
<1> QED
  BY <1>4, <1>5

\* An assignment is read again.
LEMMA EditingFresh ==
  ASSUME EditingInv, NEW t \in Callers, ReadFresh(t), ~BulkOverlaps => Quiet
  PROVE  EditingInv'
<1>1. PICK q : q = call[t]
  OBVIOUS
<1>2. RequestOK(q) /\ q.pc = "fresh"
  BY <1>1 DEF EditingInv, ReadFresh
<1>3. UNCHANGED <<entry, line, used, assigned, archived>>
  BY DEF ReadFresh
<1>4. CASE line[q.line].entry # None /\ NotWorked(q.line)
  <2>1. PICK r : r = [q EXCEPT !.pc = "write", !.fresh = {assigned[q.entry]}]
    OBVIOUS
  <2>2. Step(t, r)
    BY <1>1, <1>4, <2>1 DEF ReadFresh
  <2>3. DOMAIN q = {"kind", "pc", "entry", "line", "change", "seen", "fresh", "matched"} /\ Checked(q)
    BY <1>2 DEF RequestOK, Idle
  <2>4. r.fresh = {assigned[q.entry]} /\ r.kind = q.kind
    BY <2>1, <2>3
  <2>5. r = [q EXCEPT !.pc = "write", !.fresh = r.fresh]
    BY <2>1, <2>4
  <2>6. q.kind = "assign" /\ q.entry \in Entries
    BY <1>2, <2>3 DEF Checked
  <2>7. r.fresh \subseteq Units
    BY <2>4, <2>6 DEF EditingInv, RowsOK, RowsTyped
  <2>8. Counted(r)
    BY <2>4, <2>6 DEF Counted
  <2>9. RequestOK(r) /\ r.pc = "write"
    BY <1>2, <2>5, <2>7, <2>8, Onward
  <2> QED
    BY <1>3, <2>2, <2>9, RequestStarts
<1>5. CASE ~(line[q.line].entry # None /\ NotWorked(q.line))
  <2>1. Step(t, Idle)
    BY <1>1, <1>5 DEF ReadFresh
  <2> QED
    BY <1>3, <2>1, GivesUp
<1> QED
  BY <1>4, <1>5

\* A transaction fails.
LEMMA EditingAbort ==
  ASSUME EditingInv, NEW t \in Callers, Abort(t), ~BulkOverlaps => Quiet
  PROVE  EditingInv'
  BY GivesUp DEF Abort

\* What is said about the lines of an entry stays so while they are not written.
LEMMA LineSame ==
  ASSUME line' = line, NEW e, NEW b
  PROVE  Primary(e)' = Primary(e) /\ (Fits(Rebased(e, b)) => Fits(Rebased(e, b))')
<1>1. LinesOf(e)' = LinesOf(e)
  BY DEF LinesOf
<1>2. Primary(e)' = Primary(e)
  BY <1>1 DEF Primary
<1>3. Rebased(e, b)' = Rebased(e, b)
  BY <1>1, <1>2 DEF Rebased
<1> QED
  BY <1>2, <1>3 DEF Fits

\* A bulk update reads what it will write.
LEMMA EditingMatch ==
  ASSUME EditingInv, NEW t \in Callers, Match(t), ~BulkOverlaps => Quiet
  PROVE  EditingInv'
<1>1. PICK q : q = call[t]
  OBVIOUS
<1>2. RequestOK(q) /\ q.pc = "match"
  BY <1>1 DEF EditingInv, Match
<1>3. UNCHANGED <<entry, line, used, assigned, archived>>
  BY DEF Match
<1>4. PICK f, v : f = q.change[1] /\ v = q.change[2]
  OBVIOUS
<1>5. PICK Open : Open = {e \in Entries : q.kind = "bulk" /\ entry[e].present /\ ~entry[e].resolved /\ entry[e].version < MaxVersion}
  OBVIOUS
<1>6. CASE Open = {} \/ (f = "basis" /\ \E e \in Open : ~Fits(Rebased(e, v)))
  <2>1. Step(t, Idle)
    BY <1>1, <1>4, <1>5, <1>6 DEF Match
  <2> QED
    BY <1>3, <2>1, GivesUp
<1>7. CASE ~(Open = {} \/ (f = "basis" /\ \E e \in Open : ~Fits(Rebased(e, v))))
  <2>1. PICK M : M = [e \in Open |-> [line |-> Primary(e),
                                        old  |-> IF f = "rate" THEN entry[e].rate
                                                 ELSE line[Primary(e)].basis]]
    OBVIOUS
  <2>2. PICK r : r = [q EXCEPT !.pc = "bulk", !.matched = M]
    OBVIOUS
  <2>3. call' = [call EXCEPT ![t] = r]
    BY <1>1, <1>4, <1>5, <1>7, <2>1, <2>2 DEF Match, Step
  <2>4. DOMAIN q = {"kind", "pc", "entry", "line", "change", "seen", "fresh", "matched"}
    BY <1>2 DEF RequestOK, Idle
  <2>5. DOMAIN r = DOMAIN q /\ r.pc = "bulk" /\ r.kind = q.kind /\ r.change = q.change /\ r.matched = M
    BY <2>2, <2>4
  <2>6. DOMAIN M = Open /\ \A e \in Open : M[e].line = Primary(e)
    BY <2>1
  <2>7. \A e \in Open : e \in Entries /\ entry[e].present /\ ~entry[e].resolved
    BY <1>5
  <2>8. \A e \in Open : Primary(e) \in DOMAIN LinesOf(e)
    BY <2>7, PrimaryIsLine DEF EditingInv, RowsOK, EntryIsWhole, AtLeastOneLine
  <2>9. \A e \in Open : Primary(e) \in used /\ line[Primary(e)].entry = e
    BY <2>7, <2>8, OtherAssumption DEF LinesOf, EditingInv, RowsOK, RowsTyped, UnusedIsFree
  <2>10. Matched(r)
    BY <2>5, <2>6, <2>7, <2>9 DEF Matched
  <2>11. RequestOK(r)
    BY <1>2, <2>5, <2>10 DEF RequestOK, Steps
  <2>12. RowsOK' /\ Steady
    BY <1>3, StillRows, StillSteady DEF EditingInv
  <2>13. DOMAIN call' = Callers /\ call'[t] = r /\ \A s \in Callers \ {t} : call'[s] = call[s]
    BY <2>3 DEF EditingInv
  <2>14. ASSUME NEW s \in Callers PROVE RequestOK(call[s])'
    <3>1. PICK p : p = call'[s]
      OBVIOUS
    <3>2. RequestOK(p)
      BY <2>11, <2>13, <3>1 DEF EditingInv
    <3>3. RequestOK(p)'
      BY <2>12, <3>2, OthersKeep
    <3> QED
      BY <3>1, <3>3 DEF RequestOK, Checked, Knows, Counted, Matched, Unwritten, Now, LinesOf
  <2>15. Fitting(r)
    BY <1>4, <1>7, <2>5, <2>6, <2>7 DEF Fitting
  <2>16. Fitting(r)'
    <3>1. ASSUME NEW e \in DOMAIN r.matched, NEW b
          PROVE  Primary(e)' = Primary(e) /\ (Fits(Rebased(e, b)) => Fits(Rebased(e, b))')
      BY <1>3, LineSame
    <3> QED
      BY <1>3, <2>15, <3>1 DEF Fitting
  <2>17. ~BulkOverlaps => \A s \in Callers : call'[s].pc = "bulk" => s = t
    BY <2>13 DEF Quiet
  <2>18. BulkAlone'
    <3>1. PICK p : p = call'[t]
      OBVIOUS
    <3>2. Fitting(p)'
      BY <2>13, <2>16, <3>1
    <3>3. Fitting(call[t])'
      BY <3>1, <3>2 DEF Fitting
    <3> QED
      BY <2>17, <3>3 DEF BulkAlone
  <2> QED
    BY <2>12, <2>13, <2>14, <2>18 DEF EditingInv
<1> QED
  BY <1>6, <1>7

\* The request of t ends.
LEMMA Finished ==
  ASSUME EditingInv, NEW t \in Callers, Step(t, Idle), Steady, RowsOK', ~BulkOverlaps => Quiet
  PROVE  EditingInv'
<1>1. PICK r : r = Idle
  OBVIOUS
<1>2. call' = [call EXCEPT ![t] = r]
  BY <1>1 DEF Step
<1>3. RequestOK(r)' /\ r.pc # "bulk"
  BY <1>1, IdleOK
<1> QED
  BY <1>2, <1>3, CallStep DEF Quiet

\* It ends without a write, though it may have used up a number.
LEMMA Unsaved ==
  ASSUME EditingInv, NEW t \in Callers, Step(t, Idle), ~BulkOverlaps => Quiet,
         UNCHANGED <<entry, line, assigned, archived>>, used \subseteq used', used' \subseteq Lines
  PROVE  EditingInv'
<1>1. RowsOK
  BY DEF EditingInv
<1>2. Steady
  BY <1>1, StillSteady
<1>3. RowsTyped' /\ UnusedIsFree'
  BY <1>1 DEF RowsOK, RowsTyped, UnusedIsFree
<1>4. EntryIsWhole'
  BY <1>1 DEF RowsOK, EntryIsWhole, AtLeastOneLine, LinesAtEntrySite, DaysWithinCycle, LinesOf, Fits
<1> QED
  BY <1>2, <1>3, <1>4, Finished DEF RowsOK

\* A request whose version is still the one it read sees the entry as it is.
LEMMA SeesNow ==
  ASSUME EditingInv, NEW t \in Callers, NEW q, q = call[t], q.pc = "write", Unwritten(q)
  PROVE  /\ q.entry \in Entries /\ entry[q.entry].present
         /\ q.seen.row = entry[q.entry] /\ q.seen.lines = LinesOf(q.entry)
         /\ ~entry[q.entry].resolved
<1>1. Checked(q) /\ Knows(q)
  BY DEF EditingInv, RequestOK
<1>2. Now(q.entry) = q.seen
  BY <1>1 DEF Knows
<1> QED
  BY <1>1, <1>2 DEF Checked, Now, Unwritten

\* Somebody writes the entry w, and of the lines only its own.
LEMMA SavedRows ==
  ASSUME EditingInv, NEW w \in Entries,
         entry' \in [Entries -> EntryRecord], \A x \in Entries \ {w} : entry'[x] = entry[x],
         entry'[w].present => entry[w].present /\ entry'[w].version = entry[w].version + 1,
         entry[w].version <= entry'[w].version,
         line' \in [Lines -> LineRecord], used \subseteq used', used' \subseteq Lines, UNCHANGED <<assigned, archived>>,
         \A l \in Lines : line'[l] = line[l] \/ (line[l].entry \in {w, None} /\ line'[l].entry \in {w, None}),
         \A l \in used : line'[l].entry \in {line[l].entry, None},
         UnusedIsFree', Whole(w)'
  PROVE  Steady /\ RowsOK'
<1>1. RowsOK /\ RowsTyped
  BY DEF EditingInv, RowsOK
<1>2. ASSUME NEW x \in Entries \ {w} PROVE LinesOf(x)' = LinesOf(x)
  <2>1. x # None /\ x # w
    BY OtherAssumption
  <2>2. \A l \in Lines : line'[l].entry = x <=> line[l].entry = x
    BY <2>1
  <2>3. \A l \in Lines : line[l].entry = x => line'[l] = line[l]
    BY <2>1
  <2> QED
    BY <2>2, <2>3 DEF LinesOf
<1>3. entry'[w].version \in Nat
  BY DEF EntryRecord
<1>4. Written(w)
  BY <1>2, <1>3 DEF Written
<1>5. RowsTyped'
  BY <1>1 DEF RowsTyped
<1> QED
  BY <1>1, <1>4, <1>5, WrittenSteady, WrittenRows

\* Its request ends with the write.
LEMMA Saved ==
  ASSUME EditingInv, NEW t \in Callers, NEW w \in Entries, Step(t, Idle), ~BulkOverlaps => Quiet,
         entry' \in [Entries -> EntryRecord], \A x \in Entries \ {w} : entry'[x] = entry[x],
         entry'[w].present => entry[w].present /\ entry'[w].version = entry[w].version + 1,
         entry[w].version <= entry'[w].version,
         line' \in [Lines -> LineRecord], used \subseteq used', used' \subseteq Lines, UNCHANGED <<assigned, archived>>,
         \A l \in Lines : line'[l] = line[l] \/ (line[l].entry \in {w, None} /\ line'[l].entry \in {w, None}),
         \A l \in used : line'[l].entry \in {line[l].entry, None},
         UnusedIsFree', Whole(w)'
  PROVE  EditingInv'
  BY SavedRows, Finished

\* A write gives the entry its next version.
LEMMA TouchedRow ==
  ASSUME entry \in [Entries -> EntryRecord], NEW w \in Entries, NEW E, E = Touched(w)
  PROVE  /\ E \in [Entries -> EntryRecord]
         /\ \A x \in Entries \ {w} : E[x] = entry[x]
         /\ E[w].present = entry[w].present /\ E[w].site = entry[w].site /\ E[w].resolved = entry[w].resolved
         /\ E[w].version = entry[w].version + 1 /\ entry[w].version <= E[w].version
<1>1. PICK row \in EntryRecord : row = entry[w]
  OBVIOUS
<1>2. PICK n \in Nat : n = row.version + 1 /\ row.version <= n
  BY DEF EntryRecord
<1>3. PICK new : new = [row EXCEPT !.version = n]
  OBVIOUS
<1>4. /\ new \in EntryRecord /\ new.version = n
      /\ new.present = row.present /\ new.site = row.site /\ new.resolved = row.resolved
  BY <1>3 DEF EntryRecord
<1>5. E = [entry EXCEPT ![w] = new]
  BY <1>1, <1>2, <1>3 DEF Touched
<1> QED
  BY <1>1, <1>2, <1>4, <1>5

(* The writes. *)

\* A field of the entry: updatePayrollEntry.
LEMMA EditingEdit ==
  ASSUME EditingInv, NEW t \in Callers, CommitEdit(t), ~BulkOverlaps => Quiet
  PROVE  EditingInv'
<1>1. PICK q : q = call[t]
  OBVIOUS
<1>2. q.pc = "write" /\ q.kind = "edit" /\ Step(t, Idle) /\ UNCHANGED <<line, used, assigned, archived>>
  BY <1>1 DEF CommitEdit
<1>3. RowsTyped /\ UnusedIsFree /\ RowsOK
  BY DEF EditingInv, RowsOK
<1>4. CASE ~SameVersion(t)
  <2>1. entry' = entry
    BY <1>4 DEF CommitEdit
  <2> QED
    BY <1>2, <1>3, <2>1, Unsaved DEF RowsTyped
<1>5. CASE SameVersion(t)
  <2>1. Unwritten(q)
    BY <1>1, <1>5 DEF SameVersion, Unwritten
  <2>2. PICK w \in Entries : w = q.entry /\ entry[w].present
    BY <1>1, <1>2, <2>1, SeesNow
  <2>3. PICK v \in Rates : v = q.change[2]
    BY <1>1, <1>2 DEF EditingInv, RequestOK, Checked
  <2>4. PICK E : E = Touched(w)
    OBVIOUS
  <2>5. /\ E \in [Entries -> EntryRecord]
        /\ \A x \in Entries \ {w} : E[x] = entry[x]
        /\ E[w].present = entry[w].present /\ E[w].site = entry[w].site
        /\ E[w].version = entry[w].version + 1 /\ entry[w].version <= E[w].version
    BY <1>3, <2>4, TouchedRow DEF RowsTyped
  <2>6. PICK new : new = [E[w] EXCEPT !.rate = v]
    OBVIOUS
  <2>7. entry' = [E EXCEPT ![w] = new]
    BY <1>1, <1>5, <2>2, <2>3, <2>4, <2>6 DEF CommitEdit
  <2>8. new \in EntryRecord /\ new.present = E[w].present /\ new.site = E[w].site /\ new.version = E[w].version
    BY <2>5, <2>6 DEF EntryRecord
  <2>9. /\ entry' \in [Entries -> EntryRecord]
        /\ \A x \in Entries \ {w} : entry'[x] = entry[x]
        /\ entry'[w].present = entry[w].present /\ entry'[w].site = entry[w].site
        /\ entry'[w].version = entry[w].version + 1 /\ entry[w].version <= entry'[w].version
    BY <2>5, <2>7, <2>8
  <2>10. Whole(w)
    BY <1>3, WholeByEntry DEF RowsOK, RowsTyped
  <2>11. Whole(w)'
    <3>1. LinesOf(w)' = LinesOf(w)
      BY <1>2 DEF LinesOf
    <3>2. entry'[w].present => DOMAIN LinesOf(w)' # {}
      BY <2>9, <2>10, <3>1 DEF Whole
    <3>3. \A l \in DOMAIN LinesOf(w)' : entry'[w].present /\ SiteOf[line'[l].unit] = entry'[w].site
      BY <1>2, <2>9, <2>10, <3>1 DEF Whole
    <3>4. ~BulkOverlaps => Fits(LinesOf(w)')
      BY <2>10, <3>1 DEF Whole
    <3> QED
      BY <3>2, <3>3, <3>4 DEF Whole, Fits, LinesOf
  <2>12. UnusedIsFree' /\ line' \in [Lines -> LineRecord]
    BY <1>2, <1>3 DEF UnusedIsFree, RowsTyped
  <2>13. used \subseteq used' /\ used' \subseteq Lines /\ \A l \in used : line'[l].entry \in {line[l].entry, None}
    BY <1>2, <1>3 DEF RowsTyped
  <2> QED
    BY <1>2, <2>2, <2>9, <2>11, <2>12, <2>13, Saved
<1> QED
  BY <1>4, <1>5

\* A request that writes lines of its entry, or is refused.
LEMMA LinesSaved ==
  ASSUME EditingInv, NEW t \in Callers, NEW q, q = call[t], q.pc = "write", Step(t, Idle), ~BulkOverlaps => Quiet,
         NEW w, w = q.entry, NEW M, WriteLines(t, M),
         used \subseteq used', used' \subseteq Lines, UNCHANGED <<assigned, archived>>,
         Unwritten(q) =>
           /\ M \in [Lines -> LineRecord]
           /\ \A l \in Lines : M[l] = line[l] \/ (line[l].entry \in {w, None} /\ M[l].entry \in {w, None})
           /\ \A l \in used : M[l].entry \in {line[l].entry, None}
           /\ \A l \in Lines \ used' : M[l].entry = None
           /\ \E l \in Lines : M[l].entry = w
           /\ \A l \in Lines : M[l].entry = w => SiteOf[M[l].unit] = entry[w].site
  PROVE  EditingInv'
<1>1. RowsTyped /\ UnusedIsFree /\ RowsOK
  BY DEF EditingInv, RowsOK
<1>2. CASE ~(SameVersion(t) /\ Distinct(M) /\ AsWritten(t, M))
  <2>1. UNCHANGED <<entry, line>>
    BY <1>2 DEF WriteLines
  <2> QED
    BY <2>1, Unsaved
<1>3. CASE SameVersion(t) /\ Distinct(M) /\ AsWritten(t, M)
  <2>1. Unwritten(q)
    BY <1>3 DEF SameVersion, Unwritten
  <2>2. w \in Entries /\ entry[w].present
    BY <2>1, SeesNow
  <2>3. line' = M /\ entry' = Touched(w)
    BY <1>3 DEF WriteLines
  <2>4. PICK E : E = Touched(w)
    OBVIOUS
  <2>5. /\ E \in [Entries -> EntryRecord]
        /\ \A x \in Entries \ {w} : E[x] = entry[x]
        /\ E[w].present = entry[w].present /\ E[w].site = entry[w].site
        /\ E[w].version = entry[w].version + 1 /\ entry[w].version <= E[w].version
    <3>1. entry \in [Entries -> EntryRecord]
      BY <1>1 DEF RowsTyped
    <3> QED
      BY ONLY <2>2, <2>4, <3>1, TouchedRow
  <2>6. /\ entry' \in [Entries -> EntryRecord]
        /\ \A x \in Entries \ {w} : entry'[x] = entry[x]
        /\ entry'[w].present = entry[w].present /\ entry'[w].site = entry[w].site
        /\ entry'[w].version = entry[w].version + 1 /\ entry[w].version <= entry'[w].version
    BY <2>3, <2>4, <2>5
  <2>7. Whole(w)'
    <3>1. Fits(LinesOf(w)')
      BY <1>3, <2>3 DEF AsWritten, LinesOf
    <3>2. DOMAIN LinesOf(w)' # {}
      BY <2>1, <2>3 DEF LinesOf
    <3>3. \A l \in DOMAIN LinesOf(w)' : l \in Lines /\ line'[l].entry = w
      BY DEF LinesOf
    <3>4. \A l \in DOMAIN LinesOf(w)' : entry'[w].present /\ SiteOf[line'[l].unit] = entry'[w].site
      BY <2>1, <2>2, <2>3, <2>6, <3>3
    <3> QED
      BY <3>1, <3>2, <3>4 DEF Whole, Fits, LinesOf
  <2>8. UnusedIsFree'
    BY <2>1, <2>3 DEF UnusedIsFree
  <2>9. line' \in [Lines -> LineRecord]
    BY <2>1, <2>3
  <2>10. \A l \in Lines : line'[l] = line[l] \/ (line[l].entry \in {w, None} /\ line'[l].entry \in {w, None})
    BY <2>1, <2>3
  <2>11. \A l \in used : line'[l].entry \in {line[l].entry, None}
    BY <2>1, <2>3
  <2> QED
    BY <2>2, <2>6, <2>7, <2>8, <2>9, <2>10, <2>11, Saved
<1> QED
  BY <1>2, <1>3

\* What is known of the lines of an entry.
LEMMA LinesNow ==
  ASSUME EditingInv, NEW w \in Entries
  PROVE  /\ w # None
         /\ DOMAIN LinesOf(w) = {l \in Lines : line[l].entry = w}
         /\ \A l \in DOMAIN LinesOf(w) :
              /\ LinesOf(w)[l] = line[l] /\ l \in Lines /\ l \in used
              /\ entry[w].present /\ SiteOf[line[l].unit] = entry[w].site
         /\ \A l \in Lines : line[l].entry = w => l \in used /\ SiteOf[line[l].unit] = entry[w].site
<1>1. w # None
  BY OtherAssumption
<1>2. \A l \in Lines : line[l].entry = w => l \in used
  BY <1>1 DEF EditingInv, RowsOK, UnusedIsFree
<1>3. \A l \in Lines : line[l].entry = w => entry[w].present /\ SiteOf[line[l].unit] = entry[w].site
  BY <1>1 DEF EditingInv, RowsOK, EntryIsWhole, LinesAtEntrySite
<1>4. DOMAIN LinesOf(w) = {l \in Lines : line[l].entry = w}
  BY DEF LinesOf
<1>5. \A l \in DOMAIN LinesOf(w) : LinesOf(w)[l] = line[l]
  BY DEF LinesOf
<1> QED
  BY <1>1, <1>2, <1>3, <1>4, <1>5

\* A new line: addWorkLine.
LEMMA EditingAdd ==
  ASSUME EditingInv, NEW t \in Callers, CommitAdd(t), ~BulkOverlaps => Quiet
  PROVE  EditingInv'
<1>1. PICK q : q = call[t]
  OBVIOUS
<1>2. q.pc = "write" /\ q.kind = "add" /\ Step(t, Idle) /\ UNCHANGED <<assigned, archived>>
  BY <1>1 DEF CommitAdd
<1>3. Checked(q) /\ Knows(q)
  BY <1>1, <1>2 DEF EditingInv, RequestOK
<1>4. PICK w \in Entries : w = q.entry
  BY <1>3 DEF Checked
<1>5. PICK u \in Units : u = q.change[2] /\ SiteOf[u] = q.seen.row.site
  BY <1>2, <1>3 DEF Checked
<1>6. PICK l \in Lines \ used, d \in 0 .. MaxDays, b \in Bases :
        /\ used' = used \cup {l}
        /\ WriteLines(t, [line EXCEPT ![l] = [entry |-> w, unit |-> u, days |-> d, basis |-> b]])
  BY <1>1, <1>4, <1>5 DEF CommitAdd
<1>7. PICK new \in LineRecord : new = [entry |-> w, unit |-> u, days |-> d, basis |-> b]
  BY DEF LineRecord
<1>8. PICK M : M = [line EXCEPT ![l] = new]
  OBVIOUS
<1>9. WriteLines(t, M)
  BY <1>6, <1>7, <1>8
<1>10. line \in [Lines -> LineRecord] /\ line[l].entry = None /\ used \subseteq Lines /\ \A x \in Lines \ used : line[x].entry = None
  BY DEF EditingInv, RowsOK, RowsTyped, UnusedIsFree
<1>11. ASSUME Unwritten(q)
       PROVE  /\ M \in [Lines -> LineRecord]
              /\ \A x \in Lines : M[x] = line[x] \/ (line[x].entry \in {w, None} /\ M[x].entry \in {w, None})
              /\ \A x \in used : M[x].entry \in {line[x].entry, None}
              /\ \A x \in Lines \ used' : M[x].entry = None
              /\ \E x \in Lines : M[x].entry = w
              /\ \A x \in Lines : M[x].entry = w => SiteOf[M[x].unit] = entry[w].site
  <2>1. M \in [Lines -> LineRecord] /\ M[l] = new /\ \A x \in Lines \ {l} : M[x] = line[x]
    BY <1>8, <1>10
  <2>2. new.entry = w /\ new.unit = u
    BY <1>7
  <2>3. SiteOf[u] = entry[w].site
    BY <1>1, <1>2, <1>4, <1>5, <1>11, SeesNow
  <2>4. \A x \in Lines : line[x].entry = w => SiteOf[line[x].unit] = entry[w].site
    BY LinesNow
  <2>5. \A x \in used : M[x] = line[x]
    BY <1>10, <2>1
  <2>6. \A x \in Lines \ used' : M[x].entry = None
    BY <1>6, <1>10, <2>1
  <2> QED
    BY <1>10, <2>1, <2>2, <2>3, <2>4, <2>5, <2>6
<1>12. used \subseteq used' /\ used' \subseteq Lines
  BY <1>6, <1>10
<1> QED
  BY <1>1, <1>2, <1>4, <1>9, <1>11, <1>12, LinesSaved

\* A line less: deleteWorkLine. What was counted is still so, if the version is.
LEMMA EditingRemove ==
  ASSUME EditingInv, NEW t \in Callers, CommitRemove(t), ~BulkOverlaps => Quiet
  PROVE  EditingInv'
<1>1. PICK q : q = call[t]
  OBVIOUS
<1>2. q.pc = "write" /\ q.kind = "remove" /\ Step(t, Idle) /\ UNCHANGED <<used, assigned, archived>>
  BY <1>1 DEF CommitRemove
<1>3. Checked(q) /\ Knows(q) /\ Counted(q)
  BY <1>1, <1>2 DEF EditingInv, RequestOK
<1>4. PICK w \in Entries : w = q.entry
  BY <1>3 DEF Checked
<1>5. PICK l : l = q.line
  OBVIOUS
<1>6. PICK M : M = [line EXCEPT ![l] = Deleted]
  OBVIOUS
<1>7. WriteLines(t, M)
  BY <1>1, <1>5, <1>6 DEF CommitRemove
<1>8. line \in [Lines -> LineRecord] /\ used \subseteq Lines /\ \A x \in Lines \ used : line[x].entry = None
  BY DEF EditingInv, RowsOK, RowsTyped, UnusedIsFree
<1>9. ASSUME Unwritten(q)
      PROVE  /\ M \in [Lines -> LineRecord]
             /\ \A x \in Lines : M[x] = line[x] \/ (line[x].entry \in {w, None} /\ M[x].entry \in {w, None})
             /\ \A x \in used : M[x].entry \in {line[x].entry, None}
             /\ \A x \in Lines \ used' : M[x].entry = None
             /\ \E x \in Lines : M[x].entry = w
             /\ \A x \in Lines : M[x].entry = w => SiteOf[M[x].unit] = entry[w].site
  <2>1. q.seen.lines = LinesOf(w)
    BY <1>1, <1>2, <1>4, <1>9, SeesNow
  <2>2. l \in Lines /\ line[l].entry = w
    <3>1. q.line \in DOMAIN q.seen.lines
      BY <1>2, <1>3 DEF Checked
    <3>2. l \in DOMAIN LinesOf(w)
      BY <1>5, <2>1, <3>1
    <3>3. DOMAIN LinesOf(w) = {x \in Lines : line[x].entry = w}
      BY DEF LinesOf
    <3> QED
      BY <3>2, <3>3
  <2>3. PICK k \in Lines : k # l /\ line[k].entry = w
    <3>1. \E k \in DOMAIN q.seen.lines : k # q.line
      BY <1>2, <1>3, <1>9 DEF Counted
    <3>2. \E k \in DOMAIN LinesOf(w) : k # l
      BY <1>5, <2>1, <3>1
    <3>3. DOMAIN LinesOf(w) = {x \in Lines : line[x].entry = w}
      BY DEF LinesOf
    <3> QED
      BY <3>2, <3>3
  <2>4. line[l].unit \in Units /\ line[l].basis \in Bases
    BY <1>8, <2>2 DEF LineRecord
  <2>5. Deleted \in LineRecord /\ Deleted.entry = None
    BY <2>4, DaysAssumption DEF Deleted, LineRecord
  <2>6. M \in [Lines -> LineRecord] /\ M[l].entry = None /\ \A x \in Lines \ {l} : M[x] = line[x]
    BY <1>6, <1>8, <2>2, <2>5
  <2>7. w # None /\ \A x \in Lines : line[x].entry = w => SiteOf[line[x].unit] = entry[w].site
    BY LinesNow
  <2>8. \A x \in Lines \ used' : M[x].entry = None
    BY <1>2, <1>8, <2>6
  <2>9. \A x \in used : M[x].entry \in {line[x].entry, None}
    BY <1>8, <2>6
  <2>10. \A x \in Lines : M[x].entry = w => M[x] = line[x]
    BY <2>6, <2>7
  <2>11. \A x \in Lines : M[x] = line[x] \/ (line[x].entry \in {w, None} /\ M[x].entry \in {w, None})
    BY <2>2, <2>6
  <2>12. M[k].entry = w
    BY <2>3, <2>6
  <2> QED
    BY <2>6, <2>7, <2>8, <2>9, <2>10, <2>11, <2>12
<1>10. used \subseteq used' /\ used' \subseteq Lines
  BY <1>2, <1>8
<1> QED
  BY <1>1, <1>2, <1>4, <1>7, <1>9, <1>10, LinesSaved

\* A field of a line: updateWorkLine.
LEMMA EditingUpdate ==
  ASSUME EditingInv, NEW t \in Callers, CommitUpdate(t), ~BulkOverlaps => Quiet
  PROVE  EditingInv'
<1>1. PICK q : q = call[t]
  OBVIOUS
<1>2. q.pc = "write" /\ q.kind = "update" /\ Step(t, Idle) /\ UNCHANGED <<used, assigned, archived>>
  BY <1>1 DEF CommitUpdate
<1>3. Checked(q) /\ Knows(q)
  BY <1>1, <1>2 DEF EditingInv, RequestOK
<1>4. PICK w \in Entries : w = q.entry
  BY <1>3 DEF Checked
<1>5. PICK l, v : l = q.line /\ v = q.change[2]
  OBVIOUS
<1>f. PICK f \in Fields : f = q.change[1]
  BY <1>2, <1>3 DEF Checked
<1>6. v \in Values(f) /\ (f = "unit" => SiteOf[v] = q.seen.row.site)
  BY <1>2, <1>3, <1>5, <1>f DEF Checked
<1>7. line \in [Lines -> LineRecord] /\ used \subseteq Lines /\ \A x \in Lines \ used : line[x].entry = None
  BY DEF EditingInv, RowsOK, RowsTyped, UnusedIsFree
<1>8. CASE line[l].entry = None
  <2>1. UNCHANGED <<entry, line>>
    BY <1>1, <1>5, <1>8 DEF CommitUpdate
  <2> QED
    BY <1>2, <1>7, <2>1, Unsaved
<1>9. CASE line[l].entry # None
  <2>1. PICK old : old = line[l]
    OBVIOUS
  <2>2. PICK new : new = Changed(line[l], f, v)
    OBVIOUS
  <2>3. PICK M : M = [line EXCEPT ![l] = new]
    OBVIOUS
  <2>4. WriteLines(t, M)
    BY <1>1, <1>5, <1>f, <1>9, <2>2, <2>3 DEF CommitUpdate
  <2>5. ASSUME Unwritten(q)
        PROVE  /\ M \in [Lines -> LineRecord]
               /\ \A x \in Lines : M[x] = line[x] \/ (line[x].entry \in {w, None} /\ M[x].entry \in {w, None})
               /\ \A x \in used : M[x].entry \in {line[x].entry, None}
               /\ \A x \in Lines \ used' : M[x].entry = None
               /\ \E x \in Lines : M[x].entry = w
               /\ \A x \in Lines : M[x].entry = w => SiteOf[M[x].unit] = entry[w].site
    <3>1. q.seen.lines = LinesOf(w) /\ q.seen.row.site = entry[w].site
      BY <1>1, <1>2, <1>4, <2>5, SeesNow
    <3>2. l \in Lines /\ line[l].entry = w
      <4>1. q.line \in DOMAIN q.seen.lines
        BY <1>2, <1>3 DEF Checked
      <4>2. DOMAIN LinesOf(w) = {x \in Lines : line[x].entry = w}
        BY DEF LinesOf
      <4> QED
        BY <1>5, <3>1, <4>1, <4>2
    <3>3. old \in LineRecord /\ old.entry = w
      BY <1>7, <2>1, <3>2
    <3>4. new \in LineRecord /\ new.entry = w /\ new.unit = IF f = "unit" THEN v ELSE old.unit
      BY <1>6, <2>1, <2>2, <3>3 DEF Changed, LineRecord, Values, Fields
    <3>5. M \in [Lines -> LineRecord] /\ M[l] = new /\ \A x \in Lines \ {l} : M[x] = line[x]
      BY <1>7, <2>3, <3>2, <3>4
    <3>6. \A x \in Lines : line[x].entry = w => x \in used /\ SiteOf[line[x].unit] = entry[w].site
      BY LinesNow
    <3>7. SiteOf[new.unit] = entry[w].site
      BY <1>6, <2>1, <3>1, <3>2, <3>4, <3>6
    <3>8. \A x \in Lines : M[x].entry = line[x].entry
      BY <3>2, <3>4, <3>5
    <3>9. \A x \in Lines : M[x].entry = w => SiteOf[M[x].unit] = entry[w].site
      BY <3>5, <3>6, <3>7, <3>8
    <3>10. \A x \in Lines : M[x] = line[x] \/ (line[x].entry \in {w, None} /\ M[x].entry \in {w, None})
      BY <3>2, <3>5, <3>8
    <3>11. \A x \in Lines \ used' : M[x].entry = None
      BY <1>2, <1>7, <3>8
    <3>12. \A x \in used : M[x].entry \in {line[x].entry, None}
      BY <1>7, <3>8
    <3> QED
      BY <3>2, <3>5, <3>8, <3>9, <3>10, <3>11, <3>12
  <2>6. used \subseteq used' /\ used' \subseteq Lines
    BY <1>2, <1>7
  <2> QED
    BY <1>1, <1>2, <1>4, <2>4, <2>5, <2>6, LinesSaved
<1> QED
  BY <1>8, <1>9

\* The employee's new assignment moves the only line, on which nothing was worked.
LEMMA EditingAssign ==
  ASSUME EditingInv, NEW t \in Callers, CommitAssign(t), ~BulkOverlaps => Quiet
  PROVE  EditingInv'
<1>1. PICK q : q = call[t]
  OBVIOUS
<1>2. q.pc = "write" /\ q.kind = "assign" /\ Step(t, Idle) /\ UNCHANGED <<used, assigned, archived>>
  BY <1>1 DEF CommitAssign
<1>3. Checked(q) /\ Knows(q)
  BY <1>1, <1>2 DEF EditingInv, RequestOK
<1>4. line \in [Lines -> LineRecord] /\ used \subseteq Lines /\ \A x \in Lines \ used : line[x].entry = None
  BY DEF EditingInv, RowsOK, RowsTyped, UnusedIsFree
<1>5. PICK w \in Entries : w = q.entry
  BY <1>3 DEF Checked
<1>6. PICK l : l = q.line
  OBVIOUS
<1>7. CASE ~SameVersion(t)
  <2>1. UNCHANGED <<entry, line>>
    BY <1>7 DEF CommitAssign
  <2> QED
    BY <1>2, <1>4, <2>1, Unsaved
<1>8. CASE SameVersion(t)
  <2>1. Unwritten(q)
    BY <1>1, <1>8 DEF SameVersion, Unwritten
  <2>2. entry[w].present /\ q.seen.lines = LinesOf(w)
    BY <1>1, <1>2, <1>5, <2>1, SeesNow
  <2>3. PICK u \in Units :
          /\ entry' = [Touched(w) EXCEPT ![w].site = SiteOf[u]]
          /\ line' = [line EXCEPT ![l].unit = u]
    BY <1>1, <1>3, <1>5, <1>6, <1>8 DEF CommitAssign, Checked
  <2>4. PICK E : E = Touched(w)
    OBVIOUS
  <2>5. entry \in [Entries -> EntryRecord]
    BY DEF EditingInv, RowsOK, RowsTyped
  <2>6. /\ E \in [Entries -> EntryRecord]
        /\ \A x \in Entries \ {w} : E[x] = entry[x]
        /\ E[w].present = entry[w].present
        /\ E[w].version = entry[w].version + 1 /\ entry[w].version <= E[w].version
    BY ONLY <2>4, <2>5, TouchedRow, w \in Entries
  <2>7. PICK s \in Sites : s = SiteOf[u]
    BY DEF Sites
  <2>8. PICK row : row = [E[w] EXCEPT !.site = s]
    OBVIOUS
  <2>9. entry' = [E EXCEPT ![w] = row]
    BY <2>3, <2>4, <2>7, <2>8
  <2>10. row \in EntryRecord /\ row.present = E[w].present /\ row.site = s /\ row.version = E[w].version
    BY <2>6, <2>8 DEF EntryRecord
  <2>11. /\ entry' \in [Entries -> EntryRecord]
         /\ \A x \in Entries \ {w} : entry'[x] = entry[x]
         /\ entry'[w].present /\ entry'[w].site = s
         /\ entry'[w].version = entry[w].version + 1 /\ entry[w].version <= entry'[w].version
    BY <2>2, <2>6, <2>9, <2>10
  <2>12. DOMAIN LinesOf(w) = {l}
    BY <1>2, <1>3, <1>6, <2>2 DEF Checked
  <2>13. DOMAIN LinesOf(w) = {x \in Lines : line[x].entry = w}
    BY DEF LinesOf
  <2>14. l \in Lines /\ line[l].entry = w /\ l \in used
    BY <2>12, <2>13, LinesNow
  <2>15. PICK old \in LineRecord : old = line[l]
    BY <1>4, <2>14
  <2>16. PICK new : new = [old EXCEPT !.unit = u]
    OBVIOUS
  <2>17. new \in LineRecord /\ new.unit = u /\ new.entry = old.entry /\ new.days = old.days /\ new.basis = old.basis
    BY <2>16 DEF LineRecord
  <2>18. line' = [line EXCEPT ![l] = new]
    BY <2>3, <2>15, <2>16
  <2>19. line' \in [Lines -> LineRecord] /\ line'[l] = new /\ \A x \in Lines \ {l} : line'[x] = line[x]
    BY <1>4, <2>14, <2>17, <2>18
  <2>20. \A x \in Lines : line'[x].entry = line[x].entry /\ line'[x].days = line[x].days /\ line'[x].basis = line[x].basis
    BY <2>14, <2>15, <2>17, <2>19
  <2>21. Whole(w)'
    <3>1. DOMAIN LinesOf(w)' = {l}
      BY <2>12, <2>13, <2>20 DEF LinesOf
    <3>2. SiteOf[line'[l].unit] = entry'[w].site
      BY <2>7, <2>11, <2>17, <2>19
    <3>3. ~BulkOverlaps => Fits(LinesOf(w)')
      <4>1. SUFFICES ASSUME Fits(LinesOf(w)) PROVE Fits(LinesOf(w)')
        BY DEF EditingInv, RowsOK, EntryIsWhole, DaysWithinCycle
      <4>2. PICK L : L = LinesOf(w)
        OBVIOUS
      <4>3. PICK K : K = LinesOf(w)'
        OBVIOUS
      <4>4. DOMAIN K = DOMAIN L /\ K[l].days = L[l].days /\ K[l].basis = L[l].basis /\ DOMAIN L = {l}
        BY <2>12, <2>13, <2>14, <2>20, <3>1, <4>2, <4>3 DEF LinesOf
      <4>5. [x \in DOMAIN K |-> K[x].days] = [x \in DOMAIN L |-> L[x].days]
        BY <4>4
      <4>6. {K[x].basis : x \in DOMAIN K} = {L[x].basis : x \in DOMAIN L}
        BY <4>4
      <4>7. Fits(K)
        BY <4>1, <4>2, <4>4, <4>5, <4>6 DEF Fits
      <4> QED
        BY <4>3, <4>7
    <3> QED
      BY <2>11, <3>1, <3>2, <3>3 DEF Whole, Fits, LinesOf
  <2>22. UnusedIsFree'
    BY <1>2, <1>4, <2>20 DEF UnusedIsFree
  <2>23. \A x \in Lines : line'[x] = line[x] \/ (line[x].entry \in {w, None} /\ line'[x].entry \in {w, None})
    BY <2>14, <2>19, <2>20
  <2>24. \A x \in used : line'[x].entry \in {line[x].entry, None}
    BY <1>4, <2>20
  <2>25. used \subseteq used' /\ used' \subseteq Lines
    BY <1>2, <1>4
  <2> QED
    BY <1>2, <2>2, <2>11, <2>19, <2>21, <2>22, <2>23, <2>24, <2>25, Saved
<1> QED
  BY <1>7, <1>8

\* The entry and its lines: deletePayrollEntry.
LEMMA EditingDelete ==
  ASSUME EditingInv, NEW t \in Callers, CommitDelete(t), ~BulkOverlaps => Quiet
  PROVE  EditingInv'
<1>1. PICK q : q = call[t]
  OBVIOUS
<1>2. q.pc = "write" /\ q.kind = "delete" /\ Step(t, Idle) /\ UNCHANGED <<used, assigned, archived>>
  BY <1>1 DEF CommitDelete
<1>3. Checked(q) /\ Knows(q)
  BY <1>1, <1>2 DEF EditingInv, RequestOK
<1>4. /\ entry \in [Entries -> EntryRecord] /\ line \in [Lines -> LineRecord] /\ used \subseteq Lines
      /\ \A x \in Lines \ used : line[x].entry = None
  BY DEF EditingInv, RowsOK, RowsTyped, UnusedIsFree
<1>5. PICK w \in Entries : w = q.entry
  BY <1>3 DEF Checked
<1>6. CASE ~SameVersion(t)
  <2>1. UNCHANGED <<entry, line>>
    BY <1>6 DEF CommitDelete
  <2> QED
    BY <1>2, <1>4, <2>1, Unsaved
<1>7. CASE SameVersion(t)
  <2>1. Unwritten(q)
    BY <1>1, <1>7 DEF SameVersion, Unwritten
  <2>2. entry[w].present
    BY <1>1, <1>2, <1>5, <2>1, SeesNow
  <2>3. /\ entry' = [entry EXCEPT ![w].present = FALSE]
        /\ line' = [x \in Lines |-> IF line[x].entry = w THEN Deleted ELSE line[x]]
    BY <1>1, <1>5, <1>7 DEF CommitDelete
  <2>4. PICK old \in EntryRecord : old = entry[w]
    BY <1>4
  <2>5. PICK row : row = [old EXCEPT !.present = FALSE]
    OBVIOUS
  <2>6. row \in EntryRecord /\ ~row.present /\ row.version = old.version /\ old.version \in Nat
    BY <2>5 DEF EntryRecord
  <2>7. entry' = [entry EXCEPT ![w] = row]
    BY <2>3, <2>4, <2>5
  <2>8. /\ entry' \in [Entries -> EntryRecord] /\ \A x \in Entries \ {w} : entry'[x] = entry[x]
        /\ ~entry'[w].present /\ entry[w].version <= entry'[w].version
    BY <1>4, <2>4, <2>6, <2>7
  <2>9. PICK k \in Lines : line[k].entry = w
    BY <2>2 DEF EditingInv, RowsOK, EntryIsWhole, AtLeastOneLine, LinesOf
  <2>10. line[k].unit \in Units /\ line[k].basis \in Bases
    BY <1>4 DEF LineRecord
  <2>11. Deleted \in LineRecord /\ Deleted.entry = None
    BY <2>10, DaysAssumption DEF Deleted, LineRecord
  <2>12. line' \in [Lines -> LineRecord]
    BY <1>4, <2>3, <2>11
  <2>13. \A x \in Lines : line'[x] = IF line[x].entry = w THEN Deleted ELSE line[x]
    BY <2>3
  <2>14. w # None /\ \A x \in Lines : line'[x].entry # w
    BY <2>11, <2>13, OtherAssumption
  <2>15. DOMAIN LinesOf(w)' = {}
    BY <2>14 DEF LinesOf
  <2>16. Whole(w)'
    BY <2>8, <2>15 DEF Whole, Fits, LinesOf
  <2>17. UnusedIsFree'
    BY <1>2, <1>4, <2>11, <2>13 DEF UnusedIsFree
  <2>18. \A x \in Lines : line'[x] = line[x] \/ (line[x].entry \in {w, None} /\ line'[x].entry \in {w, None})
    BY <2>11, <2>13
  <2>19. \A x \in used : line'[x].entry \in {line[x].entry, None}
    BY <1>4, <2>11, <2>13
  <2>20. used \subseteq used' /\ used' \subseteq Lines
    BY <1>2, <1>4
  <2> QED
    BY <1>2, <2>8, <2>12, <2>16, <2>17, <2>18, <2>19, <2>20, Saved
<1> QED
  BY <1>6, <1>7

\* All entries that matched: bulkUpdatePayrollEntries.
LEMMA EditingBulk ==
  ASSUME EditingInv, NEW t \in Callers, CommitBulk(t)
  PROVE  EditingInv'
<1>1. PICK q : q = call[t]
  OBVIOUS
<1>2. q.pc = "bulk" /\ Step(t, Idle) /\ UNCHANGED <<used, assigned, archived>>
  BY <1>1 DEF CommitBulk
<1>3. RequestOK(q) /\ Matched(q)
  BY <1>1, <1>2 DEF EditingInv, RequestOK
<1>f. PICK f \in {"rate", "basis"} : f = q.change[1]
  BY <1>2, <1>3 DEF RequestOK
<1>4. PICK v \in Values(f) : f = q.change[1] /\ v = q.change[2]
  BY <1>2, <1>3, <1>f DEF RequestOK
<1>5. PICK D : D = DOMAIN q.matched
  OBVIOUS
<1>6. PICK W : W = {e \in D : entry[e].present}
  OBVIOUS
<1>7. PICK P : P = {l \in Lines : line[l].entry # None /\ \E e \in D : q.matched[e].line = l}
  OBVIOUS
<1>8. /\ entry' = [e \in Entries |-> IF e \notin W THEN entry[e]
                     ELSE BulkVersion(IF f = "rate" THEN [entry[e] EXCEPT !.rate = v] ELSE entry[e])]
      /\ line' = IF f = "rate" THEN line
                 ELSE [l \in Lines |-> IF l \in P THEN [line[l] EXCEPT !.basis = v] ELSE line[l]]
  BY <1>1, <1>4, <1>5, <1>6, <1>7 DEF CommitBulk
<1>9. /\ entry \in [Entries -> EntryRecord] /\ line \in [Lines -> LineRecord] /\ used \subseteq Lines
      /\ \A x \in Lines \ used : line[x].entry = None
  BY DEF EditingInv, RowsOK, RowsTyped, UnusedIsFree
<1>10. \A e \in Entries \ W : entry'[e] = entry[e]
  BY <1>8
<1>11. ASSUME NEW e \in Entries
       PROVE  /\ entry'[e] \in EntryRecord /\ entry'[e].present = entry[e].present /\ entry'[e].site = entry[e].site
              /\ entry[e].version \in Nat
              /\ e \in W => entry'[e].version = entry[e].version + 1
  <2>1. PICK row \in EntryRecord : row = entry[e]
    BY <1>9
  <2>2. row.version \in Nat
    BY DEF EntryRecord
  <2>3. CASE e \notin W
    BY <1>10, <2>1, <2>2, <2>3
  <2>4. CASE e \in W
    <3>1. PICK new : new = IF f = "rate" THEN [row EXCEPT !.rate = v] ELSE row
      OBVIOUS
    <3>2. f = "rate" => v \in Rates
      BY <1>4 DEF Values
    <3>3. new \in EntryRecord /\ new.present = row.present /\ new.site = row.site /\ new.version = row.version
      BY <3>1, <3>2 DEF EntryRecord
    <3>4. entry'[e] = BulkVersion(new)
      BY <1>8, <2>1, <2>4, <3>1
    <3>5. PICK last : last = BulkVersion(new)
      OBVIOUS
    <3>6. /\ last \in EntryRecord /\ last.present = new.present /\ last.site = new.site
          /\ last.version = new.version + 1
      BY <2>2, <3>3, <3>5 DEF BulkVersion, EntryRecord
    <3> QED
      BY <2>1, <2>2, <3>3, <3>4, <3>5, <3>6
  <2> QED
    BY <2>3, <2>4
<1>12. ASSUME NEW l \in Lines
       PROVE  /\ line'[l] \in LineRecord /\ line'[l].entry = line[l].entry /\ line'[l].unit = line[l].unit
              /\ f = "rate" \/ l \notin P => line'[l] = line[l]
              /\ f = "basis" /\ l \in P => line'[l] = [line[l] EXCEPT !.basis = v]
  <2>1. PICK old \in LineRecord : old = line[l]
    BY <1>9
  <2>2. f = "rate" \/ l \notin P => line'[l] = line[l]
    BY <1>8
  <2>3. f = "basis" /\ l \in P => line'[l] = [line[l] EXCEPT !.basis = v]
    BY <1>8
  <2>4. ASSUME f = "basis" /\ l \in P
        PROVE  line'[l] \in LineRecord /\ line'[l].entry = line[l].entry /\ line'[l].unit = line[l].unit
    <3>1. v \in Bases
      BY <1>4, <2>4 DEF Values
    <3>2. PICK new : new = [old EXCEPT !.basis = v]
      OBVIOUS
    <3>3. new \in LineRecord /\ new.entry = old.entry /\ new.unit = old.unit
      BY <3>1, <3>2 DEF LineRecord
    <3> QED
      BY <2>1, <2>3, <2>4, <3>2, <3>3
  <2>5. f = "rate" \/ f = "basis"
    BY <1>4
  <2> QED
    BY <1>9, <2>2, <2>3, <2>4, <2>5
<1>13. entry' \in [Entries -> EntryRecord] /\ line' \in [Lines -> LineRecord]
  <2>1. entry' \in [Entries -> EntryRecord]
    BY <1>8, <1>11
  <2>2. line' = [l \in Lines |-> line'[l]]
    BY <1>8, <1>9
  <2>3. line' \in [Lines -> LineRecord]
    BY <1>12, <2>2
  <2> QED
    BY <2>1, <2>3
<1>14. \A e \in Entries : DOMAIN LinesOf(e)' = DOMAIN LinesOf(e)
  BY <1>12 DEF LinesOf
\* Only entries of the match have lines that change.
<1>15. ASSUME NEW e \in Entries \ D PROVE LinesOf(e)' = LinesOf(e)
  <2>1. \A l \in Lines : line[l].entry = e => l \notin P
    BY <1>3, <1>5, <1>7, OtherAssumption DEF Matched
  <2>2. \A l \in Lines : (line'[l].entry = e <=> line[l].entry = e) /\ (line[l].entry = e => line'[l] = line[l])
    BY <1>12, <2>1
  <2> QED
    BY <2>2 DEF LinesOf
<1>16. Steady
  <2>1. used \subseteq used' /\ \A l \in used : line'[l].entry = line[l].entry
    BY <1>2, <1>9, <1>12
  <2>2. ASSUME NEW e \in Entries
        PROVE  /\ entry'[e].present => entry[e].present
               /\ entry[e].version \in Nat /\ entry'[e].version \in Nat /\ entry[e].version <= entry'[e].version
               /\ entry'[e].present /\ entry'[e].version = entry[e].version => Now(e)' = Now(e)
    <3>1. /\ entry'[e].present = entry[e].present /\ entry[e].version \in Nat
          /\ e \in W => entry'[e].version = entry[e].version + 1
          /\ e \notin W => entry'[e] = entry[e]
      BY <1>10, <1>11
    <3>2. ASSUME entry'[e].present, entry'[e].version = entry[e].version PROVE Now(e)' = Now(e)
      <4>1. e \notin W /\ entry[e].present
        BY <3>1, <3>2
      <4>2. e \notin D
        BY <1>6, <4>1
      <4>3. LinesOf(e)' = LinesOf(e) /\ entry'[e] = entry[e]
        BY <1>15, <3>1, <4>1, <4>2
      <4> QED
        BY <4>3 DEF Now
    <3> QED
      BY <3>1, <3>2
  <2> QED
    BY <2>1, <2>2 DEF Steady
<1>17. RowsTyped' /\ UnusedIsFree'
  <2>1. used' \in SUBSET Lines /\ assigned' \in [Entries -> Units] /\ archived' \in BOOLEAN
    BY <1>2 DEF EditingInv, RowsOK, RowsTyped
  <2>2. UnusedIsFree'
    BY <1>2, <1>9, <1>12 DEF UnusedIsFree
  <2> QED
    BY <1>13, <2>1, <2>2 DEF RowsTyped
<1>18. AtLeastOneLine'
  <2>1. \A e \in Entries : entry'[e].present => DOMAIN LinesOf(e)' # {}
    BY <1>11, <1>14 DEF EditingInv, RowsOK, EntryIsWhole, AtLeastOneLine
  <2> QED
    BY <2>1 DEF AtLeastOneLine
<1>19. LinesAtEntrySite'
  <2>1. \A l \in Lines : line[l].entry # None => line[l].entry \in Entries
    BY <1>9 DEF LineRecord
  <2>2. ASSUME NEW l \in Lines, line'[l].entry # None
        PROVE  entry'[line'[l].entry].present /\ SiteOf[line'[l].unit] = entry'[line'[l].entry].site
    <3>1. line'[l].entry = line[l].entry /\ line'[l].unit = line[l].unit
      BY <1>12
    <3>2. PICK e \in Entries : e = line[l].entry
      BY <2>1, <2>2, <3>1
    <3>3. entry[e].present /\ SiteOf[line[l].unit] = entry[e].site
      BY <2>2, <3>1, <3>2 DEF EditingInv, RowsOK, EntryIsWhole, LinesAtEntrySite
    <3>4. entry'[e].present = entry[e].present /\ entry'[e].site = entry[e].site
      BY <1>11
    <3> QED
      BY <3>1, <3>2, <3>3, <3>4
  <2> QED
    BY <2>2 DEF LinesAtEntrySite
<1>20. ASSUME ~BulkOverlaps, NEW e \in Entries PROVE Fits(LinesOf(e)')
  <2>1. Fits(LinesOf(e))
    BY <1>20 DEF EditingInv, RowsOK, EntryIsWhole, DaysWithinCycle
  <2>2. CASE e \notin D \/ f = "rate"
    <3>1. LinesOf(e)' = LinesOf(e)
      BY <1>8, <1>15, <2>2 DEF LinesOf
    <3> QED
      BY <2>1, <3>1
  <2>3. CASE e \in D /\ f = "basis"
    <3>1. Fitting(q)
      BY <1>1, <1>2, <1>20 DEF EditingInv, BulkAlone
    <3>2. PICK b \in Bases : b = v
      BY <1>4, <2>3 DEF Values
    <3>3. Fits(Rebased(e, b)) /\ entry[e].present
      BY <1>4, <1>5, <2>3, <3>1, <3>2 DEF Fitting
    <3>4. \A x \in D : q.matched[x].line = Primary(x) /\ line[q.matched[x].line].entry \in {x, None}
      BY <1>3, <1>5, <3>1 DEF Fitting, Matched
    <3>5. DOMAIN LinesOf(e) = {l \in Lines : line[l].entry = e} /\ \A l \in DOMAIN LinesOf(e) : LinesOf(e)[l] = line[l]
      BY DEF LinesOf
    <3>6. DOMAIN LinesOf(e)' = {l \in Lines : line'[l].entry = e}
      BY DEF LinesOf
    <3>7. e # None
      BY OtherAssumption
    <3>8. ASSUME NEW l \in DOMAIN LinesOf(e) PROVE l \in P <=> l = Primary(e)
      <4>1. l \in Lines /\ line[l].entry = e
        BY <3>5
      <4>2. l \in P => l = Primary(e)
        BY <1>7, <3>4, <3>7, <4>1
      <4>3. l = Primary(e) => l \in P
        BY <1>7, <2>3, <3>4, <3>7, <4>1
      <4> QED
        BY <4>2, <4>3
    <3>9. ASSUME NEW l \in DOMAIN LinesOf(e)
          PROVE  line'[l] = IF l = Primary(e) THEN [line[l] EXCEPT !.basis = b] ELSE line[l]
      BY <1>12, <2>3, <3>2, <3>5, <3>8
    <3>10. LinesOf(e)' = [l \in DOMAIN LinesOf(e) |-> line'[l]]
      BY <1>14, <3>6 DEF LinesOf
    <3>11. LinesOf(e)' = Rebased(e, b)
      BY <3>9, <3>10 DEF Rebased
    <3> QED
      BY <3>3, <3>11
  <2>4. f = "rate" \/ f = "basis"
    BY <1>4
  <2> QED
    BY <2>2, <2>3, <2>4
<1>21. DaysWithinCycle'
  BY <1>20 DEF DaysWithinCycle, Fits, LinesOf
<1>22. RowsOK'
  BY <1>17, <1>18, <1>19, <1>21 DEF RowsOK, EntryIsWhole
<1>23. ~BulkOverlaps => \A s \in Callers \ {t} : call[s].pc # "bulk"
  BY <1>1, <1>2 DEF EditingInv, BulkAlone
<1>24. PICK r : r = Idle
  OBVIOUS
<1>25. call' = [call EXCEPT ![t] = r] /\ RequestOK(r)' /\ r.pc # "bulk"
  BY <1>2, <1>24, IdleOK DEF Step
<1> QED
  BY <1>16, <1>22, <1>23, <1>25, CallStep

-----------------------------------------------------------------------------
(* The others. *)

\* A step that is no request.
LEMMA EditingStays ==
  ASSUME EditingInv, Steady, RowsOK', call' = call, ~BulkOverlaps => Quiet
  PROVE  EditingInv'
<1>1. DOMAIN call' = Callers
  BY DEF EditingInv
<1>2. ASSUME NEW s \in Callers PROVE RequestOK(call[s])'
  <2>1. PICK q : q = call[s]
    OBVIOUS
  <2>2. RequestOK(q)'
    BY <2>1, OthersKeep DEF EditingInv
  <2> QED
    BY <2>1, <2>2 DEF RequestOK, Checked, Knows, Counted, Matched, Unwritten, Now, LinesOf
<1>3. BulkAlone'
  BY DEF BulkAlone, Quiet
<1> QED
  BY <1>1, <1>2, <1>3 DEF EditingInv

\* A sweep resolves the entry w.
LEMMA EditingRelease ==
  ASSUME EditingInv, NEW w \in Entries, Release(w), ~BulkOverlaps => Quiet
  PROVE  EditingInv'
<1>1. UNCHANGED <<line, used, assigned, archived, call>> /\ entry[w].present
  BY DEF Release, Editable
<1>2. RowsOK /\ RowsTyped /\ UnusedIsFree /\ entry \in [Entries -> EntryRecord]
  BY DEF EditingInv, RowsOK, RowsTyped
<1>3. PICK E : E = Touched(w)
  OBVIOUS
<1>4. /\ E \in [Entries -> EntryRecord]
      /\ \A x \in Entries \ {w} : E[x] = entry[x]
      /\ E[w].present = entry[w].present /\ E[w].site = entry[w].site
      /\ E[w].version = entry[w].version + 1 /\ entry[w].version <= E[w].version
  BY ONLY <1>2, <1>3, TouchedRow, w \in Entries
<1>5. PICK new : new = [E[w] EXCEPT !.resolved = TRUE]
  OBVIOUS
<1>6. entry' = [E EXCEPT ![w] = new]
  BY <1>3, <1>5 DEF Release
<1>7. new \in EntryRecord /\ new.present = E[w].present /\ new.site = E[w].site /\ new.version = E[w].version
  BY <1>4, <1>5 DEF EntryRecord
<1>8. /\ entry' \in [Entries -> EntryRecord]
      /\ \A x \in Entries \ {w} : entry'[x] = entry[x]
      /\ entry'[w].present = entry[w].present /\ entry'[w].site = entry[w].site
      /\ entry'[w].version = entry[w].version + 1 /\ entry[w].version <= entry'[w].version
  BY <1>4, <1>6, <1>7
<1>9. Whole(w)
  BY <1>2, WholeByEntry DEF RowsOK, RowsTyped
<1>10. Whole(w)'
  <2>1. LinesOf(w)' = LinesOf(w)
    BY <1>1 DEF LinesOf
  <2>2. entry'[w].present => DOMAIN LinesOf(w)' # {}
    BY <1>8, <1>9, <2>1 DEF Whole
  <2>3. \A l \in DOMAIN LinesOf(w)' : entry'[w].present /\ SiteOf[line'[l].unit] = entry'[w].site
    BY <1>1, <1>8, <1>9, <2>1 DEF Whole
  <2>4. ~BulkOverlaps => Fits(LinesOf(w)')
    BY <1>9, <2>1 DEF Whole
  <2> QED
    BY <2>2, <2>3, <2>4 DEF Whole, Fits, LinesOf
<1>11. UnusedIsFree' /\ line' \in [Lines -> LineRecord]
  BY <1>1, <1>2 DEF UnusedIsFree, RowsTyped
<1>12. used \subseteq used' /\ used' \subseteq Lines /\ \A l \in used : line'[l].entry \in {line[l].entry, None}
  BY <1>1, <1>2 DEF RowsTyped
<1>13. Steady /\ RowsOK'
  BY <1>1, <1>8, <1>10, <1>11, <1>12, SavedRows
<1> QED
  BY <1>1, <1>13, EditingStays

\* A transfer, an archive, or nothing.
LEMMA EditingElse ==
  ASSUME EditingInv, UNCHANGED <<entry, line, used, call>>, ~BulkOverlaps => Quiet,
         assigned' \in [Entries -> Units], archived' \in BOOLEAN
  PROVE  EditingInv'
<1>1. RowsOK
  BY DEF EditingInv
<1>2. Steady
  BY <1>1, StillSteady
<1>3. RowsTyped' /\ UnusedIsFree'
  BY <1>1 DEF RowsOK, RowsTyped, UnusedIsFree
<1>4. EntryIsWhole'
  BY <1>1 DEF RowsOK, EntryIsWhole, AtLeastOneLine, LinesAtEntrySite, DaysWithinCycle, LinesOf, Fits
<1> QED
  BY <1>2, <1>3, <1>4, EditingStays DEF RowsOK

\* Nothing happens.
LEMMA EditingStutter ==
  ASSUME EditingInv, UNCHANGED vars
  PROVE  EditingInv'
<1>1. UNCHANGED <<entry, line, used, assigned, archived, call>>
  BY DEF vars
<1>2. RowsOK' /\ Steady
  BY <1>1, StillRows, StillSteady DEF EditingInv
<1>3. ASSUME NEW s \in Callers PROVE RequestOK(call[s])'
  <2>1. PICK q : q = call[s]
    OBVIOUS
  <2>2. RequestOK(q)'
    BY <1>2, <2>1, OthersKeep DEF EditingInv
  <2> QED
    BY <1>1, <2>1, <2>2 DEF RequestOK, Checked, Knows, Counted, Matched, Unwritten, Now, LinesOf
<1>4. BulkAlone'
  <2>1. ASSUME NEW s \in Callers, ~BulkOverlaps, call'[s].pc = "bulk"
        PROVE  Fitting(call[s])' /\ \A x \in Callers : call'[x].pc = "bulk" => x = s
    <3>1. PICK q : q = call[s]
      OBVIOUS
    <3>2. Fitting(q)
      BY <1>1, <2>1, <3>1 DEF EditingInv, BulkAlone
    <3>3. ASSUME NEW e \in DOMAIN q.matched, NEW b
          PROVE  Primary(e)' = Primary(e) /\ (Fits(Rebased(e, b)) => Fits(Rebased(e, b))')
      BY <1>1, LineSame
    <3>4. Fitting(q)'
      BY <1>1, <3>2, <3>3 DEF Fitting
    <3>5. call'[s] = q
      BY <1>1, <3>1
    <3>6. Fitting(call[s])'
      BY <3>4, <3>5 DEF Fitting
    <3> QED
      BY <1>1, <2>1, <3>6 DEF EditingInv, BulkAlone
  <2> QED
    BY <2>1 DEF BulkAlone
<1> QED
  BY <1>1, <1>2, <1>3, <1>4 DEF EditingInv

-----------------------------------------------------------------------------
\* Every step keeps the invariant.
LEMMA EditingStep ==
  ASSUME EditingInv, [Next]_vars
  PROVE  EditingInv'
<1>1. ASSUME NEW t \in Callers, CommitBulk(t) PROVE EditingInv'
  BY <1>1, EditingBulk
<1>2. ASSUME NEW t \in Callers, Quiet, Request(t) PROVE EditingInv'
  BY <1>2, EditingRequest
<1>3. ASSUME NEW t \in Callers, Quiet, Serve(t) PROVE EditingInv'
  BY <1>3, EditingCount, EditingFresh, EditingMatch, EditingAbort, EditingEdit, EditingAdd, EditingUpdate,
     EditingRemove, EditingAssign, EditingDelete DEF Serve
<1>4. ASSUME NEW e \in Entries, Quiet, Release(e) PROVE EditingInv'
  BY <1>4, EditingRelease
<1>5. ASSUME NEW e \in Entries, NEW u \in Units, Quiet, Transfer(e, u) PROVE EditingInv'
  <2>1. UNCHANGED <<entry, line, used, call>> /\ assigned' \in [Entries -> Units] /\ archived' \in BOOLEAN
    BY <1>5 DEF Transfer, EditingInv, RowsOK, RowsTyped
  <2> QED
    BY <1>5, <2>1, EditingElse
<1>6. ASSUME Quiet, Archive PROVE EditingInv'
  <2>1. UNCHANGED <<entry, line, used, call>> /\ assigned' \in [Entries -> Units] /\ archived' \in BOOLEAN
    BY <1>6 DEF Archive, EditingInv, RowsOK, RowsTyped
  <2> QED
    BY <1>6, <2>1, EditingElse
<1>7. ASSUME UNCHANGED vars PROVE EditingInv'
  BY <1>7, EditingStutter
<1>8. CASE Next
  BY <1>1, <1>2, <1>3, <1>4, <1>5, <1>6, <1>8 DEF Next
<1> QED
  BY <1>7, <1>8

\* The invariant holds, for every value of the constants.
THEOREM EditingHolds == Spec => []EditingInv
<1>1. Init => EditingInv
  BY InitEditing
<1>2. EditingInv /\ [Next]_vars => EditingInv'
  BY EditingStep
<1> QED
  BY <1>1, <1>2, PTL DEF Spec

(* An entry is always whole: of its lines one remains, they belong to its site, and the *)
(* days fit the cycle days where bulk updates overlap with nothing: EntryIsWhole.       *)
THEOREM EntryStaysWhole == Spec => []EntryIsWhole
<1>1. EditingInv => EntryIsWhole
  BY DEF EditingInv, RowsOK
<1> QED
  BY <1>1, EditingHolds, PTL

-----------------------------------------------------------------------------
(* The steps. *)

\* A step that ends a request which saves.
Commit(t) == CommitEdit(t) \/ CommitAdd(t) \/ CommitUpdate(t) \/ CommitRemove(t) \/ CommitAssign(t) \/ CommitDelete(t)

\* A request that writes has the version it read, and writes its own entry only.
LEMMA WritesItsOwn ==
  ASSUME EditingInv, NEW t \in Callers, NEW q, q = call[t], Commit(t), <<entry', line'>> # <<entry, line>>
  PROVE  /\ q.pc = "write" /\ Unwritten(q)
         /\ \A x \in Entries : x # q.entry => entry'[x] = entry[x]
         /\ \A l \in Lines : line[l].entry \notin {q.entry, None} => line'[l] = line[l]
<1> DEFINE Own == /\ q.pc = "write" /\ Unwritten(q)
                  /\ \A x \in Entries : x # q.entry => entry'[x] = entry[x]
                  /\ \A l \in Lines : line[l].entry \notin {q.entry, None} => line'[l] = line[l]
<1> SUFFICES Own
  OBVIOUS
<1>1. q.pc = "write"
  BY DEF Commit, CommitEdit, CommitAdd, CommitUpdate, CommitRemove, CommitAssign, CommitDelete
<1>2. RequestOK(q) /\ Checked(q) /\ Knows(q)
  BY <1>1 DEF EditingInv, RequestOK
<1>3. PICK w \in Entries : w = q.entry
  BY <1>2 DEF Checked
<1>4. entry \in [Entries -> EntryRecord] /\ line \in [Lines -> LineRecord]
  BY DEF EditingInv, RowsOK, RowsTyped
<1>5. SameVersion(t) => Unwritten(q)
  BY DEF SameVersion, Unwritten
<1>6. \A x \in Entries : x # w => Touched(w)[x] = entry[x]
  <2>1. PICK E : E = Touched(w)
    OBVIOUS
  <2>2. \A x \in Entries \ {w} : E[x] = entry[x]
    BY ONLY <1>4, <2>1, TouchedRow, w \in Entries
  <2> QED
    BY <2>1, <2>2
<1>7. Touched(w) \in [Entries -> EntryRecord]
  <2>1. PICK E : E = Touched(w)
    OBVIOUS
  <2>2. E \in [Entries -> EntryRecord]
    BY ONLY <1>4, <2>1, TouchedRow, w \in Entries
  <2> QED
    BY <2>1, <2>2
<1>8. ASSUME NEW M, WriteLines(t, M), \A l \in Lines : line[l].entry \notin {w, None} => M[l] = line[l]
      PROVE  Own
  <2>1. SameVersion(t) /\ entry' = Touched(w) /\ line' = M
    BY <1>3, <1>8 DEF WriteLines
  <2> QED
    BY <1>1, <1>3, <1>5, <1>6, <1>8, <2>1
<1> HIDE DEF Own
<1>9. CASE CommitEdit(t)
  <2>1. SameVersion(t) /\ line' = line
    BY <1>9 DEF CommitEdit
  <2>2. PICK E : E = Touched(w)
    OBVIOUS
  <2>3. entry' = [E EXCEPT ![w].rate = q.change[2]]
    BY <1>3, <1>9, <2>1, <2>2 DEF CommitEdit
  <2>4. \A x \in Entries : x # w => entry'[x] = E[x]
    BY <1>7, <2>2, <2>3
  <2> QED
    BY <1>1, <1>3, <1>5, <1>6, <2>1, <2>2, <2>4 DEF Own
<1>10. CASE CommitAdd(t)
  <2>a. PICK l \in Lines \ used : \E new : WriteLines(t, [line EXCEPT ![l] = new])
    BY <1>10 DEF CommitAdd
  <2>1. PICK new : WriteLines(t, [line EXCEPT ![l] = new])
    BY <2>a
  <2>2. PICK M : M = [line EXCEPT ![l] = new]
    OBVIOUS
  <2>3. \A x \in Lines : line[x].entry \notin {w, None} => M[x] = line[x]
    BY <1>4, <2>2 DEF EditingInv, RowsOK, UnusedIsFree
  <2> QED
    BY <1>8, <2>1, <2>2, <2>3
<1>11. CASE CommitUpdate(t)
  <2>1. PICK l : l = q.line
    OBVIOUS
  <2>2. PICK new : new = Changed(line[l], q.change[1], q.change[2])
    OBVIOUS
  <2>3. PICK M : M = [line EXCEPT ![l] = new]
    OBVIOUS
  <2>4. WriteLines(t, M)
    BY <1>11, <2>1, <2>2, <2>3 DEF CommitUpdate
  <2>5. line[l].entry \in {w, None}
    BY <1>2, <1>3, <1>11, <2>1 DEF CommitUpdate, Knows
  <2>6. \A x \in Lines : line[x].entry \notin {w, None} => M[x] = line[x]
    BY <1>4, <2>3, <2>5
  <2> QED
    BY <1>8, <2>4, <2>6
<1>12. CASE CommitRemove(t)
  <2>1. PICK l : l = q.line
    OBVIOUS
  <2>2. PICK M : M = [line EXCEPT ![l] = Deleted]
    OBVIOUS
  <2>3. WriteLines(t, M)
    BY <1>12, <2>1, <2>2 DEF CommitRemove
  <2>4. line[l].entry \in {w, None}
    BY <1>2, <1>3, <1>12, <2>1 DEF CommitRemove, Knows
  <2>5. \A x \in Lines : line[x].entry \notin {w, None} => M[x] = line[x]
    BY <1>4, <2>2, <2>4
  <2> QED
    BY <1>8, <2>3, <2>5
<1>13. CASE CommitAssign(t)
  <2>1. PICK u \in q.fresh :
          IF SameVersion(t)
          THEN /\ entry' = [Touched(w) EXCEPT ![w].site = SiteOf[u]]
               /\ line' = [line EXCEPT ![q.line].unit = u]
          ELSE UNCHANGED <<entry, line>>
    BY <1>3, <1>13 DEF CommitAssign
  <2>2. SameVersion(t) /\ entry' = [Touched(w) EXCEPT ![w].site = SiteOf[u]] /\ line' = [line EXCEPT ![q.line].unit = u]
    BY <2>1
  <2>3. PICK E : E = Touched(w)
    OBVIOUS
  <2>4. \A x \in Entries : x # w => entry'[x] = E[x]
    BY <1>7, <2>2, <2>3
  <2>5. line[q.line].entry \in {w, None}
    BY <1>2, <1>3, <1>13 DEF CommitAssign, Knows
  <2>6. \A x \in Lines : line[x].entry \notin {w, None} => line'[x] = line[x]
    BY <1>4, <2>2, <2>5
  <2> QED
    BY <1>1, <1>3, <1>5, <1>6, <2>2, <2>3, <2>4, <2>6 DEF Own
<1>14. CASE CommitDelete(t)
  <2>1. /\ SameVersion(t) /\ entry' = [entry EXCEPT ![w].present = FALSE]
        /\ line' = [l \in Lines |-> IF line[l].entry = w THEN Deleted ELSE line[l]]
    BY <1>3, <1>14 DEF CommitDelete
  <2>2. \A x \in Entries : x # w => entry'[x] = entry[x]
    BY <1>4, <2>1
  <2> QED
    BY <1>1, <1>3, <1>5, <2>1, <2>2 DEF Own
<1> QED
  BY <1>9, <1>10, <1>11, <1>12, <1>13, <1>14 DEF Commit

\* What the steps of Next write: a caller's commit, a bulk update, a release, or nothing.
LEMMA EditingSteps ==
  ASSUME EditingInv, [Next]_vars, <<entry', line'>> # <<entry, line>>
  PROVE  \/ \E t \in Callers : Commit(t) /\ Step(t, Idle)
         \/ \E t \in Callers : CommitBulk(t) /\ Step(t, Idle)
         \/ \E e \in Entries : Release(e) /\ call' = call
<1>1. ~ UNCHANGED vars
  BY DEF vars
<1>2. ASSUME NEW t \in Callers, Request(t) PROVE FALSE
  BY <1>2 DEF Request, RequestEdit, RequestAdd, RequestAssign, RequestDelete, RequestRemove, RequestUpdate, RequestBulk
<1>3. ASSUME NEW t \in Callers, Serve(t) PROVE Commit(t) /\ Step(t, Idle)
  <2>1. ~CountLines(t) /\ ~ReadFresh(t) /\ ~Match(t) /\ ~Abort(t)
    BY DEF CountLines, ReadFresh, Match, Abort
  <2>2. Commit(t)
    BY <1>3, <2>1 DEF Serve, Commit
  <2>3. Step(t, Idle)
    BY <2>2 DEF Commit, CommitEdit, CommitAdd, CommitUpdate, CommitRemove, CommitAssign, CommitDelete
  <2> QED
    BY <2>2, <2>3
<1>4. \A e \in Entries : \A u \in Units : ~Transfer(e, u)
  BY DEF Transfer
<1>5. ~Archive
  BY DEF Archive
<1>6. Next
  BY <1>1
<1>7. \A t \in Callers : CommitBulk(t) => Step(t, Idle)
  BY DEF CommitBulk
<1>8. \A e \in Entries : Release(e) => call' = call
  BY DEF Release
<1> QED
  BY <1>2, <1>3, <1>4, <1>5, <1>6, <1>7, <1>8 DEF Next

\* What is saved was seen.
LEMMA SavesWhatItSaw == ASSUME EditingInv, [Next]_vars PROVE SavingStep
<1> SUFFICES ASSUME NEW t \in Callers, call[t].kind \in Versioned, call'[t].pc = "idle",
                    <<entry', line'>> # <<entry, line>>, call[t].pc = "write"
             PROVE  Now(call[t].entry) = call[t].seen
  BY DEF SavingStep
<1>1. ASSUME NEW s \in Callers, Step(s, Idle) PROVE s = t
  BY <1>1 DEF Step, EditingInv
<1>2. ~(\E e \in Entries : Release(e) /\ call' = call)
  OBVIOUS
<1>3. ~(\E s \in Callers : CommitBulk(s) /\ Step(s, Idle))
  BY <1>1 DEF CommitBulk
<1>4. Commit(t)
  BY <1>1, <1>2, <1>3, EditingSteps
<1>5. PICK q : q = call[t]
  OBVIOUS
<1>6. q.pc = "write" /\ Unwritten(q)
  BY <1>4, <1>5, WritesItsOwn
<1>7. Now(q.entry) = q.seen
  BY <1>5, <1>6 DEF EditingInv, RequestOK, Knows
<1> QED
  BY <1>5, <1>7

\* A line whose unit an assignment changes has no days.
LEMMA NoWorkMoves == ASSUME EditingInv PROVE AssignmentStep
<1> SUFFICES ASSUME NEW t \in Callers, NEW l \in Lines, CommitAssign(t), line[l].entry # None, line'[l].unit # line[l].unit
             PROVE  NotWorked(l)
  BY DEF AssignmentStep
<1>1. PICK q : q = call[t]
  OBVIOUS
<1>2. q.pc = "write" /\ q.kind = "assign"
  BY <1>1 DEF CommitAssign
<1>3. Checked(q)
  BY <1>1, <1>2 DEF EditingInv, RequestOK
<1>4. PICK u \in q.fresh : SameVersion(t) /\ line' = [line EXCEPT ![q.line].unit = u]
  BY <1>1 DEF CommitAssign
<1>5. Unwritten(q)
  BY <1>1, <1>4 DEF SameVersion, Unwritten
<1>6. q.seen.lines = LinesOf(q.entry)
  BY <1>1, <1>2, <1>5, SeesNow
<1>7. l = q.line
  BY <1>4 DEF EditingInv, RowsOK, RowsTyped
<1>8. l \in DOMAIN LinesOf(q.entry) /\ LinesOf(q.entry)[l].days = 0
  BY <1>2, <1>3, <1>6, <1>7 DEF Checked
<1> QED
  BY <1>8 DEF LinesOf, NotWorked

\* Nobody writes an entry that is resolved.
LEMMA ResolvedStays == ASSUME EditingInv, [Next]_vars PROVE ResolvedStep
<1> SUFFICES ASSUME ~BulkOverlaps, NEW e \in Entries, entry[e].resolved, <<entry', line'>> # <<entry, line>>
             PROVE  entry'[e] = entry[e] /\ \A l \in DOMAIN LinesOf(e) : line'[l] = line[l]
  BY DEF ResolvedStep
<1>1. \A l \in DOMAIN LinesOf(e) : l \in Lines /\ line[l].entry = e
  BY DEF LinesOf
<1>2. e # None
  BY OtherAssumption
<1>3. entry \in [Entries -> EntryRecord] /\ line \in [Lines -> LineRecord]
  BY DEF EditingInv, RowsOK, RowsTyped
<1>4. CASE \E t \in Callers : Commit(t) /\ Step(t, Idle)
  <2>1. PICK t \in Callers : Commit(t)
    BY <1>4
  <2>2. PICK q : q = call[t]
    OBVIOUS
  <2>3. /\ q.pc = "write" /\ Unwritten(q)
        /\ \A x \in Entries : x # q.entry => entry'[x] = entry[x]
        /\ \A l \in Lines : line[l].entry \notin {q.entry, None} => line'[l] = line[l]
    BY <2>1, <2>2, WritesItsOwn
  <2>4. ~entry[q.entry].resolved
    BY <2>2, <2>3, SeesNow
  <2>5. e # q.entry
    BY <2>4
  <2> QED
    BY <1>1, <1>2, <2>3, <2>5
<1>5. CASE \E t \in Callers : CommitBulk(t) /\ Step(t, Idle)
  <2>1. PICK t \in Callers : CommitBulk(t)
    BY <1>5
  <2>2. PICK q : q = call[t]
    OBVIOUS
  <2>3. q.pc = "bulk"
    BY <2>1, <2>2 DEF CommitBulk
  <2>4. Fitting(q) /\ Matched(q)
    BY <2>2, <2>3 DEF EditingInv, BulkAlone, RequestOK
  <2>5. e \notin DOMAIN q.matched
    BY <2>4 DEF Fitting
  <2>6. entry'[e] = entry[e]
    BY <2>1, <2>2, <2>5 DEF CommitBulk
  <2>7. ASSUME NEW l \in DOMAIN LinesOf(e) PROVE line'[l] = line[l]
    <3>1. \A x \in DOMAIN q.matched : q.matched[x].line # l
      BY <1>1, <1>2, <2>4, <2>5, <2>7 DEF Matched
    <3> QED
      BY <1>1, <2>1, <2>2, <2>7, <3>1 DEF CommitBulk
  <2> QED
    BY <2>6, <2>7
<1>6. CASE \E w \in Entries : Release(w) /\ call' = call
  <2>1. PICK w \in Entries : Release(w)
    BY <1>6
  <2>2. ~entry[w].resolved /\ line' = line
    BY <2>1 DEF Release, Editable
  <2>3. PICK E : E = Touched(w)
    OBVIOUS
  <2>4. E \in [Entries -> EntryRecord] /\ \A x \in Entries \ {w} : E[x] = entry[x]
    BY ONLY <1>3, <2>3, TouchedRow, w \in Entries
  <2>5. entry' = [E EXCEPT ![w].resolved = TRUE]
    BY <2>1, <2>3 DEF Release
  <2> QED
    BY <2>2, <2>4, <2>5
<1> QED
  BY <1>4, <1>5, <1>6, EditingSteps

(* No edit is saved over a state of its entry or its lines that the editor has not *)
(* seen, whatever edits, releases, assignments and bulk updates overlap with it.   *)
THEOREM NothingIsOverwritten == Spec => NothingOverwritten
<1>1. EditingInv /\ [Next]_vars => SavingStep
  BY SavesWhatItSaw
<1> QED
  BY <1>1, EditingHolds, PTL DEF Spec, NothingOverwritten

(* Days that were worked stay with their unit, and what a sweep has resolved stays *)
(* as it is where bulk updates overlap with nothing.                               *)
THEOREM WorkIsAlwaysKept == Spec => WorkIsKept
<1>1. EditingInv /\ [Next]_vars => AssignmentStep /\ ResolvedStep
  BY NoWorkMoves, ResolvedStays
<1> QED
  BY <1>1, EditingHolds, PTL DEF Spec, WorkIsKept
=================================================================================
