---------------------------- MODULE EntryAutosave ----------------------------
(***************************************************************************)
(* The autosave of one row of the Payroll Entry grid:                      *)
(* use-payroll-entry-editor.ts, with the requests of use-payroll-entries.ts*)
(* and the payroll-entry-save-status-store.ts that the release page, the   *)
(* navigation guard and the unload guard consult.                          *)
(*                                                                         *)
(* An editor is one mounting of the row.  A row that is scrolled out of    *)
(* the window is unmounted and its editor keeps its drafts and timers but  *)
(* is never rendered again; scrolling back mounts a new editor.  What the  *)
(* editor reads through refs changes at a Render only ("seen", "lines",    *)
(* "told"), and a request holds the version that was seen.                 *)
(*                                                                         *)
(* The server is the contract of PayrollEntryEditing: a request is applied *)
(* if its version is the entry's, and the entry then has the next one.     *)
(***************************************************************************)
EXTENDS Naturals, FiniteSetsExt

CONSTANTS
  Keys,          \* the fields that can be edited: <<line, name>>; line 0 is the entry
  Lines,         \* the work lines the entry may have, numbers above 0
  Values,        \* what may be typed
  Unfinished,    \* the values no request carries ("-", "", "1.")
  Refused,       \* the values the server answers with 400
  NoValue,       \* the key has no draft
  MaxMounts,     \* how often the row is mounted
  MaxAutoRetries,
  Careful,       \* "line": lines are added and deleted only when nothing is dirty, and nothing
                 \* is typed meanwhile; "scroll": the row leaves the screen only when all is saved;
                 \* "reload": nothing is typed until the reload of a conflict has been answered;
                 \* "cycleDays": its text is not changed between a flush's start and its request
  MaxEdits, MaxLineEdits, MaxForeign, MaxLost, MaxClicks   \* bounds

ASSUME KeysAssumption == Keys \subseteq (({0} \cup Lines) \X {"amount", "days", "cycleDays"})
ASSUME LinesAssumption == Lines \subseteq Nat \ {0} /\ 1 \in Lines /\ IsFiniteSet(Lines)
ASSUME ValuesAssumption == NoValue \notin Values /\ Unfinished \subseteq Values /\ Refused \subseteq Values

VARIABLES
  server,     \* the entry: version, lines, the value of every key, and (history) the version
              \* that somebody else's last change left
  cache,      \* the query cache of this tab: the version and lines it holds
  editors,    \* every editor the row has had
  mounted,    \* the editor that is on the screen, 0 for none
  mounts,     \* how many editors there have been
  store,      \* the row's record in the save-status store, and the editor that put it there
  orphans,    \* requests given up by the browser that may still reach the server
  typed,      \* history: the last value typed for a key, by a user who had seen what others
              \* made of the entry, and not discarded since
  spent       \* how much of each bound is used

vars == <<server, cache, editors, mounted, mounts, store, orphans, typed, spent>>

Editors == 1..MaxMounts
Statuses == {"quiet", "dirty", "saving", "error", "conflict"}
NoDraft == [k \in Keys |-> NoValue]
NoRequest == [kind |-> "none", line |-> 0, fields |-> NoDraft, raw |-> NoDraft, version |-> 0]
NoAnswer == [result |-> "none", version |-> 0, lines |-> {}]

\* usePayrollEntryEditor: the refs and states of a row that has just been mounted.
Fresh(c) ==
  [draft |-> NoDraft, seen |-> c.version, lines |-> c.lines, told |-> "quiet", status |-> "quiet",
   saving |-> FALSE, pending |-> FALSE, retries |-> 0, timer |-> FALSE, backoffs |-> 0,
   batch |-> NoDraft, asked |-> NoRequest, answer |-> NoAnswer, reloading |-> FALSE]

Spend(what) == spent' = [spent EXCEPT ![what] = @ + 1]

-----------------------------------------------------------------------------
(* commit(): one flush of the dirty fields, the entry first and then every *)
(* line, each request with the version of the answer before it.            *)

\* sanitizeEntryDraft, sanitizeLineDraft: what is dirty and complete enough to be sent.
Sendable(e) ==
  {k \in Keys : e.draft[k] \notin Unfinished \cup {NoValue} /\ k[1] \in {0} \cup e.lines}

\* The parts of the batch that are still to be sent.
Left(e) == {k[1] : k \in {k \in Keys : e.batch[k] # NoValue}}

\* The next request of a flush.  The fields were taken when the flush began; the raw text of
\* cycleDays, which the draft is compared with afterwards, is taken now.
Ask(e, version) ==
  LET line == Min(Left(e))
      Of(values) == [k \in Keys |-> IF k[1] = line THEN values[k] ELSE NoValue]
  IN  [e EXCEPT !.asked = [kind |-> "put", line |-> line, fields |-> Of(e.batch), raw |-> Of(e.draft),
                           version |-> version],
                !.answer = NoAnswer,
                !.batch = [k \in Keys |-> IF k[1] = line THEN NoValue ELSE @[k]]]

\* A flush starts when there is something to send and none is under way; while one is, the
\* request for another is remembered.
Starts(e) == e.told # "conflict" /\ Sendable(e) # {} /\ ~e.saving

Commit(e) ==
  IF Starts(e)
  THEN Ask([e EXCEPT !.saving = TRUE, !.status = "saving",
                     !.batch = [k \in Keys |-> IF k \in Sendable(e) THEN e.draft[k] ELSE NoValue]],
           e.seen)
  ELSE [e EXCEPT !.pending = @ \/ (e.saving /\ e.told # "conflict" /\ Sendable(e) # {})]

\* The finally block: the gate is opened and a remembered flush starts.
Finish(e) ==
  LET f == [e EXCEPT !.saving = FALSE, !.pending = FALSE, !.batch = NoDraft,
                     !.asked = NoRequest, !.answer = NoAnswer]
  IN  IF e.pending THEN Commit(f) ELSE f

\* (A first form, for comparison, that drops every draft that was sent.)
ClearedBlindly(e) ==
  [e EXCEPT !.draft = [k \in Keys |-> IF e.asked.fields[k] # NoValue THEN NoValue ELSE @[k]]]

\* clearSavedEntryKeys, clearSavedLineKeys: a draft is dropped if it is still what was sent.
Cleared(e) ==
  [e EXCEPT !.draft = [k \in Keys |->
     IF /\ e.asked.fields[k] # NoValue
        /\ @[k] = (IF k[2] = "cycleDays" THEN e.asked.raw[k] ELSE e.asked.fields[k])
     THEN NoValue ELSE @[k]]]

\* (A first form, for comparison, that does not look at the drafts again.)
SettledQuiet(e) == [e EXCEPT !.retries = 0, !.status = "quiet"]

\* What the row reports once everything was sent.
Settled(e) == [e EXCEPT !.retries = 0, !.status = IF e.draft = NoDraft THEN "quiet" ELSE "dirty"]

\* The next request of the flush, or its end.
Proceed(e, version) == IF Left(e) # {} THEN Ask(e, version) ELSE Finish(Settled(e))

\* The catch block: a conflict stops, a refused value waits for the user, anything else is
\* tried again a bounded number of times.
Failed(e, result) ==
  CASE result = "conflict" -> Finish([e EXCEPT !.status = "conflict"])
    [] result = "refused" -> Finish([e EXCEPT !.status = "error"])
    [] OTHER -> Finish([e EXCEPT !.status = "error", !.retries = @ + 1,
                                 !.backoffs = IF e.retries < MaxAutoRetries THEN @ + 1 ELSE @])

\* payrollEntrySaveStatusStore.set: the record of the row is the last report of any editor;
\* 'saved' and 'idle' remove it.
Report(i, e, says) ==
  store' = IF says THEN [status |-> e.status, by |-> i] ELSE store

Becomes(i, e) == editors' = [editors EXCEPT ![i] = e]

\* An event of the user is rendered at once; what an answer or a timer sets, at the next Render.
Drawn(i, e) == [e EXCEPT !.told = IF mounted = i THEN e.status ELSE @]

-----------------------------------------------------------------------------
Init ==
  /\ server = [version |-> 1, foreign |-> 0, lines |-> {1}, val |-> [k \in Keys |-> CHOOSE v \in Values : v \notin Unfinished \cup Refused]]
  /\ cache = [version |-> 1, lines |-> {1}]
  /\ editors = [i \in Editors |-> Fresh(cache)]
  /\ mounted = 1
  /\ mounts = 1
  /\ store = [status |-> "quiet", by |-> 1]
  /\ orphans = {}
  /\ typed = NoDraft
  /\ spent = [edits |-> 0, lines |-> 0, foreign |-> 0, lost |-> 0, clicks |-> 0]

\* A render: the refs take the entry of the cache and the status of the last report.
Render(i) ==
  LET e == editors[i]
      drawn == [e EXCEPT !.seen = cache.version, !.lines = cache.lines, !.told = e.status]
  IN  /\ mounted = i
      /\ drawn # e
      /\ Becomes(i, drawn)
      /\ UNCHANGED <<server, cache, mounted, mounts, store, orphans, typed, spent>>

\* setEntryField, setLineField and scheduleSave.  The inputs of the split modal are disabled
\* while the row is saving; the grid's own cells, the entry's and the first line's, are not.
Type(i, k, v) ==
  LET e == editors[i]
  IN  /\ mounted = i
      /\ k[1] \in {0} \cup e.lines
      /\ k[1] \notin {0, Min(e.lines)} => e.told # "saving"
      /\ v # e.draft[k]
      /\ "line" \in Careful => e.asked.kind \notin {"add", "delete"}
      /\ "reload" \in Careful => \A j \in Editors : ~editors[j].reloading
      /\ "cycleDays" \in Careful /\ k[2] = "cycleDays" => e.batch[k] = NoValue
      /\ spent.edits < MaxEdits
      /\ LET next == [e EXCEPT !.draft[k] = v, !.timer = TRUE,
                               !.status = IF e.told = "conflict" THEN @ ELSE "dirty"]
         IN  Becomes(i, Drawn(i, next)) /\ Report(i, next, e.told # "conflict")
      /\ typed' = [typed EXCEPT ![k] = IF cache.version >= server.foreign THEN v ELSE NoValue]
      /\ Spend("edits")
      /\ UNCHANGED <<server, cache, mounted, mounts, orphans>>

\* The debounce timer.
Debounced(i) ==
  LET e == editors[i]
      next == Commit([e EXCEPT !.timer = FALSE])
  IN  /\ e.timer
      /\ Becomes(i, next) /\ Report(i, next, Starts(e))
      /\ UNCHANGED <<server, cache, mounted, mounts, orphans, typed, spent>>

\* The timer of an automatic retry.
Retry(i) ==
  LET e == editors[i]
      next == Commit([e EXCEPT !.backoffs = @ - 1])
  IN  /\ e.backoffs > 0
      /\ Becomes(i, next) /\ Report(i, next, Starts(e))
      /\ UNCHANGED <<server, cache, mounted, mounts, orphans, typed, spent>>

\* retryNow: from the row's own icon, or from "Retry all failed" of the banner.
RetryNow(i) ==
  LET e == editors[i]
      next == Commit([e EXCEPT !.backoffs = IF @ > 0 THEN @ - 1 ELSE 0, !.retries = 0])
  IN  /\ (mounted = i /\ e.told = "error") \/ store = [status |-> "error", by |-> i]
      /\ spent.clicks < MaxClicks
      /\ Becomes(i, Drawn(i, next)) /\ Report(i, next, Starts(e))
      /\ Spend("clicks")
      /\ UNCHANGED <<server, cache, mounted, mounts, orphans, typed>>

-----------------------------------------------------------------------------
(* Lines are added and deleted at once, through the same gate.             *)

Structural(i, kind, line) ==
  LET e == editors[i]
      drop == [k \in Keys |-> IF kind = "delete" /\ k[1] = line THEN NoValue ELSE e.draft[k]]
      next == [e EXCEPT !.draft = drop, !.timer = @ /\ kind = "add",
                        !.saving = TRUE, !.status = "saving", !.answer = NoAnswer,
                        !.asked = [kind |-> kind, line |-> line, fields |-> NoDraft, raw |-> NoDraft,
                                   version |-> e.seen]]
  IN  /\ mounted = i
      /\ e.told \notin {"conflict", "saving"} /\ ~e.saving
      /\ "line" \in Careful => e.draft = NoDraft
      /\ spent.lines < MaxLineEdits
      /\ Becomes(i, Drawn(i, next)) /\ Report(i, next, TRUE)
      /\ typed' = [k \in Keys |-> IF k[1] = line THEN NoValue ELSE typed[k]]
      /\ Spend("lines")
      /\ UNCHANGED <<server, cache, mounted, mounts, orphans>>

AddLine(i, line) == line \notin editors[i].lines /\ Structural(i, "add", line)

DeleteLine(i, line) ==
  line \in editors[i].lines /\ editors[i].lines # {line} /\ Structural(i, "delete", line)

-----------------------------------------------------------------------------
(* The server, and the network between.                                    *)

\* What the server answers to a request.
Answer(r) ==
  IF r.kind # "add" /\ r.line \notin {0} \cup server.lines THEN "missing"
  ELSE IF r.version # server.version THEN "conflict"
  ELSE IF \E k \in Keys : r.fields[k] \in Refused THEN "refused"
  ELSE "ok"

\* What an accepted request makes of the entry.
Applied(r) ==
  [version |-> server.version + 1,
   foreign |-> server.foreign,
   lines |-> CASE r.kind = "add" -> server.lines \cup {r.line}
               [] r.kind = "delete" -> server.lines \ {r.line}
               [] OTHER -> server.lines,
   val |-> [k \in Keys |-> IF r.fields[k] # NoValue THEN r.fields[k] ELSE server.val[k]]]

Process(r) == server' = IF Answer(r) = "ok" THEN Applied(r) ELSE server

\* The server takes the request of an editor that waits.
Handle(i) ==
  LET e == editors[i]
  IN  /\ e.asked.kind # "none" /\ e.answer.result = "none"
      /\ Process(e.asked)
      /\ Becomes(i, [e EXCEPT !.answer = [result |-> Answer(e.asked), version |-> server'.version,
                                          lines |-> server'.lines]])
      /\ UNCHANGED <<cache, mounted, mounts, store, orphans, typed, spent>>

\* The answer arrives: the mutation's onSuccess puts it into the cache, and the flush goes on
\* before anything is rendered.
Deliver(i) ==
  LET e == editors[i]
      ok == e.answer.result = "ok"
      next == IF ~ok THEN IF e.asked.kind = "put" THEN Failed(e, e.answer.result)
                          ELSE Finish([e EXCEPT !.status = IF e.answer.result = "conflict"
                                                           THEN "conflict" ELSE "error"])
              ELSE IF e.asked.kind = "put" THEN Proceed(Cleared(e), e.answer.version)
              ELSE Finish([e EXCEPT !.retries = 0, !.status = "quiet"])
  IN  /\ e.answer.result # "none"
      /\ cache' = IF ok THEN [version |-> e.answer.version, lines |-> e.answer.lines] ELSE cache
      /\ Becomes(i, next) /\ Report(i, next, ~(ok /\ Left(e) # {}))
      /\ UNCHANGED <<server, mounted, mounts, orphans, typed, spent>>

\* The request is given up after 15 seconds, or the connection fails.  It may be lost, be
\* still on its way, or have been applied and only its answer be lost.
GiveUp(i) ==
  LET e == editors[i]
      next == IF e.asked.kind = "put" THEN Failed(e, "lost") ELSE Finish([e EXCEPT !.status = "error"])
  IN  /\ e.asked.kind # "none"
      /\ spent.lost < MaxLost
      /\ \/ orphans' = orphans
         \/ e.answer.result = "none" /\ orphans' = orphans \cup {e.asked}
      /\ Becomes(i, next) /\ Report(i, next, TRUE)
      /\ Spend("lost")
      /\ UNCHANGED <<server, cache, mounted, mounts, typed>>

\* A request nobody waits for any more reaches the server.
HandleLate(r) ==
  /\ r \in orphans
  /\ orphans' = orphans \ {r}
  /\ Process(r)
  /\ UNCHANGED <<cache, editors, mounted, mounts, store, typed, spent>>

\* Somebody else changes the entry, a key of it or none of these.
Foreign ==
  /\ spent.foreign < MaxForeign
  /\ \/ server' = [server EXCEPT !.version = @ + 1, !.foreign = server.version + 1]
        /\ typed' = typed
     \/ \E k \in Keys, v \in Values \ (Unfinished \cup Refused) :
          /\ k[1] \in {0} \cup server.lines
          /\ server' = [server EXCEPT !.version = @ + 1, !.foreign = server.version + 1, !.val[k] = v]
          /\ typed' = [typed EXCEPT ![k] = NoValue]
  /\ Spend("foreign")
  /\ UNCHANGED <<cache, editors, mounted, mounts, store, orphans>>

-----------------------------------------------------------------------------
\* reload: offered in a conflict only; the drafts are discarded and the entry is fetched.
Reload(i) ==
  LET e == editors[i]
      next == [Fresh(cache) EXCEPT !.seen = e.seen, !.lines = e.lines,
                                   !.reloading = TRUE,
                                   !.backoffs = IF e.backoffs > 0 THEN e.backoffs - 1 ELSE 0]
  IN  /\ mounted = i /\ e.told = "conflict" /\ e.status = "conflict"
      /\ Becomes(i, next) /\ Report(i, next, TRUE)
      /\ typed' = [k \in Keys |-> IF e.draft[k] # NoValue THEN NoValue ELSE typed[k]]
      /\ UNCHANGED <<server, cache, mounted, mounts, orphans, spent>>

\* reloadPayrollEntry: the fetched entry goes into the cache; a fetch that fails leaves it.
Reloaded(i) ==
  /\ editors[i].reloading
  /\ Becomes(i, [editors[i] EXCEPT !.reloading = FALSE])
  /\ \/ cache' = [version |-> server.version, lines |-> server.lines] /\ spent' = spent
     \/ spent.lost < MaxLost /\ cache' = cache /\ Spend("lost")
  /\ UNCHANGED <<server, mounted, mounts, store, orphans, typed>>

\* The row leaves the virtualizer's window; its editor keeps its timers.
ScrollOut ==
  /\ mounted # 0 /\ mounts < MaxMounts
  /\ "scroll" \in Careful => \A i \in Editors : editors[i].draft = NoDraft /\ ~editors[i].saving
  /\ mounted' = 0
  /\ UNCHANGED <<server, cache, editors, mounts, store, orphans, typed, spent>>

\* The row comes back: a new editor, with no draft and the cache's entry.
ScrollIn ==
  /\ mounted = 0
  /\ mounts' = mounts + 1
  /\ mounted' = mounts'
  /\ Becomes(mounts', Fresh(cache))
  /\ UNCHANGED <<server, cache, store, orphans, typed, spent>>

Next ==
  \/ \E i \in Editors :
       \/ Render(i)
       \/ \E k \in Keys, v \in Values : Type(i, k, v)
       \/ Debounced(i) \/ Retry(i) \/ RetryNow(i)
       \/ \E line \in Lines : AddLine(i, line) \/ DeleteLine(i, line)
       \/ Handle(i) \/ Deliver(i) \/ GiveUp(i)
       \/ Reload(i) \/ Reloaded(i)
  \/ \E r \in orphans : HandleLate(r)
  \/ Foreign
  \/ ScrollOut \/ ScrollIn

Spec == Init /\ [][Next]_vars

\* Timers fire, the browser renders, and a request is answered (or given up, which is not
\* bounded in the code: the timeout of 15 seconds).
Fairness ==
  \A i \in Editors :
    /\ WF_vars(Render(i)) /\ WF_vars(Debounced(i)) /\ WF_vars(Retry(i))
    /\ WF_vars(Handle(i)) /\ WF_vars(Deliver(i)) /\ WF_vars(Reloaded(i))

FairSpec == Spec /\ Fairness

-----------------------------------------------------------------------------
\* The types of the variables, and the counters within their bounds.
TypeOK ==
  /\ server.version \in Nat \ {0} /\ server.lines \subseteq Lines /\ server.lines # {}
  /\ \A k \in Keys : server.val[k] \in Values \ (Unfinished \cup Refused)
  /\ cache.version \in 1..server.version
  /\ \A i \in Editors :
       /\ editors[i].draft \in [Keys -> Values \cup {NoValue}]
       /\ editors[i].status \in Statuses /\ editors[i].told \in Statuses
       /\ editors[i].seen \in 1..server.version
       /\ editors[i].saving <=> editors[i].asked.kind # "none"
  /\ mounts \in Editors /\ mounted \in {0, mounts}
  /\ store.status \in Statuses
  /\ spent.edits <= MaxEdits /\ spent.lost <= MaxLost

\* What the user typed last for a field and has not discarded is still a draft of some
\* editor, or is what the server has: no answer, retry, late request or second editor of the
\* row may put an older value over it or drop it.  What was saved is told from what was typed
\* since by its value, so two things may: typing while a reload is not yet answered
\* (use-payroll-entry-editor.ts:207, an answer that brings in somebody else's change and a
\* request under way that carries the value typed then), and changing the text of cycleDays
\* between the start of a flush and its own request (:305). "reload" and "cycleDays" of
\* Careful exclude them.
LastEditKept ==
  \A k \in Keys :
    (/\ typed[k] # NoValue
     /\ \A i \in Editors : editors[i].draft[k] = NoValue
     /\ k[1] \in {0} \cup server.lines)
    => server.val[k] = typed[k]

\* While an editor of the row has a draft, the save-status store has a record of the row, or
\* the draft's debounce timer is about to put one there: the banner, the guards against
\* leaving and the release page see that it is not saved.
PendingIsShown ==
  \A i \in 1..mounts :
    editors[i].draft # NoDraft => store.status # "quiet" \/ editors[i].timer

=============================================================================
