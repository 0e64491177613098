----------------------- MODULE CorrectionLedgerInvariant -----------------------
(***************************************************************************)
(* The inductive invariant behind ReservationsCovered and the refinement.  *)
(* Its heart is LockedFigures: what a transaction read of an adjustment    *)
(* while taking its lock is still true when it commits, because only the   *)
(* holder of that lock changes the balance or its reservations.            *)
(***************************************************************************)
EXTENDS CorrectionLedger

-----------------------------------------------------------------------------
(* What holds of the rows, whoever is running. *)

(* Rollover archives the old cycle as it creates the new one, so every cycle before *)
(* an existing one is archived: there is one current cycle at most.                 *)
OneCurrentCycle ==
    \A c, d \in Cycles : c < d /\ cycleStatus[d] # "NONE" => cycleStatus[c] = "ARCHIVED"

(* A row that does not exist yet has no money in it and nothing refers to it. *)
RowsWellFounded ==
    \A a \in Adjustments :
        /\ adj[a].status = "NONE" => adj[a].amount = 0 /\ adj[a].remaining = 0 /\ reserved[a] = 0
        /\ adj[a].status # "NONE" => adj[a].employee \in Employees
        /\ \A c \in Cycles : mat[a][c].status # "NONE" =>
                                adj[a].status # "NONE" /\ cycleStatus[c] # "NONE"

(* A reservation is of something, and one that a release may still consume is part *)
(* of the reserved amount.                                                          *)
DraftReservationsCounted ==
    \A a \in Adjustments, c \in Cycles :
        mat[a][c].status = "ACTIVE" =>
            /\ mat[a][c].amount > 0
            /\ cycleStatus[c] = "DRAFT" => mat[a][c].amount <= reserved[a]

RowsOK ==
    /\ OneCurrentCycle
    /\ RowsWellFounded
    /\ DraftReservationsCounted
    /\ ReservationsCovered

-----------------------------------------------------------------------------
(* What holds of one transaction, from its own locks and what it has read. *)

(* It locks adjustments that exist, and holds none before it reaches the statement *)
(* that takes one.                                                                  *)
LocksHeld(t) ==
    /\ \A a \in Holds(t) \cup txn[t].todo : adj[a].status # "NONE"
    /\ txn[t].pc \in {"idle", "cycle", "adjustment", "entries", "count", "archive"}
          => Holds(t) = {}
    /\ txn[t].kind = "finalize" => Holds(t) = {}
    /\ txn[t].kind = "rollover" => txn[t].cycle + 1 \in Cycles

(* While it holds a cycle row, the cycle keeps the status it had when it was locked. *)
LockedCycle(t) ==
    LET c == txn[t].cycle IN
    /\ txn[t].kind \in {"materialize", "batch"} /\ txn[t].pc = "write"
          => cycleLock[c] = t /\ cycleStatus[c] = "DRAFT"
    /\ txn[t].kind = "release" /\ txn[t].pc \in {"entries", "consume"}
          => cycleLock[c] = t /\ cycleStatus[c] = "DRAFT"
    /\ txn[t].kind \in {"materialize", "batch"} /\ txn[t].pc = "adjustment" => cycleLock[c] = t
    /\ txn[t].kind = "rollover" /\ txn[t].pc = "carry"
          => cycleLock[c] = t /\ cycleStatus[c] = "RELEASED"

(* What it decided for an adjustment it holds is still within the figures. *)
LockedFigures(t) ==
    \A a \in Holds(t) :
        LET plan == txn[t].plan[a]
            c    == txn[t].cycle
            free == adj[a].remaining - reserved[a]
        IN
        /\ txn[t].kind \in {"payment", "settle", "materialize", "batch"} /\ txn[t].pc = "write"
              => 0 < plan.amount /\ plan.amount <= free
        /\ txn[t].kind = "rollover" /\ txn[t].pc = "carry" => plan.amount <= free
        /\ txn[t].kind = "release" /\ txn[t].pc = "consume"
              => plan.amount <= mat[a][c].amount

TransactionOK(t) == LocksHeld(t) /\ LockedCycle(t) /\ LockedFigures(t)

IInv == TypeOK /\ RowsOK /\ \A t \in Txns : TransactionOK(t)

-----------------------------------------------------------------------------
(* What holds on top of IInv, and makes the books agree. *)

(* A cycle that does not exist has no entries; a reservation refers to an entry     *)
(* (the foreign key that keeps a departed employee's entry).                        *)
RowsLinked ==
    /\ \A c \in Cycles, e \in Employees : cycleStatus[c] = "NONE" => entry[c][e].outcome = "NONE"
    /\ \A a \in Adjustments, c \in Cycles :
          /\ mat[a][c].status = "NONE" => mat[a][c].amount = 0
          /\ mat[a][c].status # "NONE" => entry[c][adj[a].employee].outcome # "NONE"

Planned(t) == [a \in Adjustments |-> txn[t].plan[a].amount]

(* A sweep or a rollover plans amounts for the adjustments it holds only, and skips  *)
(* no candidate.                                                                     *)
PlansHeld(t) ==
    txn[t].kind \in {"release", "rollover"} =>
        /\ txn[t].pc # "skip"
        /\ \A a \in Adjustments : txn[t].plan[a].amount > 0 => a \in Holds(t)
        /\ txn[t].pc \in {"cycle", "entries", "archive"} => txn[t].todo = {}

(* The entries of a sweep stay unresolved until it commits; from its update on they *)
(* exist, and what it has planned to take from each, with the capacity left, is no  *)
(* more than the entry can bear.                                                    *)
SweepOK(t) ==
    LET c == txn[t].cycle
        S == txn[t].chosen
    IN
    txn[t].kind = "release" =>
        /\ txn[t].pc \in {"entries", "consume"} => \A e \in S : ~Resolved(entry[c][e])
        /\ txn[t].pc = "consume" =>
             /\ \A e \in S :
                  /\ entry[c][e].outcome # "NONE"
                  /\ txn[t].capacity[e] + Total(e, "RECOVERY", Planned(t)) <= Bearable(entry[c][e])
             /\ \A a \in Holds(t) \cup txn[t].todo : adj[a].employee \in S
             /\ \A a \in Holds(t) : txn[t].plan[a].amount > 0 => settlement[a][c] = 0

(* The entries a rollover is creating carry what it has reserved so far. *)
CarryOK(t) ==
    LET read == txn[t].read IN
    txn[t].kind = "rollover" /\ txn[t].pc = "carry" =>
        /\ \A e \in Employees :
              /\ read[e].outcome = IF e \in txn[t].chosen THEN "OPEN" ELSE "NONE"
              /\ read[e].payable = Total(e, "PAYABLE", Planned(t))
              /\ read[e].recovery = Total(e, "RECOVERY", Planned(t))
        /\ \A a \in Holds(t) \cup txn[t].todo : adj[a].employee \in txn[t].chosen

BooksInv == RowsLinked /\ BooksAgree /\ \A t \in Txns : PlansHeld(t) /\ SweepOK(t) /\ CarryOK(t)
=============================================================================
