--------------------------- MODULE PortfolioResults ---------------------------
(***************************************************************************)
(* The money side of Portfolio: accounting days                            *)
(* (portfolio_accounting_day, portfolio_accounting_day_store) and the      *)
(* once-only receipts of final results (portfolio_final_receipt_store).    *)
(*                                                                         *)
(* Every write of a day selects its row FOR UPDATE, computes the new day   *)
(* from what it read and updates the row.  A receipt takes the advisory    *)
(* locks of its result and of its tranche, in the order of their keys,     *)
(* looks for a receipt of either and inserts its own.  All locks are held  *)
(* to the end of the transaction, which may roll back at any point.        *)
(***************************************************************************)
EXTENDS Integers, FiniteSets, Functions

CONSTANTS
    Day,        \* accounting_day_id
    Opening,    \* opening records of a day: [day, base], base Nil if unproven
    Posting,    \* final results: [result, tranche, day, pnl, delivered]
    Unrealized, \* values of unrealized_pnl the metrics may report
    Event,      \* order events: [id, result, tranche, final, balanced]
    ResultKey,  \* ResultKey[r], TrancheKey[t]: the advisory keys, hashes
    TrancheKey, \* without an order of their own
    MaxKey,     \* the largest key; a key is a signed word
    Txn,        \* database transactions
    Nil

VARIABLES
    day,       \* day[d]: the day's row, or Nil
    results,   \* triggertrade_portfolio_accounting_day_results
    receipts,  \* portfolio_final_receipt records: the accepted events
    txn        \* txn[x]: what transaction x is doing, or Nil

vars == <<day, results, receipts, txn>>

\* Mutant: only the result is locked.
ReceiptKeysOfResult(e) == {ResultKey[e.result]}

ReceiptKeys(e) == {ResultKey[e.result], TrancheKey[e.tranche]}

Days == [base : {o.base : o \in Opening}, realized : Int,
         unrealized : Int \cup {Nil}, total : Int \cup {Nil}, latched : BOOLEAN]

Keys == (-MaxKey - 1)..MaxKey
Work == [kind : {"day"}, day : Day, read : Days]
        \cup [kind : {"receipt"}, event : Event, held : SUBSET Keys, looked : BOOLEAN]

ResultsConstants ==
    /\ \A o \in Opening : o.day \in Day
    /\ \A p \in Posting : p.day \in Day /\ p.pnl \in Int
    /\ Unrealized \subseteq Int
    /\ MaxKey \in Nat
    /\ \A e \in Event : ReceiptKeys(e) \subseteq Keys
    /\ Nil \notin Int \cup Days \cup Work

TypeOK ==
    /\ day \in [Day -> Days \cup {Nil}]
    /\ results \subseteq Posting
    /\ receipts \subseteq Event
    /\ txn \in [Txn -> Work \cup {Nil}]

Init ==
    /\ day = [d \in Day |-> Nil]
    /\ results = {}
    /\ receipts = {}
    /\ txn = [x \in Txn |-> Nil]

End(x) == txn' = [txn EXCEPT ![x] = Nil]

(***************************************************************************)
(* An exception, or the process dies: the transaction rolls back.          *)
(***************************************************************************)
Rollback(x) ==
    /\ txn[x] # Nil
    /\ End(x)
    /\ UNCHANGED <<day, results, receipts>>

-----------------------------------------------------------------------------
(* Accounting days.                                                        *)

(***************************************************************************)
(* record_day.  Base, evidence and rollover state of a recorded day are    *)
(* never replaced: the same opening is a replay, another one a conflict.   *)
(***************************************************************************)
\* establish_day_from_reconstruction: without a base the day is RECONCILING.
NewDay(o) == [base |-> o.base, realized |-> 0, unrealized |-> Nil, total |-> Nil, latched |-> FALSE]

RecordDay(o) ==
    /\ day[o.day] = Nil
    /\ day' = [day EXCEPT ![o.day] = NewDay(o)]
    /\ UNCHANGED <<results, receipts, txn>>

(***************************************************************************)
(* get_day(for_update = True)                                              *)
(***************************************************************************)
\* Mutant: the day is selected without FOR UPDATE.
SelectWithoutLock(d) == TRUE

Lockable(d) == \A y \in Txn : txn[y] # Nil /\ txn[y].kind = "day" => txn[y].day # d

SelectForUpdate(x, d) ==
    /\ txn[x] = Nil
    /\ day[d] # Nil
    /\ Lockable(d)
    /\ txn' = [txn EXCEPT ![x] = [kind |-> "day", day |-> d, read |-> day[d]]]
    /\ UNCHANGED <<day, results, receipts>>

Update(x, new) ==
    /\ day' = [day EXCEPT ![txn[x].day] = new]
    /\ End(x)

(***************************************************************************)
(* update_live_metrics with record_live_metrics                            *)
(***************************************************************************)
LiveMetrics(d, u) == [d EXCEPT !.unrealized = u, !.total = d.realized + u]

UpdateLiveMetrics(x, u) ==
    /\ txn[x] # Nil /\ txn[x].kind = "day"
    /\ Update(x, LiveMetrics(txn[x].read, u))
    /\ UNCHANGED <<results, receipts>>

(***************************************************************************)
(* apply_final_result_to_day                                               *)
(***************************************************************************)
ApplyFinalResult(d, pnl) ==
    LET realized == d.realized + pnl
    IN  [d EXCEPT !.realized = realized,
                  !.total = realized + (IF d.unrealized = Nil THEN 0 ELSE d.unrealized)]

(***************************************************************************)
(* post_final_result_once.  The table is unique in result_id and in        *)
(* tranche_id: what is there already is a replay, when every field is the  *)
(* same, or else a conflict; neither changes anything.                     *)
(***************************************************************************)
NewResult(p) == \A q \in results : q.result # p.result /\ q.tranche # p.tranche

PostFinalResult(x, p) ==
    /\ txn[x] # Nil /\ txn[x].kind = "day"
    /\ p.day = txn[x].day
    /\ NewResult(p)
    /\ results' = results \cup {p}
    /\ Update(x, ApplyFinalResult(txn[x].read, p.pnl))
    /\ UNCHANGED receipts

(***************************************************************************)
(* latch_daily_loss_once                                                   *)
(***************************************************************************)
LatchDailyLoss(x) ==
    /\ txn[x] # Nil /\ txn[x].kind = "day"
    /\ Update(x, [txn[x].read EXCEPT !.latched = TRUE])
    /\ UNCHANGED <<results, receipts>>

-----------------------------------------------------------------------------
(* Final receipts: accept_order_event.                                     *)

(***************************************************************************)
(* The event is CLOSED with a FINAL result whose equation balances.        *)
(***************************************************************************)
BeginReceipt(x, e) ==
    /\ txn[x] = Nil
    /\ e.final /\ e.balanced
    /\ txn' = [txn EXCEPT ![x] = [kind |-> "receipt", event |-> e, held |-> {},
                                  looked |-> FALSE]]
    /\ UNCHANGED <<day, results, receipts>>

Receiving(x) == txn[x] # Nil /\ txn[x].kind = "receipt"
Wanted(x) == ReceiptKeys(txn[x].event) \ txn[x].held
Free(k) == \A y \in Txn : Receiving(y) => k \notin txn[y].held

(***************************************************************************)
(* _acquire_receipt_locks: the lowest key first.                           *)
(***************************************************************************)
\* Mutant: the keys are taken in any order.
NextKeyAnyOrder(x) == Wanted(x)

NextKey(x) == {k \in Wanted(x) : \A j \in Wanted(x) : k <= j}

AcquireLock(x) ==
    /\ Receiving(x)
    /\ \E k \in NextKey(x) :
         /\ Free(k)
         /\ txn' = [txn EXCEPT ![x].held = @ \cup {k}]
    /\ UNCHANGED <<day, results, receipts>>

(***************************************************************************)
(* _get_by_result_or_tranche: an existing receipt ends the call, as a      *)
(* replay or as a conflict.                                                *)
(***************************************************************************)
Related(e, f) == e.result = f.result \/ e.tranche = f.tranche

LookForReceipt(x) ==
    /\ Receiving(x)
    /\ Wanted(x) = {}
    /\ ~txn[x].looked
    /\ IF \E r \in receipts : Related(r, txn[x].event)
       THEN End(x)
       ELSE txn' = [txn EXCEPT ![x].looked = TRUE]
    /\ UNCHANGED <<day, results, receipts>>

(***************************************************************************)
(* put_if_absent under the id made of result and tranche, and the commit.  *)
(***************************************************************************)
InsertReceipt(x) ==
    /\ Receiving(x)
    /\ txn[x].looked
    /\ receipts' = IF \E r \in receipts : r.result = txn[x].event.result
                                         /\ r.tranche = txn[x].event.tranche
                   THEN receipts ELSE receipts \cup {txn[x].event}
    /\ End(x)
    /\ UNCHANGED <<day, results>>

Next ==
    \/ \E o \in Opening : RecordDay(o)
    \/ \E x \in Txn :
        \/ \E d \in Day : SelectForUpdate(x, d)
        \/ \E u \in Unrealized : UpdateLiveMetrics(x, u)
        \/ \E p \in Posting : PostFinalResult(x, p)
        \/ LatchDailyLoss(x)
        \/ \E e \in Event : BeginReceipt(x, e)
        \/ AcquireLock(x)
        \/ LookForReceipt(x)
        \/ InsertReceipt(x)
        \/ Rollback(x)

Spec == Init /\ [][Next]_vars

-----------------------------------------------------------------------------
(***************************************************************************)
(* No result is lost or counted twice: a day's daily_realized_pnl is the   *)
(* sum of the results posted to it, and its total adds the unrealized      *)
(* result last reported, however posts, metrics and latches of the day     *)
(* interleave; and a tranche has one result, on one day, also when it is   *)
(* delivered again for another day or beside a second result.              *)
(***************************************************************************)
Pnl == [p \in Posting |-> p.pnl]
Posted(d) == {p \in results : p.day = d}

AddsUp(row, posted) ==
    IF row = Nil THEN posted = {}
    ELSE /\ row.realized = SumFunctionOnSet(Pnl, posted)
         /\ row.total # Nil =>
              row.total = row.realized + (IF row.unrealized = Nil THEN 0 ELSE row.unrealized)

DayAddsUp ==
    /\ \A p, q \in results : p.result = q.result \/ p.tranche = q.tranche => p = q
    /\ \A d \in Day : AddsUp(day[d], Posted(d))

(***************************************************************************)
(* A day that was latched stays latched and keeps its base: metrics, posts *)
(* and replays of its opening that read the day earlier do not undo it.    *)
(***************************************************************************)
LatchHolds ==
    [][\A d \in Day : day[d] # Nil =>
         /\ day'[d].base = day[d].base
         /\ day[d].latched => day'[d].latched]_vars

(***************************************************************************)
(* At most one receipt for a result and for a tranche, although the stored *)
(* identity is made of both: transactions that share one of them exclude   *)
(* each other.                                                             *)
(***************************************************************************)
OneReceipt ==
    \A r, s \in receipts : Related(r, s) => r = s

(***************************************************************************)
(* Receipts never wait for each other in a circle: in every set of receipt *)
(* transactions there is one that has its locks, or wants one which none   *)
(* of the set holds.                                                       *)
(***************************************************************************)
NoLockCycle ==
    \A S \in (SUBSET {x \in Txn : Receiving(x)}) \ {{}} :
        \E x \in S :
            \/ Wanted(x) = {}
            \/ \E k \in Wanted(x) : \A y \in S : k \notin txn[y].held

(***************************************************************************)
(* What accounting days and receipts promise together.                     *)
(***************************************************************************)
ResultsHold == DayAddsUp /\ OneReceipt /\ NoLockCycle

(***************************************************************************)
(* The inductive strengthening: a writer of a day has it to itself and has *)
(* read the row as it is; a receipt's keys are its own, taken in ascending *)
(* order; and one that has looked holds both of its keys and there is no   *)
(* receipt related to it.                                                  *)
(***************************************************************************)
ReadIsCurrent ==
    \A x \in Txn : txn[x] # Nil /\ txn[x].kind = "day" =>
        /\ day[txn[x].day] # Nil /\ txn[x].read = day[txn[x].day]
        /\ \A y \in Txn : txn[y] # Nil /\ txn[y].kind = "day" /\ txn[y].day = txn[x].day => y = x

LocksExclude ==
    \A x \in Txn : Receiving(x) =>
        /\ txn[x].held \subseteq ReceiptKeys(txn[x].event)
        /\ \A h \in txn[x].held, w \in Wanted(x) : h < w
        /\ \A y \in Txn : Receiving(y) /\ y # x => txn[x].held \cap txn[y].held = {}
        /\ txn[x].looked => /\ Wanted(x) = {}
                           /\ \A r \in receipts : ~Related(r, txn[x].event)

ResultsInv ==
    /\ TypeOK /\ IsFiniteSet(results)
    /\ DayAddsUp /\ OneReceipt /\ ReadIsCurrent /\ LocksExclude
=============================================================================
