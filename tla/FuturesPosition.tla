--------------------------- MODULE FuturesPosition ---------------------------
(***************************************************************************)
(* FuturesPositionLifecycleService (execution/position_lifecycle.py) over  *)
(* FuturesExecutionService (execution/futures.py), the accounting bridge   *)
(* and the PostgreSQL futures stores, as the one trading worker runs them  *)
(* on its configured symbol: the cycle of FuturesDualLaneRuntime recovers  *)
(* the positions, recovers the other unresolved orders, watches the        *)
(* protective exits and, last, evaluates the lane; between two cycles the  *)
(* worker executes the operator's close commands.                          *)
(*                                                                         *)
(* A step ends at each transaction and at each call of the exchange; the   *)
(* exchange fills, rejects and cancels in between, and the worker may die  *)
(* after any step.  An exception ends the operation and, in a cycle, the   *)
(* cycle.  Quantities are multiples of the quantity step; prices, fees and *)
(* funding are left out.                                                   *)
(***************************************************************************)
EXTENDS Integers, FiniteSets, FiniteSetsExt, Functions

CONSTANTS
    Intent,    \* intent_ids of the entries the strategy may decide
    Quantity,  \* Quantity[i]: the sized quantity of i
    Protect,   \* close reasons of the monitor: TAKE_PROFIT, STOP_LOSS
    Command,   \* close reasons of the operator: MANUAL, CLOSE_ALL
    Nil

Reason == Protect \cup Command
\* futures_client_order_id is a function of the intent, and
\* futures_close_intent_id one of the position and the reason.
Order == Intent \X (Reason \cup {"open"})
Entry(i) == <<i, "open">>

Live == {"OPEN", "CLOSING", "UNKNOWN"}
Unresolved == {"CREATED", "SUBMITTING", "SUBMITTED", "PARTIALLY_FILLED", "UNKNOWN"}

ExecutionStatus == Unresolved \cup {"FILLED", "CANCELLED", "REJECTED"}
OrderStatus == {"New", "PartiallyFilled", "Filled", "Cancelled", "PartiallyFilledCanceled", "Rejected"}
OrderRow == [status : OrderStatus, qty : Nat, filled : Nat]
ExecutionRow == [status : ExecutionStatus, qty : Nat]
PositionRow == [status : Live \cup {"CLOSED"}, close : Reason \cup {Nil}, qty : Nat]
Operation == {"open", "close", "recover", "replay"}

ASSUME FuturesAssumption ==
    /\ Quantity \in [Intent -> Nat \ {0}]
    /\ IsFiniteSet(Reason) /\ "open" \notin Reason
    /\ Nil \notin Reason \cup Intent \cup Operation \cup ExecutionStatus \cup Nat
    /\ Nil \notin OrderRow \cup ExecutionRow \cup PositionRow

VARIABLES
    exchange,   \* the orders of the exchange: status, quantity, filled quantity
    sent,       \* how often each order was sent
    execution,  \* FUTURES_EXECUTION records: status and requested_qty
    position,   \* FUTURES_POSITION records of the intents
    fills,      \* fill events recorded for an order, and the trade they carry
    trade,      \* FUTURES_CLOSED_TRADE records of the positions' trades
    closed,     \* FUTURES_CLOSED_POSITION records
    settled,    \* intents whose lane lifecycle is completed
    pc,         \* the worker's step
    job         \* what the worker works on, in memory only

durable == <<execution, position, fills, trade, closed, settled>>
market == <<exchange, sent>>
vars == <<exchange, sent, execution, position, fills, trade, closed, settled, pc, job>>

NoJob == [order |-> Nil, for |-> Nil, seen |-> Nil, qty |-> 0,
          cycle |-> FALSE, todo |-> {}, flat |-> FALSE]

\* The steps of the cycle, and those of an operation on one order.
Cycle == {"idle", "recover", "orphans", "monitor", "lane"}
Submitting == {"submit", "reserved", "send"}
Applying == {"ingest", "book", "apply", "mark closed"}

LedgerTypes ==
    /\ exchange \in [Order -> OrderRow \cup {Nil}]
    /\ sent \in [Order -> Nat]
    /\ execution \in [Order -> ExecutionRow \cup {Nil}]
    /\ position \in [Intent -> PositionRow \cup {Nil}]
    /\ fills \in [Order -> [n : Nat, trade : {Nil, "position", "intent"}]]
    /\ trade \in [Intent -> [entry : Nat, exit : Int] \cup {Nil}]
    /\ closed \in [Intent -> Nat \cup {Nil}]
    /\ settled \subseteq Intent

Jobs == [order : Order \cup {Nil}, for : Operation \cup {Nil}, seen : ExecutionStatus \cup {Nil},
         qty : Nat, cycle : BOOLEAN, todo : SUBSET (Intent \cup Order), flat : BOOLEAN]

JobTypes == pc \in Cycle \cup Submitting \cup {"reconcile"} \cup Applying /\ job \in Jobs

TypeOK == LedgerTypes /\ JobTypes

Init ==
    /\ exchange = [o \in Order |-> Nil]
    /\ sent = [o \in Order |-> 0]
    /\ execution = [o \in Order |-> Nil]
    /\ position = [i \in Intent |-> Nil]
    /\ fills = [o \in Order |-> [n |-> 0, trade |-> Nil]]
    /\ trade = [i \in Intent |-> Nil]
    /\ closed = [i \in Intent |-> Nil]
    /\ settled = {}
    /\ pc = "idle"
    /\ job = NoJob

IsLive(i) == position[i] # Nil /\ position[i].status \in Live
\* The fill events _entry_fill_totals and close_futures_trade see.
Booked(o) == IF fills[o].trade = "position" THEN fills[o].n ELSE 0
EntryFills(i) == Booked(Entry(i))
ExitFills(i) == SumFunctionOnSet([r \in Reason |-> Booked(<<i, r>>)], Reason)

-----------------------------------------------------------------------------
(* The exchange.                                                           *)

Filled(o) == IF exchange[o] = Nil THEN 0 ELSE exchange[o].filled
Exposure == MapThenSumSet(LAMBDA i : Filled(Entry(i)), Intent)
            - MapThenSumSet(Filled, Intent \X Reason)
Working(o) == exchange[o] # Nil /\ exchange[o].status \in {"New", "PartiallyFilled"}

\* An order after one more quantity step is filled.
OneMoreFilled(row) ==
    [row EXCEPT !.filled = @ + 1,
                !.status = IF row.filled + 1 = row.qty THEN "Filled" ELSE "PartiallyFilled"]

\* A reduce-only order is filled only while there is exposure to reduce.
Fill(o) ==
    /\ Working(o)
    /\ o[2] = "open" \/ Exposure > 0
    /\ exchange' = [exchange EXCEPT ![o] = OneMoreFilled(@)]
    /\ UNCHANGED <<sent, durable, pc, job>>

Cancel(o) ==
    /\ Working(o)
    /\ exchange' = [exchange EXCEPT ![o].status =
                      IF exchange[o].filled = 0 THEN "Cancelled" ELSE "PartiallyFilledCanceled"]
    /\ UNCHANGED <<sent, durable, pc, job>>

MapOrderStatus(s) ==
    CASE s = "New" -> "SUBMITTED"
      [] s = "PartiallyFilled" -> "PARTIALLY_FILLED"
      [] s = "Filled" -> "FILLED"
      [] s \in {"Cancelled", "PartiallyFilledCanceled"} -> "CANCELLED"
      [] s = "Rejected" -> "REJECTED"

-----------------------------------------------------------------------------
(* Steps shared by the operations.                                         *)

\* The worker's next step after an operation: the next position, the lane
\* after a protective exit, and otherwise the end of the cycle or command.
Return ==
    /\ pc' = CASE job.for = "recover" -> "recover"
               [] job.for = "close" /\ job.cycle -> "lane"
               [] OTHER -> "idle"
    /\ job' = IF pc' = "idle" THEN NoJob
              ELSE [job EXCEPT !.order = Nil, !.for = Nil, !.seen = Nil, !.qty = 0]

Abandon == pc' = "idle" /\ job' = NoJob

Raise == Abandon /\ UNCHANGED <<market, durable>>

Crash == pc # "idle" /\ Raise

Start(o, for, step, qty) ==
    /\ pc' = step
    /\ job' = [job EXCEPT !.order = o, !.for = for, !.qty = qty]

\* FuturesExecutionService.reconcile: what the exchange says, and UNKNOWN
\* when it does not know the order or does not answer.
Answers(o) == {"UNKNOWN"} \cup
    (IF exchange[o] = Nil THEN {} ELSE {MapOrderStatus(exchange[o].status)})

Reconcile ==
    /\ pc = "reconcile"
    /\ \E s \in Answers(job.order) :
         /\ execution' = [execution EXCEPT ![job.order].status = s]
         /\ job' = [job EXCEPT !.seen = s]
    /\ pc' = "ingest"
    /\ UNCHANGED <<market, position, fills, trade, closed, settled>>

\* Only open_position, close_position and reconcile_position pass a trade_id.
TradeOf(for) == IF for \in {"open", "close", "recover"} THEN "position" ELSE "intent"

\* record_fill under an event_id that was recorded for another trade raises.
Conflicting(o, t) == fills[o].n > 0 /\ fills[o].trade # t

\* FuturesAccountingBridge.ingest_execution, up to _try_close_trade.
IngestExecution ==
    /\ pc = "ingest"
    /\ LET o == job.order
           t == TradeOf(job.for) IN
       \/ /\ job.seen \notin {"FILLED", "PARTIALLY_FILLED"}
          /\ pc' = "apply"
          /\ UNCHANGED <<job, fills>>
       \/ /\ job.seen \in {"FILLED", "PARTIALLY_FILLED"}
          /\ ~Conflicting(o, t)
          /\ fills' = [fills EXCEPT ![o] = [n |-> Filled(o), trade |-> t]]
          /\ pc' = IF t = "position" THEN "book" ELSE "apply"
          /\ UNCHANGED job
       \* The fills conflict, or fetch_executions fails.
       \/ /\ job.seen \in {"FILLED", "PARTIALLY_FILLED"}
          /\ Abandon
          /\ UNCHANGED fills
    /\ UNCHANGED <<market, execution, position, trade, closed, settled>>

\* record_closed_trade: a trade is immutable.
TradeResult(i) == [entry |-> EntryFills(i), exit |-> ExitFills(i)]
Recordable(i) ==
    /\ ExitFills(i) <= EntryFills(i)
    /\ trade[i] \in {Nil, TradeResult(i)}

\* _try_close_trade: fills of both sides make a closed trade.
TryCloseTrade ==
    /\ pc = "book"
    /\ LET i == job.order[1] IN
       \/ /\ EntryFills(i) = 0 \/ ExitFills(i) = 0
          /\ pc' = "apply"
          /\ UNCHANGED <<job, trade>>
       \/ /\ EntryFills(i) > 0 /\ ExitFills(i) > 0
          /\ Recordable(i)
          /\ trade' = [trade EXCEPT ![i] = TradeResult(i)]
          /\ pc' = "apply"
          /\ UNCHANGED job
       \/ /\ EntryFills(i) > 0 /\ ExitFills(i) > 0
          /\ ~Recordable(i)
          /\ Abandon
          /\ UNCHANGED trade
    /\ UNCHANGED <<market, execution, position, fills, closed, settled>>

-----------------------------------------------------------------------------
(* submit_approved_limit_order.                                            *)

\* The validations refuse (the margin may have gone), or the operator has
\* paused new entries, after which the lane is done with the intent.
Refuse ==
    /\ pc = "submit"
    /\ \/ UNCHANGED settled
       \/ /\ execution[job.order] = Nil
          /\ job.for = "open"
          /\ settled' = settled \cup {job.order[1]}
    /\ Abandon
    /\ UNCHANGED <<market, execution, position, fills, trade, closed>>

\* Mutant: a record the exchange does not know is submitted anew.
ReserveUnknownAgain ==
    /\ pc = "submit"
    /\ \/ /\ execution[job.order] # Nil /\ execution[job.order].status # "UNKNOWN"
          /\ pc' = "reconcile"
          /\ UNCHANGED execution
       \/ /\ execution[job.order] # Nil => execution[job.order].status = "UNKNOWN"
          /\ execution' = [execution EXCEPT ![job.order] =
                             [status |-> "CREATED", qty |-> job.qty]]
          /\ pc' = "reserved"
    /\ UNCHANGED <<market, position, fills, trade, closed, settled, job>>

ExecutionRecord(qty) == [status |-> "CREATED", qty |-> qty]

\* An intent that has a record is reconciled and never sent again.
Reserve ==
    /\ pc = "submit"
    /\ \/ /\ execution[job.order] # Nil
          /\ pc' = "reconcile"
          /\ UNCHANGED execution
       \/ /\ execution[job.order] = Nil
          /\ execution' = [execution EXCEPT ![job.order] = ExecutionRecord(job.qty)]
          /\ pc' = "reserved"
    /\ UNCHANGED <<market, position, fills, trade, closed, settled, job>>

MarkSubmitting ==
    /\ pc = "reserved"
    /\ execution' = [execution EXCEPT ![job.order].status = "SUBMITTING"]
    /\ pc' = "send"
    /\ UNCHANGED <<market, position, fills, trade, closed, settled, job>>

\* create_limit_order is accepted, or fails, although the order may have
\* arrived, or the worker dies before it can record either.
CreateLimitOrder ==
    /\ pc = "send"
    /\ sent' = [sent EXCEPT ![job.order] = @ + 1]
    /\ \E arrived \in {Nil, "New", "Rejected"} :
         /\ exchange' = IF arrived = Nil THEN exchange
                        ELSE [exchange EXCEPT ![job.order] =
                                [status |-> arrived, qty |-> execution[job.order].qty, filled |-> 0]]
         /\ \/ /\ \E s \in {"UNKNOWN"} \cup (IF arrived = Nil THEN {} ELSE {"SUBMITTED"}) :
                    execution' = [execution EXCEPT ![job.order].status = s]
               /\ pc' = "reconcile"
               /\ UNCHANGED job
            \/ Abandon /\ UNCHANGED execution
    /\ UNCHANGED <<position, fills, trade, closed, settled>>

-----------------------------------------------------------------------------
(* close_position, for the operator and for the monitor.                   *)

\* Mutant: any reason may close a position that is being closed.
ClosableForAnyReason(i, r) == IsLive(i) /\ r \in Reason

\* Mutant: the check for CLOSED is missing.
ClosableTwice(i, r) == position[i] # Nil /\ position[i].close \in {Nil, r}

\* mark_closing: the first close intent of a position is its only one.
Closable(i, r) ==
    /\ IsLive(i)
    /\ position[i].close \in {Nil, r}

MarkClosing(i, r) ==
    /\ Closable(i, r)
    /\ position' = [position EXCEPT ![i] = [@ EXCEPT !.status = "CLOSING", !.close = r]]
    /\ Start(<<i, r>>, "close", "submit", position[i].qty)
    /\ UNCHANGED <<market, execution, fills, trade, closed, settled>>

OperatorClose(i, r) == pc = "idle" /\ r \in Command /\ MarkClosing(i, r)

\* should_trigger_protective_exit looks at OPEN positions only.
MonitorProtectiveExit(i, r) ==
    /\ pc = "monitor"
    /\ r \in Protect
    /\ position[i] # Nil /\ position[i].status = "OPEN"
    /\ MarkClosing(i, r)

NothingToProtect ==
    /\ pc = "monitor"
    /\ pc' = "lane"
    /\ UNCHANGED <<market, durable, job>>

-----------------------------------------------------------------------------
(* What an operation does with the reconciled record.                      *)

\* The close is complete when its order is.
CloseComplete == job.order[2] # "open" /\ job.seen = "FILLED"

\* _finalize_closed_position up to save_closed_position.
SaveClosed ==
    /\ pc = "apply"
    /\ CloseComplete
    /\ LET i == job.order[1] IN
       \/ /\ EntryFills(i) > 0 /\ ExitFills(i) = job.qty
          /\ Recordable(i)
          /\ closed[i] \in {Nil, job.qty}
          /\ trade' = [trade EXCEPT ![i] = TradeResult(i)]
          /\ closed' = [closed EXCEPT ![i] = job.qty]
          /\ pc' = "mark closed"
          /\ UNCHANGED job
       \/ /\ ~( /\ EntryFills(i) > 0 /\ ExitFills(i) = job.qty
                /\ Recordable(i)
                /\ closed[i] \in {Nil, job.qty} )
          /\ Abandon
          /\ UNCHANGED <<trade, closed>>
    /\ UNCHANGED <<market, execution, position, fills, settled>>

MarkClosed ==
    /\ pc = "mark closed"
    /\ position' = [position EXCEPT ![job.order[1]] = [@ EXCEPT !.status = "CLOSED", !.qty = 0]]
    /\ Return
    /\ UNCHANGED <<market, execution, fills, trade, closed, settled>>

ClosePending ==
    /\ pc = "apply"
    /\ job.order[2] # "open"
    /\ ~CloseComplete
    /\ Return
    /\ UNCHANGED <<market, durable>>

\* reconcile_position on the entry: update_open_fill takes the quantity from
\* the fills; mark_closed of a zero-fill entry finds no closed position, which
\* it requires as evidence, and raises.
UpdateOpenFill ==
    /\ pc = "apply"
    /\ job.for = "recover"
    /\ job.order[2] = "open"
    /\ LET i == job.order[1] IN
       \/ /\ EntryFills(i) > 0
          /\ position' = [position EXCEPT ![i] = [@ EXCEPT !.status = "OPEN", !.qty = EntryFills(i)]]
          /\ Return
       \/ /\ EntryFills(i) = 0
          /\ job.seen \in {"CANCELLED", "REJECTED"}
          /\ Abandon
          /\ UNCHANGED position
       \/ /\ EntryFills(i) = 0
          /\ job.seen \notin {"CANCELLED", "REJECTED"}
          /\ Return
          /\ UNCHANGED position
    /\ UNCHANGED <<market, execution, fills, trade, closed, settled>>

\* Mutant: an order the exchange does not report is taken for a dead one.
PositionStatusAssumingDead(s, n) ==
    CASE n > 0 \/ s \in {"FILLED", "PARTIALLY_FILLED"} -> "OPEN"
      [] n = 0 /\ s \in {"CANCELLED", "REJECTED", "UNKNOWN"} -> "CLOSED"
      [] OTHER -> "UNKNOWN"

PositionStatusFromOpenRecord(s, n) ==
    CASE n > 0 \/ s \in {"FILLED", "PARTIALLY_FILLED"} -> "OPEN"
      [] n = 0 /\ s \in {"CANCELLED", "REJECTED"} -> "CLOSED"
      [] OTHER -> "UNKNOWN"

\* The lane lifecycle stays open for a replay while the record is UNKNOWN.
Settle(i) == settled' = IF job.seen = "UNKNOWN" THEN settled ELSE settled \cup {i}

\* open_position's save_open_position, after the exchange had the order.
SaveOpenPosition ==
    /\ pc = "apply"
    /\ job.for = "open"
    /\ LET i == job.order[1]
           n == EntryFills(i)
           s == PositionStatusFromOpenRecord(job.seen, n) IN
       /\ position' = [position EXCEPT ![i] =
                         [status |-> s, close |-> Nil,
                          qty |-> IF s = "CLOSED" THEN 0 ELSE IF n > 0 THEN n ELSE Quantity[i]]]
       /\ Settle(i)
    /\ Return
    /\ UNCHANGED <<market, execution, fills, trade, closed>>

SettleReplay ==
    /\ pc = "apply"
    /\ job.for = "replay"
    /\ Settle(job.order[1])
    /\ Return
    /\ UNCHANGED <<market, execution, position, fills, trade, closed>>

-----------------------------------------------------------------------------
(* FuturesDualLaneRuntime.process_once.                                    *)

\* The account snapshot of the cycle tells whether the symbol is flat.
StartCycle ==
    /\ pc = "idle"
    /\ pc' = "recover"
    /\ job' = [NoJob EXCEPT !.cycle = TRUE, !.flat = (Exposure = 0),
                            !.todo = {i \in Intent : IsLive(i)}]
    /\ UNCHANGED <<market, durable>>

\* reconcile_position: the close order once there is one, else the entry.  A
\* close intent without an order is left as it is.
RecoverPosition(i) ==
    /\ pc = "recover"
    /\ i \in job.todo
    /\ LET o == <<i, IF position[i].close = Nil THEN "open" ELSE position[i].close>> IN
       IF execution[o] = Nil
       THEN job' = [job EXCEPT !.todo = @ \ {i}] /\ UNCHANGED pc
       ELSE /\ pc' = "reconcile"
            /\ job' = [job EXCEPT !.todo = @ \ {i}, !.order = o, !.for = "recover",
                                  !.qty = position[i].qty]
    /\ UNCHANGED <<market, durable>>

OfPosition(o) == IsLive(o[1]) /\ o[2] \in {"open", position[o[1]].close}

\* recover_unresolved reconciles every unresolved record; the ones of no
\* live position are ingested afterwards, under the trade of their intent.
RecoverUnresolved ==
    /\ pc = "recover"
    /\ job.todo = {}
    /\ LET open == {o \in Order : execution[o] # Nil /\ execution[o].status \in Unresolved} IN
       \E dark \in SUBSET {o \in open : exchange[o] # Nil} :
         LET status(o) == IF o \in dark \/ exchange[o] = Nil THEN "UNKNOWN"
                          ELSE MapOrderStatus(exchange[o].status) IN
         /\ execution' = [o \in Order |-> IF o \in open THEN [execution[o] EXCEPT !.status = status(o)]
                                          ELSE execution[o]]
         /\ job' = [job EXCEPT !.todo = {o \in open : /\ status(o) \in {"FILLED", "PARTIALLY_FILLED"}
                                                      /\ ~OfPosition(o)}]
    /\ pc' = "orphans"
    /\ UNCHANGED <<market, position, fills, trade, closed, settled>>

IngestOrphan(o) ==
    /\ pc = "orphans"
    /\ o \in job.todo
    /\ \/ /\ ~Conflicting(o, "intent")
          /\ fills' = [fills EXCEPT ![o] = [n |-> Filled(o), trade |-> "intent"]]
          /\ job' = [job EXCEPT !.todo = @ \ {o}]
          /\ UNCHANGED pc
       \/ Abandon /\ UNCHANGED fills
    /\ UNCHANGED <<market, execution, position, trade, closed, settled>>

StartMonitor ==
    /\ pc = "orphans"
    /\ job.todo = {}
    /\ pc' = "monitor"
    /\ UNCHANGED <<market, durable, job>>

\* The lane decides an entry only when the account was flat.
Decides(i) == pc = "lane" /\ job.flat /\ i \notin settled

\* Mutant: the check uses list_open_positions, which leaves UNKNOWN out.
VacantButForUnknown == ~\E i \in Intent : IsLive(i) /\ position[i].status # "UNKNOWN"

\* open_position's checks; one net position per symbol.
Vacant == ~\E i \in Intent : IsLive(i)

OpenPosition(i) ==
    /\ Decides(i)
    /\ execution[Entry(i)] = Nil
    /\ Vacant
    /\ Start(Entry(i), "open", "submit", Quantity[i])
    /\ UNCHANGED <<market, durable>>

\* The candle is evaluated again and its intent has a record already.
ReplayIntent(i) ==
    /\ Decides(i)
    /\ execution[Entry(i)] # Nil
    /\ Start(Entry(i), "replay", "reconcile", 0)
    /\ UNCHANGED <<market, durable>>

\* The risk decision ends the intent.
RiskRejects(i) ==
    /\ Decides(i)
    /\ execution[Entry(i)] = Nil
    /\ settled' = settled \cup {i}
    /\ Abandon
    /\ UNCHANGED <<market, execution, position, fills, trade, closed>>

\* No signal, no intent, or open_position's checks raise.
LaneSkips == pc = "lane" /\ Raise

Worker ==
    \/ StartCycle \/ RecoverUnresolved \/ StartMonitor \/ NothingToProtect \/ LaneSkips
    \/ \E i \in Intent : RecoverPosition(i) \/ OpenPosition(i) \/ ReplayIntent(i) \/ RiskRejects(i)
    \/ \E o \in Order : IngestOrphan(o)
    \/ \E i \in Intent, r \in Reason : OperatorClose(i, r) \/ MonitorProtectiveExit(i, r)
    \/ Reconcile \/ IngestExecution \/ TryCloseTrade
    \/ Refuse \/ Reserve \/ MarkSubmitting \/ CreateLimitOrder
    \/ SaveClosed \/ MarkClosed \/ ClosePending \/ UpdateOpenFill \/ SaveOpenPosition \/ SettleReplay

Next ==
    \/ Worker \/ Crash
    \/ \E o \in Order : Fill(o) \/ Cancel(o)

Spec == Init /\ [][Next]_vars

-----------------------------------------------------------------------------
(* Properties.                                                             *)

\* No order is sent twice, whatever the crashes, replays, retried commands
\* and unanswered requests in between (reserve and get_by_intent).
SentOnce == \A o \in Order : sent[o] <= 1

\* The monitor and the operator between them send at most one close order
\* for a position (mark_closing).
OneCloseOrder == \A i \in Intent : Cardinality({r \in Reason : sent[<<i, r>>] > 0}) <= 1

\* A CLOSED position has its closed-position record, whose quantity the
\* exchange executed in full, or its entry ended with no fill booked
\* (_finalize_closed_position, mark_closed, _position_status_from_open_record).
ClosedOnEvidence ==
    \A i \in Intent : position[i] # Nil /\ position[i].status = "CLOSED" =>
        \/ /\ closed[i] # Nil
           /\ \E r \in Reason : exchange[<<i, r>>] # Nil /\ exchange[<<i, r>>].status = "Filled"
                               /\ exchange[<<i, r>>].filled = closed[i]
        \/ /\ exchange[Entry(i)] # Nil
           /\ exchange[Entry(i)].status \in {"Cancelled", "PartiallyFilledCanceled", "Rejected"}
           /\ EntryFills(i) = 0

\* A CLOSED position is never opened, closed or changed again, although
\* update_open_fill and mark_closed have no guard of their own.
ClosedIsFinal ==
    [][\A i \in Intent : position[i] # Nil /\ position[i].status = "CLOSED"
                            => position'[i] = position[i]]_vars

\* While the symbol has a position that is not CLOSED, of unknown state
\* included, no entry reaches the exchange (open_position, process_once).
EntryNeedsVacancy ==
    [][\A i \in Intent : sent'[Entry(i)] # sent[Entry(i)] => ~\E j \in Intent : IsLive(j)]_vars

\* Whatever the crashes, replays, repeated commands and unanswered requests, no
\* order is sent twice, a position gets one close order between the monitor and
\* the operator, and it is CLOSED on the exchange's evidence.
OrdersMatchEvidence == SentOnce /\ OneCloseOrder /\ ClosedOnEvidence

\* A closed position stays as it is, and no entry reaches the exchange while the
\* symbol has a position, of unknown state included.
PositionSettles == ClosedIsFinal /\ EntryNeedsVacancy

-----------------------------------------------------------------------------
(* The inductive strengthening.                                            *)

\* The worker is in an operation exactly when it has an order to work on; an
\* entry is what open_position and a replay work on, a close what
\* close_position does, and a replay submits nothing and books no trade.
JobIsShaped ==
    /\ pc \in Cycle <=> job.for = Nil
    /\ job.for # Nil => job.order \in Order
    /\ job.for \in {"open", "replay"} => job.order[2] = "open"
    /\ job.for = "close" \/ pc = "mark closed" => job.order[2] # "open"
    /\ pc \in Submitting => job.for \in {"open", "close"}
    /\ pc \in {"book", "mark closed"} => job.for # "replay"

\* An order is reserved before it is sent, and what is booked was sent; the
\* order of a position's close is the one the position names.
Reserved ==
    /\ \A o \in Order :
         /\ sent[o] <= 1
         /\ execution[o] = Nil => sent[o] = 0
         /\ sent[o] = 0 => exchange[o] = Nil
         /\ exchange[o] = Nil => fills[o].n = 0
    /\ \A i \in Intent :
         /\ position[i] # Nil => execution[Entry(i)] # Nil
         /\ \A r \in Reason : execution[<<i, r>>] # Nil => position[i] # Nil /\ position[i].close = r

\* What the worker found when it began: no position before an entry; a live
\* position before a close or a recovery, whose close is the one it works on.
JobIsCurrent ==
    /\ pc \notin Cycle \cup {"submit"} => execution[job.order] # Nil
    /\ pc \in {"reserved", "send"} => sent[job.order] = 0
    /\ job.for = "open" => position[job.order[1]] = Nil /\ Vacant
    /\ job.for \in {"close", "recover"} =>
         /\ IsLive(job.order[1])
         /\ job.order[2] # "open" => position[job.order[1]].close = job.order[2]
    /\ pc = "recover" \/ job.for = "recover" => \A j \in job.todo : j \in Intent /\ IsLive(j)
    /\ job.for = "recover" => job.order[1] \notin job.todo

\* A final answer of the exchange is still true, and the fills of a filled
\* order are booked.
Ended(o, status) == exchange[o] # Nil /\ exchange[o].status \in status

SeenIsTrue ==
    /\ pc \in Applying =>
         /\ job.seen = "FILLED" => Ended(job.order, {"Filled"})
         /\ job.seen = "CANCELLED" => Ended(job.order, {"Cancelled", "PartiallyFilledCanceled"})
         /\ job.seen = "REJECTED" => Ended(job.order, {"Rejected"})
    /\ pc \in {"book", "apply"} /\ job.seen = "FILLED" /\ job.for # "replay" =>
         fills[job.order].trade = "position" /\ fills[job.order].n = Filled(job.order)
    /\ pc = "mark closed" =>
         /\ job.seen = "FILLED"
         /\ closed[job.order[1]] # Nil /\ Filled(job.order) = closed[job.order[1]]

LedgerInv == LedgerTypes /\ Reserved /\ ClosedOnEvidence
JobInv == JobTypes /\ JobIsShaped /\ JobIsCurrent /\ SeenIsTrue
FuturesInv == LedgerInv /\ JobInv
=============================================================================
