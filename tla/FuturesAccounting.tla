-------------------------- MODULE FuturesAccounting --------------------------
(***************************************************************************)
(* The books of the futures runtime: the accounting bridge that turns the  *)
(* executions of the exchange into immutable fills and closed trades       *)
(* (services/futures_accounting_bridge.py, accounting/futures.py), the     *)
(* TEST simulator, the account snapshots with their drawdown, and the      *)
(* daily loss evaluation over them, reading stores that may fail           *)
(* (services/daily_loss.py).  Every record is a transaction of its own and *)
(* the worker may die between two.                                         *)
(*                                                                         *)
(* Decimal division is exact here: an average price is a whole number.     *)
(* Leverage, slippage and regime are left out, and funding: nothing calls  *)
(* record_funding, so no trade has a funding event.  The notification of   *)
(* the latch is in FuturesRuntime.                                         *)
(***************************************************************************)
EXTENDS Integers, Sequences, FiniteSets, FiniteSetsExt, Functions

CONSTANTS None,
          Markets,     \* [live, test]: what the exchange may execute, a set of
                       \* [id, trade, direction, open, q, p, fee], and the TEST
                       \* trades, a set of [trade, q, p, fee, at]
          Equities,    \* equities the account may show
          DayLen, Days,
          LimitPct,    \* daily_loss_limit_pct
          MaxSnapshots, \* bound
          MaxFaults,   \* bound: deaths and evaluations with a failing store
          Failures     \* sets of statements of one evaluation that may fail

VARIABLES now, market, equity,
          executed,    \* executions of the exchange, with their time
          fills,       \* FUTURES_FILL records
          trades,      \* FUTURES_CLOSED_TRADE records
          snapshots,   \* FUTURES_EQUITY_SNAPSHOT records, in order
          record,      \* daily_loss_state: day -> [baseline, latched] or None
          worker,      \* what the worker has yet to write
          verdict,     \* the daily loss evaluation of the last step, or None
          faults

vars == <<now, market, equity, executed, fills, trades, snapshots, record, worker, verdict, faults>>
books == <<fills, trades, snapshots, record>>

Idle == [at |-> "idle"]
DayOf(t) == 1 + (t \div DayLen)

Init == /\ now = 0 /\ market \in Markets /\ equity \in Equities
        /\ executed = {} /\ fills = {} /\ trades = {} /\ snapshots = <<>>
        /\ record = [d \in Days |-> None]
        /\ worker = Idle /\ verdict = None /\ faults = 0

---------------------------------------------------------------------------
(* The exchange and time.  What changes while fills are being written is   *)
(* not read before the next cycle, so it is taken when the worker is idle. *)

Tick == /\ worker = Idle /\ DayOf(now + 1) \in Days
        /\ now' = now + 1
        /\ verdict' = None /\ UNCHANGED <<market, equity, executed, books, worker, faults>>

Executed(x) == [id |-> x.id, trade |-> x.trade, direction |-> x.direction, open |-> x.open,
                q |-> x.q, p |-> x.p, fee |-> x.fee, at |-> now, source |-> "exchange"]

\* An order's executions come in the order of their ids; an exit needs an
\* entry: orders to close are reduce-only.
Execute(x) ==
    /\ worker = Idle /\ \A e \in executed : e.id # x.id
    /\ \A y \in market.live : y.open = x.open /\ y.id < x.id => \E e \in executed : e.id = y.id
    /\ ~x.open => x.q <= SumFunctionOnSet([e \in executed |-> IF e.trade = x.trade
                                                THEN IF e.open THEN e.q ELSE - e.q ELSE 0], executed)
    /\ executed' = executed \cup {Executed(x)}
    /\ verdict' = None /\ UNCHANGED <<now, market, equity, books, worker, faults>>

AccountChanges(v) == /\ worker = Idle /\ v # equity
                     /\ equity' = v
                     /\ verdict' = None /\ UNCHANGED <<now, market, executed, books, worker, faults>>

---------------------------------------------------------------------------
(* accounting/futures.py                                                   *)

Qty(F) == SumFunctionOnSet([f \in F |-> f.q], F)
Fees(F) == SumFunctionOnSet([f \in F |-> f.fee], F)
Notional(F) == SumFunctionOnSet([f \in F |-> f.q * f.p], F)
Opens(F) == {f \in F : f.open}
Exits(F) == {f \in F : ~f.open}

\* Mutant: the mean of the fills' prices, unweighted.
ComputeVwapMutant(F) == MapThenSumSet(LAMBDA f : f.p, F) \div Cardinality(F)

ComputeVwap(F) == Notional(F) \div Qty(F)

GrossPnl(direction, q, entry, exit) ==
    IF direction = "LONG" THEN (exit - entry) * q ELSE (entry - exit) * q

\* None: close_futures_trade raises.
CloseFuturesTrade(F) ==
    LET in == Opens(F)
        out == Exits(F)
        direction == (CHOOSE f \in in : TRUE).direction
        entryFee == (Fees(in) * Qty(out)) \div Qty(in)
    IN IF \/ Cardinality({<<f.direction, f.source>> : f \in F}) # 1 \/ Qty(out) > Qty(in)
          \/ \E f \in F : f.fee < 0
       THEN None
       ELSE [quantity |-> Qty(out), source |-> (CHOOSE f \in F : TRUE).source,
             closedAt |-> Max({f.at : f \in out}),
             net |-> GrossPnl(direction, Qty(out), ComputeVwap(in), ComputeVwap(out)) - entryFee - Fees(out)]

---------------------------------------------------------------------------
(* The bridge: ingest_execution of one order of a trade.                   *)

ClosedTrade(t, F) == [trade |-> t, of |-> F, result |-> CloseFuturesTrade(F)]

\* fetch_executions: the rows of the order at this instant.
FetchExecutions(t, open) ==
    /\ worker = Idle
    /\ \E e \in executed : e.trade = t /\ e.open = open
    /\ worker' = [at |-> "bridge", trade |-> t,
                  todo |-> {e \in executed : e.trade = t /\ e.open = open}]
    /\ verdict' = None /\ UNCHANGED <<now, market, equity, executed, books, faults>>

\* record_fill: absent, it is inserted; present, it is the same.
RecordFill(f) ==
    /\ worker.at = "bridge" /\ f \in worker.todo
    /\ \A g \in worker.todo : g.at > f.at \/ (g.at = f.at /\ g.id >= f.id)
    /\ fills' = fills \cup {f}
    /\ worker' = [worker EXCEPT !.todo = @ \ {f}]
    /\ verdict' = None /\ UNCHANGED <<now, market, equity, executed, trades, snapshots, record, faults>>

FillsOf(t) == {f \in fills : f.trade = t}

\* _try_close_trade and record_closed_trade, immutable: another result of a
\* trade already closed raises.
TryCloseTrade ==
    LET F == FillsOf(worker.trade)
        result == CloseFuturesTrade(F)
        exists == \E t \in trades : t.trade = worker.trade
    IN /\ worker.at = "bridge" /\ worker.todo = {}
       /\ trades' = IF Opens(F) = {} \/ Exits(F) = {} \/ result = None \/ exists THEN trades
                    ELSE trades \cup {ClosedTrade(worker.trade, F)}
       /\ worker' = Idle
       /\ verdict' = None /\ UNCHANGED <<now, market, equity, executed, fills, snapshots, record, faults>>

\* TestFuturesSimulator.simulate_closed_trade: entry and exit at the close of
\* the candle, the same whenever it is simulated.
SimFill(s, open) == [id |-> IF open THEN s.trade ELSE - s.trade, trade |-> s.trade, direction |-> "LONG", open |-> open,
                     q |-> s.q, p |-> s.p, fee |-> s.fee, at |-> s.at, source |-> "test_simulation"]

\* Two fills and the trade, three transactions: n of them are made before the
\* worker dies, or all.  Nobody else reads between them.
SimulateClosedTrade(s, n) ==
    LET a == SimFill(s, TRUE)
        b == SimFill(s, FALSE)
    IN /\ worker = Idle /\ s.at <= now
       /\ \A t \in trades : t.trade # s.trade
       /\ n < 3 => faults < MaxFaults
       /\ faults' = IF n < 3 THEN faults + 1 ELSE faults
       /\ fills' = fills \cup (IF n = 1 THEN {a} ELSE {a, b})
       /\ trades' = IF n = 3 THEN trades \cup {ClosedTrade(s.trade, {a, b})} ELSE trades
       /\ verdict' = None /\ UNCHANGED <<now, market, equity, executed, snapshots, record, worker>>

---------------------------------------------------------------------------
(* Account snapshots: _persist_account_snapshot.                           *)

\* Mutant: a restarted runtime begins a peak of its own.
CalculateDrawdownSnapshotMutant(v, previous) ==
    [at |-> now, equity |-> v, peak |-> v,
     maxDrawdown |-> IF previous = None THEN 0 ELSE previous.maxDrawdown]

CalculateDrawdownSnapshot(v, previous) ==
    LET peak == IF previous = None THEN v ELSE Max({v, previous.peak})
    IN [at |-> now, equity |-> v, peak |-> peak,
        maxDrawdown |-> Max({IF previous = None THEN 0 ELSE previous.maxDrawdown, peak - v})]

PersistAccountSnapshot ==
    /\ worker = Idle
    /\ Len(snapshots) < MaxSnapshots
    /\ snapshots' = Append(snapshots, CalculateDrawdownSnapshot(equity,
                        IF snapshots = <<>> THEN None ELSE snapshots[Len(snapshots)]))
    /\ verdict' = None /\ UNCHANGED <<now, market, equity, executed, fills, trades, record, worker, faults>>
---------------------------------------------------------------------------
(* The daily loss evaluation.                                              *)

\* realized_net_pnl_for_utc_day: TEST evidence is not counted.
Realized(d) == MapThenSumSet(LAMBDA t : t.result.net,
    {t \in trades : DayOf(t.result.closedAt) = d /\ t.result.source = "exchange"})

\* first_equity_snapshot_for_utc_day; every snapshot is of the exchange's account.
FirstSnapshot(d) ==
    LET today == {i \in DOMAIN snapshots : DayOf(snapshots[i].at) = d}
    IN IF today = {} THEN None ELSE snapshots[Min(today)]

Today == DayOf(now)
NewRecord(baseline) == [baseline |-> baseline, latched |-> FALSE]

\* The statements of an evaluation, each of which may fail.
Statements == {"get_record", "first_snapshot", "ensure_baseline", "reread", "realized", "latch", "relatched"}

\* Mutant: ensure_baseline returns what it wanted to insert.
RereadMutant(before, wanted, failing) == NewRecord(wanted)

\* ensure_baseline: INSERT OR IGNORE, then get_record, which answers None when
\* it fails: "daily loss baseline was not persisted".
Reread(before, wanted, failing) ==
    IF "ensure_baseline" \in failing \/ "reread" \in failing THEN None
    ELSE IF before # None THEN before ELSE NewRecord(wanted)

\* _record_for_day; None: it raises, and the evaluation fails closed.
RecordForDay(failing) ==
    LET existing == IF "get_record" \in failing THEN None ELSE record[Today]
        first == IF "first_snapshot" \in failing THEN None ELSE FirstSnapshot(Today)
        wanted == IF first # None THEN first.equity ELSE equity
    IN IF existing # None THEN existing
       ELSE IF wanted <= 0 THEN None
       ELSE Reread(record[Today], wanted, failing)

\* What ensure_baseline leaves in the table, whatever is read back.
Inserted(failing) ==
    LET existing == IF "get_record" \in failing THEN None ELSE record[Today]
        first == IF "first_snapshot" \in failing THEN None ELSE FirstSnapshot(Today)
        wanted == IF first # None THEN first.equity ELSE equity
    IN IF existing # None \/ record[Today] # None \/ wanted <= 0 \/ "ensure_baseline" \in failing
       THEN record[Today]
       ELSE NewRecord(wanted)

Reached(baseline) == Realized(Today) * 100 <= - baseline * LimitPct

\* evaluate(persist=True) of the worker before an entry.  A failing latch
\* raises out of the evaluation: the entry is not made.
Evaluate(failing) ==
    LET day == RecordForDay(failing)
        uncertain == day = None \/ "realized" \in failing
        latching == /\ ~uncertain
                    /\ ~day.latched /\ Reached(day.baseline)
    IN /\ worker = Idle
       /\ failing # {} => faults < MaxFaults
       /\ faults' = IF failing = {} THEN faults ELSE faults + 1
       /\ record' = [record EXCEPT ![Today] = IF latching /\ "latch" \notin failing /\ Inserted(failing) # None
                                              THEN [Inserted(failing) EXCEPT !.latched = TRUE]
                                              ELSE Inserted(failing)]
       /\ verdict' = [by |-> "worker", day |-> Today,
                      latched |-> record[Today] # None /\ record[Today].latched,
                      blocked |-> uncertain \/ latching \/ day.latched]
       /\ UNCHANGED <<now, market, equity, executed, fills, trades, snapshots, worker>>

\* read_only_daily_loss_state of the dashboard: persist=False, no account.
ReadOnly ==
    LET first == FirstSnapshot(Today)
        day == IF record[Today] # None THEN record[Today]
               ELSE IF first # None THEN NewRecord(first.equity) ELSE None
    IN /\ worker = Idle
       /\ verdict' = [by |-> "dashboard", day |-> Today,
                      latched |-> record[Today] # None /\ record[Today].latched,
                      blocked |-> day = None \/ day.latched \/ Reached(day.baseline)]
       /\ UNCHANGED <<now, market, equity, executed, books, worker, faults>>

Die == /\ worker # Idle /\ faults < MaxFaults
       /\ worker' = Idle /\ faults' = faults + 1
       /\ verdict' = None /\ UNCHANGED <<now, market, equity, executed, books>>

Next == \/ Tick \/ \E x \in market.live : Execute(x)
        \/ \E v \in Equities : AccountChanges(v)
        \/ \E x \in market.live : FetchExecutions(x.trade, x.open)
        \/ \E f \in executed : RecordFill(f)
        \/ TryCloseTrade \/ \E s \in market.test, n \in 1..3 : SimulateClosedTrade(s, n)
        \/ PersistAccountSnapshot
        \/ \E failing \in Failures : Evaluate(failing)
        \/ ReadOnly \/ Die

---------------------------------------------------------------------------
\* What a fill pays: a buy its price, a sale minus its price, and the fee.
Cash(f) == (IF (f.direction = "LONG") = f.open THEN - f.q * f.p ELSE f.q * f.p) - f.fee

\* The net result of a trade whose exits close the entries it counts is the
\* cash its fills moved, long and short, however the entry and the exits were
\* split, in whatever order they were ingested and wherever an ingestion died;
\* and a trade has one result (close_futures_trade, record_closed_trade).
NetIsCash ==
    /\ \A t \in trades : Qty(Opens(t.of)) = Qty(Exits(t.of)) =>
            t.result.net = SumFunctionOnSet([f \in t.of |-> Cash(f)], t.of)
    /\ \A t, u \in trades : t.trade = u.trade => t = u

\* Across restarts, the peak and the maximal drawdown of the latest snapshot
\* are those of the whole history of snapshots (_persist_account_snapshot).
DrawdownIsExact ==
    LET n == Len(snapshots)
        peak(i) == Max({snapshots[j].equity : j \in 1..i})
    IN n > 0 => /\ snapshots[n].peak = peak(n)
                /\ snapshots[n].maxDrawdown = Max({peak(i) - snapshots[i].equity : i \in 1..n})

\* On a day that is latched, the worker's evaluation blocks the entry even
\* when statements of it fail: get_record hides a failure as an absent
\* record, and the re-read of ensure_baseline must find the latch
\* (DailyLossEvaluator.evaluate, DailyLossStore.ensure_baseline).
LatchStands == verdict # None /\ verdict.latched => verdict.blocked

---------------------------------------------------------------------------
(* The proof's assumptions and the inductive invariant.                    *)

Snapshot == [at : Int, equity : Int, peak : Int, maxDrawdown : Int]

\* What is assumed of the constants: executions have ids of their own, live
\* and TEST trades differ, a simulated fee is a cost, and the average of executions of one side of a
\* trade is a whole number of price units.
BooksConstants ==
    /\ Equities \subseteq Int /\ None \notin Snapshot
    /\ \A m \in Markets :
          /\ IsFiniteSet(m.live)
          /\ \A x \in m.live \cup m.test : x.q \in Nat \ {0} /\ x.p \in Int /\ x.fee \in Int
          /\ \A s \in m.test : s.fee >= 0
          /\ \A x \in m.live : x.open \in BOOLEAN /\ \A s \in m.test : x.trade # s.trade
          /\ \A x, y \in m.live : x.id = y.id => x = y
          /\ \A X \in SUBSET m.live :
                X # {} /\ (\A x, y \in X : x.trade = y.trade /\ x.open = y.open)
                    => Notional(X) % Qty(X) = 0

\* e is an execution of x.
Executes(e, x) == /\ e.id = x.id /\ e.trade = x.trade /\ e.open = x.open
                  /\ e.q = x.q /\ e.p = x.p /\ e.fee = x.fee

\* Every execution is one the market has, and has happened once.
ExecutedOnce ==
    /\ market \in Markets /\ equity \in Equities /\ now \in Int
    /\ IsFiniteSet(executed)
    /\ \A e \in executed : e.source = "exchange" /\ \E x \in market.live : Executes(e, x)
    /\ \A e, f \in executed : e.id = f.id => e = f

\* A fill of a live trade is an execution.
FillsAreExecuted ==
    /\ \A f \in fills : f \in executed \/ \E s \in market.test : f.trade = s.trade
    /\ worker.at = "bridge" => /\ worker.todo \subseteq executed
                               /\ \E x \in market.live : worker.trade = x.trade

\* Every snapshot has the peak and the maximal drawdown up to it, each reached
\* at one of the snapshots.
PeaksStand ==
    \A i \in 1..Len(snapshots) :
        /\ \A j \in 1..i : /\ snapshots[j].equity <= snapshots[i].peak
                           /\ snapshots[j].peak - snapshots[j].equity <= snapshots[i].maxDrawdown
        /\ \E j \in 1..i : snapshots[i].peak = snapshots[j].equity
        /\ \E j \in 1..i : snapshots[i].maxDrawdown = snapshots[j].peak - snapshots[j].equity

BooksInv ==
    /\ ExecutedOnce /\ FillsAreExecuted /\ snapshots \in Seq(Snapshot)
    /\ NetIsCash /\ PeaksStand /\ LatchStands
=============================================================================
