------------------------------ MODULE MCTrading ------------------------------
(***************************************************************************)
(* Trading on the exchange and on paper, one part per initial value of     *)
(* kind: the position worker, the two implementations of its stores and    *)
(* the gate an entry passes before it is sent; the processes that drive    *)
(* trading candle by candle, on paper and on futures, and the accounting   *)
(* of fills, equity and the day's loss.                                    *)
(*                                                                         *)
(* Position: two entries of one symbol, the first of two quantity steps    *)
(* and decided first, a take profit and a manual close.  Stores: two       *)
(* workers; the third intent has the client order id of the first.  Gate:  *)
(* three candles, three accounts, one of them without an equity.  Paper:   *)
(* five candles, two set versions, one death or one refused execution.     *)
(* Runtime: five candles over two UTC days, a window of three, recovery    *)
(* batches of three in pages of two, and up to MaxSpent deaths, faults,    *)
(* edits and ticks inside a cycle.  Accounting: a long trade and a short   *)
(* one whose entry is executed in two parts, or an open one and a test     *)
(* trade, two UTC days, one fault.                                         *)
(***************************************************************************)
EXTENDS FuturesPosition, Sequences

CONSTANTS
    Kind,                                                   \* the parts to explore
    StoreWorker, StoreBackend, StoreIntent, ClientOf, CloseReason, StoreCalls, MaxStoreCall,  \* stores
    Closes, Rules, Wallets, PriceTick, Passive, QtyStep, MinQty, MaxQty, MinNotional,
    Leverages, Move, FeeRate, Funding, MaxChanges,          \* gate
    PaperCandles, PaperMarkets, Sets, VolumeSets, Lookback, Modes,      \* paper
    Candles, Signals, Batch, Page, DayEnd, LossLimit, MaxSpent,         \* runtime
    Markets, Equities, DayLen, BookDays, LimitPct, MaxSnapshots, Failures, \* accounting
    Window, StaleAfter, MaxFaults                           \* of several parts

VARIABLES
    kind,
    backend, orders, rows, storeClosed, locks, call, told, made,             \* stores
    wallet, size, paused, others, executions, candle, pending, orderSent, changes,  \* gate
    mode, clock, tape, held, active, testing, created, mark, first, fate, paper,
    paperFills, regime, paperOrders, step, deaths, errors,                   \* paper
    now, stopped, limitOn, pnl, checkpoint, since, lifecycle, outcome, latched,
    notified, messages, heartbeat, lane, entries, partial, spent,            \* runtime
    bookTime, scenario, equity, executed, booked, trades, snapshots, record, clerk,
    verdict, faults                                                          \* accounting

Stores == INSTANCE FuturesStores
    WITH None <- Nil, Workers <- StoreWorker, Backends <- StoreBackend, Intents <- StoreIntent,
         Reasons <- CloseReason, Calls <- StoreCalls, MaxCalls <- MaxStoreCall, closed <- storeClosed

Gate == INSTANCE FuturesGate
    WITH None <- Nil, Tick <- PriceTick, Step <- QtyStep, Fees <- FeeRate, sent <- orderSent

Paper == INSTANCE PaperRuntime
    WITH now <- clock, market <- tape, paused <- held, fills <- paperFills,
         orders <- paperOrders, checkpoint <- mark, since <- first, lifecycle <- fate,
         execution <- paper, pc <- step, Candles <- PaperCandles, Markets <- PaperMarkets

Runtime == INSTANCE FuturesRuntime
    WITH paused <- stopped, execution <- outcome, pc <- lane

Books == INSTANCE FuturesAccounting
    WITH None <- Nil, Days <- BookDays, now <- bookTime, market <- scenario, fills <- booked,
         worker <- clerk

ASSUME StoresAssumption == Stores!StoresConstants
ASSUME RuntimeAssumption == Runtime!RuntimeConstants
ASSUME GateAssumption == Gate!GateConstants
ASSUME PaperAssumption == Paper!PaperConstants
ASSUME BooksAssumption == Books!BooksConstants

-----------------------------------------------------------------------------
MCQuantity == [i \in Intent |-> IF i = "e1" THEN 2 ELSE 1]

MCClientOf == [i \in StoreIntent |-> IF i = 3 THEN 1 ELSE i]
Call(o, p, a) == [op |-> o, p |-> p, arg |-> a]
MCPositionCalls ==
    {Call("open", i, s) : i \in 1..2, s \in {"OPEN", "CLOSED"}} \cup
    {Call(o, 1, Nil) : o \in {"update_open_fill", "mark_closed", "save_closed"}} \cup
    {Call("mark_closing", 1, r) : r \in CloseReason}
MCCalls == MCPositionCalls \cup {Call("reserve", i, Nil) : i \in StoreIntent}

MCCloses == <<53, 49, 70>>
MCRules ==
    {r \in [take : {4, 10}, stop : {1, 4}, rr : {15}, size : {50, 100}, capital : {60, 100},
            coin : {Nil, 80}, leverage : {1, 2}, open : {1}, edge : {Nil, 1}] :
        r.coin = Nil <=> r.take = 4}
Account(e, m, l) == [equity |-> e, margin |-> m, leverage |-> l]
MCWallets == {Account(Nil, 150, 1), Account(200, 400, 1), Account(200, 120, 2)}

MCPaperMarkets == {<<"flat", "volume", "drop", "volume", "flat">>}

Execution(i, t, d, o, q, p, f) ==
    [id |-> i, trade |-> t, direction |-> d, open |-> o, q |-> q, p |-> p, fee |-> f]
MCMarkets ==
    {[live |-> {Execution(1, 1, "LONG", TRUE, 2, 16, 2), Execution(2, 1, "LONG", FALSE, 2, 12, 1)},
      test |-> {}],
     [live |-> {Execution(3, 3, "LONG", TRUE, 1, 16, 2)},
      test |-> {[trade |-> 9, q |-> 1, p |-> 12, fee |-> 10, at |-> 0]}],
     [live |-> {Execution(4, 2, "SHORT", TRUE, 1, 12, 3), Execution(5, 2, "SHORT", TRUE, 2, 18, 0),
                Execution(6, 2, "SHORT", FALSE, 3, 19, 1)},
      test |-> {}]}
\* One statement of an evaluation fails at a time.
MCFailures ==
    {{}, {"get_record"}, {"first_snapshot"}, {"ensure_baseline"}, {"reread"}, {"realized"}, {"latch"},
     {"relatched"}}

-----------------------------------------------------------------------------
storeVars == <<backend, orders, rows, storeClosed, locks, call, told, made>>
gateVars == <<wallet, size, paused, others, executions, candle, pending, orderSent, changes>>
paperVars ==
    <<mode, clock, tape, held, active, testing, created, mark, first, fate, paper,
      paperFills, regime, paperOrders, step, deaths, errors>>
runtimeVars ==
    <<now, stopped, limitOn, pnl, checkpoint, since, lifecycle, outcome, latched,
      notified, messages, heartbeat, lane, entries, partial, spent>>
bookVars ==
    <<bookTime, scenario, equity, executed, booked, trades, snapshots, record, clerk,
      verdict, faults>>
exchangeVars == <<vars, storeVars, gateVars>>
candleVars == <<paperVars, runtimeVars, bookVars>>
allVars == <<kind, exchangeVars, candleVars>>

AllInit ==
    /\ kind \in Kind
    /\ Init
    /\ IF kind = "stores" THEN Stores!Init
       ELSE /\ backend = Nil /\ orders = Nil /\ rows = Nil /\ storeClosed = Nil /\ locks = Nil
            /\ call = Nil /\ told = Nil /\ made = Nil
    /\ IF kind = "gate" THEN Gate!Init
       ELSE /\ wallet = Nil /\ size = Nil /\ paused = Nil /\ others = Nil /\ executions = Nil
            /\ candle = Nil /\ pending = Nil /\ orderSent = Nil /\ changes = Nil
    /\ IF kind = "paper" THEN Paper!Init
       ELSE /\ mode = Nil /\ clock = Nil /\ tape = Nil /\ held = Nil /\ active = Nil
            /\ testing = Nil /\ created = Nil /\ mark = Nil /\ first = Nil /\ fate = Nil
            /\ paper = Nil /\ paperFills = Nil /\ regime = Nil /\ paperOrders = Nil
            /\ step = Nil /\ deaths = Nil /\ errors = Nil
    /\ IF kind = "runtime" THEN Runtime!Init
       ELSE /\ now = Nil /\ stopped = Nil /\ limitOn = Nil /\ pnl = Nil
            /\ checkpoint = Nil /\ since = Nil /\ lifecycle = Nil /\ outcome = Nil
            /\ latched = Nil /\ notified = Nil /\ messages = Nil /\ heartbeat = Nil
            /\ lane = Nil /\ entries = Nil /\ partial = Nil /\ spent = Nil
    /\ IF kind = "accounting" THEN Books!Init
       ELSE /\ bookTime = Nil /\ scenario = Nil /\ equity = Nil /\ executed = Nil
            /\ booked = Nil /\ trades = Nil /\ snapshots = Nil /\ record = Nil
            /\ clerk = Nil /\ verdict = Nil /\ faults = Nil

\* The bounded parts may stop; the position worker never has to.
Rest == kind # "position" /\ UNCHANGED allVars

AllNext ==
    \/ kind = "position" /\ Next /\ UNCHANGED <<kind, storeVars, gateVars, candleVars>>
    \/ kind = "stores" /\ Stores!Next /\ UNCHANGED <<kind, vars, gateVars, candleVars>>
    \/ kind = "gate" /\ Gate!Next /\ UNCHANGED <<kind, vars, storeVars, candleVars>>
    \/ kind = "paper" /\ Paper!Next /\ UNCHANGED <<kind, exchangeVars, runtimeVars, bookVars>>
    \/ kind = "runtime" /\ Runtime!Next /\ UNCHANGED <<kind, exchangeVars, paperVars, bookVars>>
    \/ kind = "accounting" /\ Books!Next /\ UNCHANGED <<kind, exchangeVars, paperVars, runtimeVars>>
    \/ Rest

AllSpec == AllInit /\ [][AllNext]_allVars

\* Bound: the entries are decided in the order of their candles, the larger
\* one first.
Decided(i) == i \in settled \/ execution[Entry(i)] # Nil
InCandleOrder == Decided("e2") => Decided("e1")

-----------------------------------------------------------------------------
\* On either store one reserve of an intent returns created and no two orders
\* share a client order id; on SQLite one position of a symbol is live
\* (FuturesStores).
StoresHold == kind = "stores" => Stores!OneReservation /\ Stores!IndexHolds

\* "one open futures position per symbol is allowed" (FuturesStores).
OneLivePosition == kind = "stores" => Stores!OneLivePosition

\* What was sent obeys the limits on the account it was computed from
\* (FuturesGate).
EntryIsBounded == kind = "gate" => Gate!EntryIsBounded
\* Between the first and the last checkpoint of a lane every candle has its
\* outcome, wherever the process died (PaperRuntime).  Gap recovery proves
\* continuity before the checkpoint moves, and the daily loss latch holds for
\* the rest of its UTC day (FuturesRuntime).
NoCandleIsLost ==
    /\ kind = "paper" => Paper!HistoryHasNoHoles
    /\ kind = "runtime" => Runtime!RecoveryIsComplete /\ Runtime!LatchHolds

\* docs/trading-rules.md: "Current incomplete candles are excluded"
\* (FuturesRuntime).
ClosedCandlesOnly == kind = "runtime" => Runtime!ClosedCandlesOnly

\* Results are the cash the fills moved, drawdowns the largest fall from a
\* peak, and a latched day stays blocked (FuturesAccounting).
BooksAddUp == kind = "accounting" => Books!NetIsCash /\ Books!DrawdownIsExact /\ Books!LatchStands
=============================================================================
