----------------------------- MODULE FuturesGate -----------------------------
(***************************************************************************)
(* The entry gate of the futures ACTIVE lane: price and size of an entry   *)
(* from the account that was read, the protective exits rounded to ticks,  *)
(* the futures risk rules FRSK-001..013 and the checks that               *)
(* open_position and submit_approved_limit_order repeat before the order   *)
(* is sent (execution/futures.py, execution/position_lifecycle.py,         *)
(* services/futures_runtime.py).  The wallet, the operator's pause and the *)
(* stored positions may change between the verdict and the order.          *)
(*                                                                         *)
(* Decimals are integers: a price is a number of points, a rule is in      *)
(* percent.  An intent is the candle it was decided on.                    *)
(***************************************************************************)
EXTENDS Integers, FiniteSets, FiniteSetsExt

CONSTANTS None,
          Closes,      \* closing price of each candle
          Rules,       \* [take, stop, rr, size, capital, coin, leverage, open, edge]
          Wallets,     \* [equity, margin, leverage]; equity may be None
          Tick, Passive, Step, MinQty, MaxQty, MinNotional,
          Leverages, Move, Fees, Funding,
          MaxChanges

VARIABLES wallet, size,      \* the exchange's account of the symbol
          paused,            \* operator trading state
          others,            \* notional of positions of other symbols in the store
          executions,        \* intents with an execution record
          candle, pending,   \* the intent being processed, with its account and verdict
          sent,              \* orders that reached the exchange, with what they rest on
          changes

vars == <<wallet, size, paused, others, executions, candle, pending, sent, changes>>

\* What is assumed of the constants: the grids are real, and prices, balances
\* and rules are numbers.
GateConstants ==
    /\ Tick \in Nat \ {0} /\ Step \in Nat \ {0} /\ Passive \in Int
    /\ \A i \in DOMAIN Closes : Closes[i] \in Int
    /\ \A r \in Rules : /\ r.take \in Int /\ r.stop \in Int /\ r.rr \in Int /\ r.size \in Int
                        /\ r.capital \in Int /\ r.coin \in Int \cup {None} /\ r.leverage \in Int
    /\ \A w \in Wallets : w.margin \in Int /\ w.equity \in Int \cup {None}
    /\ None \notin Int

Init == /\ wallet \in Wallets /\ size = 0
        /\ paused = FALSE /\ others = <<>>
        /\ executions = {} /\ candle = 0 /\ pending = None /\ sent = {} /\ changes = 0

FloorTo(x, step) == (x \div step) * step
CeilTo(x, step) == - FloorTo(- x, step)

---------------------------------------------------------------------------
(* The world outside one cycle.                                            *)

Change == changes < MaxChanges /\ changes' = changes + 1

AccountChanges == /\ Change /\ wallet' \in Wallets
                  /\ UNCHANGED <<size, paused, others, executions, candle, pending, sent>>
OperatorToggles == /\ Change /\ paused' = ~paused
                   /\ UNCHANGED <<wallet, size, others, executions, candle, pending, sent>>
\* A position of another symbol is opened, or this symbol's is closed.
PositionsChange == /\ Change
                   /\ \/ others = <<>> /\ others' = <<MinNotional>> /\ UNCHANGED size
                      \/ size > 0 /\ size' = 0 /\ UNCHANGED others
                   /\ UNCHANGED <<wallet, paused, executions, candle, pending, sent>>

---------------------------------------------------------------------------
(* Price, size and exits.                                                  *)

\* _intent_price: ten ticks below the close, on the grid.
IntentPrice(close) == FloorTo(close - Passive * Tick, Tick)

\* _capital_denominator
Denominator(a) == IF a.equity # None /\ a.equity > 0 THEN a.equity ELSE a.margin

\* The share of the capital that may be in positions: the coin's own
\* allocation, if it has one, may be smaller.
CapitalShare(r) == IF r.coin # None /\ r.coin < r.capital THEN r.coin ELSE r.capital

\* _position_risk_config_from_rules: the cap, in hundredths.
MaxNotional100(a, r) == Denominator(a) * CapitalShare(r) * r.leverage

\* calculate_position_size
PositionSize(a, r, price) ==
    LET cap100 == Min({a.margin * r.size * r.leverage, MaxNotional100(a, r)})
    IN FloorTo(cap100 \div (100 * price), Step)

SizeValid(q, price) == /\ q > 0 /\ q >= MinQty /\ q * price >= MinNotional
                       /\ MaxQty # None => q <= MaxQty

TargetPrice(price, r) == FloorTo(price * (100 + r.take), 100 * Tick) \div 100

\* Mutant: the stop is rounded away from the entry.
StopPriceMutant(price, r) == FloorTo(price * (100 - r.stop), 100 * Tick) \div 100

\* build_fixed_protective_exit_plan: both exits are rounded towards the entry.
StopPrice(price, r) == CeilTo(price * (100 - r.stop), 100 * Tick) \div 100

ExitsValid(price, r) == TargetPrice(price, r) > price /\ StopPrice(price, r) < price

\* evaluate_risk_reward, the ratio in tenths.
RiskReward(price, r) ==
    LET reward == TargetPrice(price, r) - price
        risk == price - StopPrice(price, r)
    IN risk > 0 /\ reward > 0 /\ 10 * reward >= r.rr * risk

---------------------------------------------------------------------------
(* FuturesRiskManager.evaluate.  The other rules are about configuration    *)
(* that is fixed here (006) or never block (007, 008, 009, 011).            *)

LeverageValid(a, r) == /\ r.leverage \in Leverages
                       /\ a.leverage = r.leverage

\* estimate_costs: both fees and the funding.
Costs(q, price) == (Fees * q * price) \div 100 + Funding

\* estimate_net_edge: the funding cost is in the total and subtracted again.
NetEdge(q, price) == Move - Costs(q, price) - Funding

\* The state of the intent, FLAT, is the account's.
Flat(a) == a.size = 0

Approves(i, a, r, q, price) ==
    /\ 100 * q * price <= MaxNotional100(a, r)                      \* FRSK-001
    /\ i \notin executions                                          \* FRSK-002
    /\ LeverageValid(a, r)                                          \* FRSK-003
    /\ a.margin * r.leverage >= q * price                           \* FRSK-004
    /\ Flat(a)                                                      \* FRSK-005
    /\ r.edge # None => NetEdge(q, price) >= r.edge                 \* FRSK-010
    /\ ExitsValid(price, r)                                         \* FRSK-012
    /\ RiskReward(price, r)                                         \* FRSK-013

---------------------------------------------------------------------------
(* One candle with a signal.                                               *)

\* _account_from_bybit: wallet and position of the symbol, read one after the other.
Account == [equity |-> wallet.equity, margin |-> wallet.margin, leverage |-> wallet.leverage, size |-> size]

\* The intent that goes to the risk manager and on to the executor.
Entry(i, a, r, q, price) == [intent |-> i, account |-> a, rules |-> r, q |-> q, price |-> price]

\* The account is read, the entry sized and the verdict taken.  No size, a
\* position or a refusal end the candle; exits that make no sense raise, and
\* the candle is tried again.
Prepare(r) ==
    LET i == candle + 1
        a == Account
        price == IntentPrice(Closes[i])
        q == PositionSize(a, r, price)
        sized == Denominator(a) > 0 /\ price > 0 /\ SizeValid(q, price) /\ Flat(a)
    IN /\ pending = None /\ i \in DOMAIN Closes
       /\ sized => ExitsValid(price, r)
       /\ IF sized /\ Approves(i, a, r, q, price)
          THEN /\ pending' = Entry(i, a, r, q, price)
               /\ UNCHANGED candle
          ELSE candle' = i /\ UNCHANGED pending
       /\ UNCHANGED <<wallet, size, paused, others, executions, sent, changes>>

TotalOpenNotional == FoldSet(LAMBDA x, acc : others[x] + acc, 0, DOMAIN others)

\* The checks of open_position and submit_approved_limit_order.
Fits(p) == /\ size = 0
           /\ p.rules.open # None => Cardinality(DOMAIN others) < p.rules.open
           /\ 100 * (TotalOpenNotional + p.q * p.price) <= MaxNotional100(p.account, p.rules)
           /\ p.price % Tick = 0 /\ p.q % Step = 0
           /\ p.account.margin * p.rules.leverage >= p.q * p.price
           /\ p.intent \notin executions

\* _validate_operator_trading_state
TradingEnabled == ~paused

\* A pause ends the candle; another refusal is an execution error, without a
\* checkpoint: the candle is processed again.
Submit ==
    LET p == pending
    IN /\ p # None
       /\ pending' = None
       /\ IF Fits(p) /\ TradingEnabled
          THEN /\ executions' = executions \cup {p.intent}
               /\ sent' = sent \cup {[entry |-> p, open |-> TotalOpenNotional,
                                      stop |-> StopPrice(p.price, p.rules), target |-> TargetPrice(p.price, p.rules)]}
               /\ size' = p.q
          ELSE UNCHANGED <<executions, sent, size>>
       /\ candle' = IF Fits(p) THEN p.intent ELSE candle
       /\ UNCHANGED <<wallet, paused, others, changes>>

Next == \/ AccountChanges \/ OperatorToggles \/ PositionsChange
        \/ \E r \in Rules : Prepare(r)
        \/ Submit

---------------------------------------------------------------------------
\* An order that reached the exchange risks no more than its rules say,
\* although prices are rounded to ticks, quantities to steps, and the account
\* is the one read before the verdict: the stop is below the entry and not
\* farther than stop_loss_pct, the target keeps the ratio, and the capital of
\* all positions together fits the share of this coin
\* (build_fixed_protective_exit_plan, calculate_position_size, open_position).
EntryIsBounded == \A o \in sent :
    LET e == o.entry
        r == e.rules
    IN /\ o.stop < e.price /\ 100 * (e.price - o.stop) <= r.stop * e.price
       /\ o.target > e.price /\ 10 * (o.target - e.price) >= r.rr * (e.price - o.stop)
       /\ 100 * e.q * e.price <= e.account.margin * r.size * r.leverage
       /\ 100 * (o.open + e.q * e.price) <= Denominator(e.account) * CapitalShare(r) * r.leverage

---------------------------------------------------------------------------
\* The entry between its verdict and its order: what was computed and approved.
Priced(p) ==
    /\ p.price \in Int /\ p.price > 0 /\ p.q \in Int /\ p.rules \in Rules
    /\ p.account.margin \in Int /\ p.account.equity \in Int \cup {None}
    /\ ExitsValid(p.price, p.rules) /\ RiskReward(p.price, p.rules)
    /\ 100 * p.q * p.price <= p.account.margin * p.rules.size * p.rules.leverage

\* The inductive invariant.
GateInv ==
    /\ wallet \in Wallets
    /\ pending # None => Priced(pending)
    /\ EntryIsBounded
===============================================================================
