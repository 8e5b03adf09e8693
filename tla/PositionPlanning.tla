-------------------------- MODULE PositionPlanning --------------------------
(***************************************************************************)
(* The Position owner, from a Market Handoff to an Order Spec              *)
(* (position_rules/, position_config_pins.py, position_construction.py,    *)
(* order_specs.py and their stores), for one decision cycle.               *)
(*                                                                         *)
(* The opportunity is evaluated and published under the rules current when *)
(* the handoff arrives; the construction follows a capital grant later,    *)
(* when the rules may have changed, and either message may be redelivered. *)
(* Prices, quantities and capital are exact, as in numeric_policy.py: the  *)
(* model counts them in integer units and compares ratios by products.     *)
(***************************************************************************)
EXTENDS Integers, FiniteSets

CONSTANTS None,
          Handoffs,   \* [direction, price, atr, tick, matched, levels]
          Rules,      \* trading rules versions, see Draft fields below
          Grants,     \* [capital, step, minQty, maxQty, minNotional, maxLeverage, maker, taker]
          QCapital,   \* the capital quantum, in capital units
          MaxEdits    \* bound on rules edits

VARIABLES handoff,      \* the frozen MARKET_HANDOFF
          rules,        \* the current rules version
          edits,
          pin,          \* triggertrade_position_config_pins
          opportunity,  \* position_opportunity owner state
          grant,        \* CAPITAL_AND_LIMITS received
          workflow,     \* position_construction_workflow owner state
          sent          \* messages to Portfolio and Lifecycle

vars == <<handoff, rules, edits, pin, opportunity, grant, workflow, sent>>

Init == /\ handoff \in Handoffs /\ rules \in Rules /\ edits = 0
        /\ pin = None /\ opportunity = None /\ grant = None /\ workflow = None /\ sent = {}

-----------------------------------------------------------------------------
\* numeric_policy.quantize of n / d onto the grid q

Floor(n, d, q) == (n \div (d * q)) * q

Ceil(n, d, q) == -Floor(-n, d, q)

Abs(n) == IF n < 0 THEN -n ELSE n

\* canonical wire value of a price formula
Price(p) == [status |-> "AVAILABLE", price |-> p]

NoPrice(status) == [status |-> status, price |-> None]

Usable(result) == result.status = "AVAILABLE"

-----------------------------------------------------------------------------
\* position_rules/formulas.py

Long(h) == h.direction = "LONG"

\* +1 or -1: the side on which a LONG or a SHORT earns.
Side(h) == IF Long(h) THEN 1 ELSE -1

\* The ranking of candidate levels: newest, then nearest, then by identity.
Ranks(a, b, ref) ==
  \/ a.at > b.at
  \/ a.at = b.at /\ Abs(a.price - ref) < Abs(b.price - ref)
  \/ a.at = b.at /\ Abs(a.price - ref) = Abs(b.price - ref) /\ a.id <= b.id

First(S, ref) == CHOOSE a \in S : \A b \in S : Ranks(a, b, ref)

\* _available_levels: no level that appeared after the match.
Available(h) == {l \in h.levels : l.at <= h.matched}

\* _is_low and _is_high: by the level's type or by its relative position.
IsLow(l) == l.type = "LOW" \/ l.relative = "BELOW"

IsHigh(l) == l.type = "HIGH" \/ l.relative = "ABOVE"

\* Levels on the losing side (support of a LONG, resistance of a SHORT) and
\* on the winning side, strictly beyond a margin.
Behind(h, ref, margin) ==
  {l \in Available(h) : /\ IF Long(h) THEN IsLow(l) ELSE IsHigh(l)
                        /\ Side(h) * (ref - l.price) > margin}

Ahead(h, ref, margin) ==
  {l \in Available(h) : /\ IF Long(h) THEN IsHigh(l) ELSE IsLow(l)
                        /\ Side(h) * (l.price - ref) > margin}

EntryInRange(h, p) == LET d == Abs(h.price - p) IN h.atr <= 10 * d /\ 4 * d <= 5 * h.atr

\* _dynamic_entry: the first ranked level 0.1 to 1.25 ATR away, rounded away
\* from the market, and still in range after rounding.
DynamicEntry(h) ==
  LET near == {l \in Behind(h, h.price, 0) : EntryInRange(h, l.price)}
      level == First(near, h.price).price
      rounded == IF Long(h) THEN Floor(level, 1, h.tick) ELSE Ceil(level, 1, h.tick)
  IN  IF near = {} THEN NoPrice("UNAVAILABLE")
      ELSE IF rounded <= 0 \/ Side(h) * (h.price - rounded) <= 0 THEN NoPrice("FAIL")
      ELSE IF ~EntryInRange(h, rounded) THEN NoPrice("UNAVAILABLE")
      ELSE Price(rounded)

\* _dynamic_stop: 0.2 ATR behind the first ranked level and at least 0.5 ATR
\* from the entry, rounded outwards, refused beyond 2 ATR.
DynamicStop(h, entry) ==
  LET behind == Behind(h, entry, h.tick)
      level == First(behind, entry).price
      raw == 10 * level - Side(h) * 2 * h.atr
      minimum == 10 * entry - Side(h) * 5 * h.atr
      adjusted == IF Side(h) * raw < Side(h) * minimum THEN raw ELSE minimum
      rounded == IF Long(h) THEN Floor(adjusted, 10, h.tick) ELSE Ceil(adjusted, 10, h.tick)
  IN  IF behind = {} THEN NoPrice("UNAVAILABLE")
      ELSE IF Side(h) * (10 * entry - adjusted) > 20 * h.atr THEN NoPrice("UNAVAILABLE")
      ELSE IF rounded <= 0 THEN NoPrice("FAIL")
      ELSE IF Side(h) * (level - rounded) <= 0 \/ Side(h) * (entry - rounded) <= 0 THEN NoPrice("FAIL")
      ELSE IF Side(h) * (entry - rounded) > 2 * h.atr THEN NoPrice("UNAVAILABLE")
      ELSE Price(rounded)

\* _fixed_stop and _fixed_take_profit: a percentage of the entry; neither
\* looks at the sign of what rounding leaves.
FixedStop(h, entry, r) ==
  IF Long(h) THEN Price(Floor(entry * (100 - r.stopPct), 100, h.tick))
             ELSE Price(Ceil(entry * (100 + r.stopPct), 100, h.tick))

FixedTakeProfit(h, entry, r) ==
  IF Long(h) THEN Price(Floor(entry * (100 + r.takePct), 100, h.tick))
             ELSE Price(Ceil(entry * (100 - r.takePct), 100, h.tick))

\* _dynamic_take_profit: levels closer than 0.75 ATR are passed over, the next
\* one decides, rounded towards the entry, and is refused beyond 4 ATR.
DynamicTakeProfit(h, entry) ==
  LET far == {l \in Ahead(h, entry, h.tick) : 4 * Abs(l.price - entry) >= 3 * h.atr}
      level == First(far, entry).price
      rounded == IF Long(h) THEN Floor(level, 1, h.tick) ELSE Ceil(level, 1, h.tick)
      distance == Abs(rounded - entry)
  IN  IF far = {} THEN NoPrice("UNAVAILABLE")
      ELSE IF Abs(level - entry) > 4 * h.atr THEN NoPrice("UNAVAILABLE")
      ELSE IF Side(h) * (rounded - entry) <= 0 \/ Side(h) * (level - rounded) < 0 THEN NoPrice("FAIL")
      ELSE IF 4 * distance < 3 * h.atr THEN NoPrice("UNAVAILABLE")
      ELSE Price(rounded)

\* _stop_loss_mode: FIXED may be overridden by the draft's metadata.
StopMode(r) == IF r.stopMode = "FIXED" /\ r.stopOverride # None THEN r.stopOverride ELSE r.stopMode

Stop(h, entry, r) ==
  IF ~Usable(entry) THEN NoPrice("UNAVAILABLE")
  ELSE IF StopMode(r) = "DYNAMIC" THEN DynamicStop(h, entry.price)
  ELSE FixedStop(h, entry.price, r)

TakeProfit(h, entry, r) ==
  IF ~Usable(entry) THEN NoPrice("UNAVAILABLE")
  ELSE IF r.takeMode = "FIXED" THEN FixedTakeProfit(h, entry.price, r)
  ELSE DynamicTakeProfit(h, entry.price)

PriceGeometry(h, entry, stop, take) ==
  /\ Usable(entry) /\ Usable(stop) /\ Usable(take)
  /\ Side(h) * stop.price < Side(h) * entry.price
  /\ Side(h) * entry.price < Side(h) * take.price

\* _gross_risk_reward against the threshold, a ratio in tenths
MinimumRR(entry, stop, take, r) ==
  r.minRR # None => 10 * Abs(take.price - entry.price) >= r.minRR * Abs(entry.price - stop.price)

\* evaluate_initial_position_opportunity, with the rules it was made under
Opportunity(h, r) ==
  LET entry == DynamicEntry(h)
      stop == Stop(h, entry, r)
      take == TakeProfit(h, entry, r)
      approved == Available(h) # {} /\ PriceGeometry(h, entry, stop, take) /\ MinimumRR(entry, stop, take, r)
  IN  [decision |-> IF approved THEN "APPROVE" ELSE "REJECT",
       entry |-> entry, stop |-> stop, take |-> take, rules |-> r]

-----------------------------------------------------------------------------
\* position_rules/construction.py

FinalQty(g, r, e) == Floor(g.capital * r.leverage, e, g.step)

\* Mutant: the held capital is rounded down.
HeldMutant(q, e, r) == Floor(q * e, r.leverage, QCapital)

\* held capital: the exact capital of the quantity, rounded up to QCAPITAL
Held(q, e, r) == Ceil(q * e, r.leverage, QCapital)

\* _evaluate_sizing: None, or the one gate that raised
SizingFailure(g, r, e) ==
  LET q == FinalQty(g, r, e)
  IN  IF g.capital % QCapital # 0 THEN "INVALID_CAPITAL_GRANT"
      ELSE IF r.leverage > g.maxLeverage THEN "LEVERAGE_ABOVE_MAXIMUM"
      ELSE IF Held(q, e, r) > g.capital THEN "CAPITAL_BOUND_VIOLATION"
      ELSE IF q = 0 THEN "QTY_ZERO_AFTER_FLOOR"
      ELSE IF q < g.minQty THEN "QTY_BELOW_MINIMUM"
      ELSE IF g.maxQty = None THEN "MAX_ORDER_QTY_UNAVAILABLE"
      ELSE IF g.maxQty < g.minQty THEN "INVALID_EXCHANGE_FACT"
      ELSE IF q > g.maxQty THEN "QTY_ABOVE_MAXIMUM"
      ELSE IF q * e < g.minNotional THEN "NOTIONAL_BELOW_MINIMUM"
      ELSE None

\* _evaluate_economics; fees are per mille, the edge threshold in percent
EconomicsFailures(h, o, g, r) ==
  LET e == o.entry.price
      q == FinalQty(g, r, e)
      risk == Side(h) * (e - o.stop.price)
      reward == Side(h) * (o.take.price - e)
      net == 1000 * reward * q - q * e * g.maker - o.take.price * q * g.taker
  IN  CASE risk = 0 -> {"ZERO_RISK_DISTANCE"}
        [] risk < 0 \/ reward <= 0 -> {"INVALID_GEOMETRY"}
        [] OTHER ->
             {f \in {"RR_BELOW_MINIMUM"} : r.minRR # None /\ 10 * reward < r.minRR * risk}
             \cup {f \in {"NET_EDGE_BELOW_MINIMUM"} : r.minEdge # None /\ net < 10 * r.minEdge * q * e}

\* Mutant: the construction reads the rules current at the time of the grant.
ConstructionRulesMutant(o) == rules

\* The rules version retained in the opportunity's source_configuration.
ConstructionRules(o) == o.rules

\* The gates of evaluate_position_construction, in its order: dependencies and
\* sizing first, economics only if none of them failed.
FailedGates(o, g) ==
  LET r == ConstructionRules(o)
      early == {f \in {"INITIAL_DECISION_NOT_APPROVED"} : o.decision # "APPROVE"}
               \cup {f \in {"DEPENDENCY_UNAVAILABLE"} : ~(Usable(o.entry) /\ Usable(o.stop) /\ Usable(o.take))}
               \cup (IF Usable(o.entry) THEN {SizingFailure(g, r, o.entry.price)} \ {None} ELSE {"INVALID_ENTRY"})
  IN  IF early # {} THEN early ELSE EconomicsFailures(handoff, o, g, r)

\* The Order Spec of a constructed plan.
OrderSpec(o, g) ==
  LET r == ConstructionRules(o)
      q == FinalQty(g, r, o.entry.price)
  IN  [qty |-> q, price |-> o.entry.price, stop |-> o.stop.price, take |-> o.take.price,
       leverage |-> r.leverage, held |-> Held(q, o.entry.price, r)]

\* evaluate_position_construction raises on a price that is not positive.
Constructible(o) == \A p \in {o.entry, o.stop, o.take} : Usable(p) => p.price > 0

Construction(o, g) ==
  LET failed == FailedGates(o, g)
  IN  [failed |-> failed, spec |-> IF failed = {} THEN OrderSpec(o, g) ELSE None]

-----------------------------------------------------------------------------
\* build_position_config_pin: the rules content the decision is bound to.
PinOf(r) == r

\* The pin, opportunity, workflow, construction and spec stores: insert once,
\* accept the same content again, raise a conflict on anything else.
Replays(stored, content) == stored \in {None, content}

\* The pin of the cycle: INSERT .. ON CONFLICT DO NOTHING, then compared.
Pins(r) == Replays(pin, PinOf(r)) /\ pin' = PinOf(r)

Message(type, body) == [type |-> type, body |-> body]

\* An operator saves another rules version (TriggerRegistry).
EditRules == /\ edits < MaxEdits
             /\ edits' = edits + 1
             /\ rules' \in Rules \ {rules}
             /\ UNCHANGED <<handoff, pin, opportunity, grant, workflow, sent>>

\* PositionOpportunityStore.evaluate_and_record: pin, state and message commit
\* together; a replay under other rules conflicts with the pin and changes
\* nothing, a replay under the same rules publishes the same message.
EvaluateOpportunity ==
  LET o == Opportunity(handoff, rules)
  IN  /\ Pins(rules)
      /\ Replays(opportunity, o)
      /\ opportunity' = o
      /\ sent' = sent \cup {Message("OPPORTUNITY_DECISION", o.decision)}
      /\ UNCHANGED <<handoff, rules, edits, grant, workflow>>

\* Portfolio answers an approved opportunity with a grant.
ReceiveGrant(g) == /\ grant = None
                   /\ Message("OPPORTUNITY_DECISION", "APPROVE") \in sent
                   /\ grant' = g
                   /\ UNCHANGED <<handoff, rules, edits, pin, opportunity, workflow, sent>>

\* PositionConstructionWorkflow.evaluate_and_record: evaluation, result, spec
\* and messages in one transaction, the same again on redelivery.
ConstructPosition ==
  /\ grant # None
  /\ Constructible(opportunity)
  /\ LET c == Construction(opportunity, grant)
     IN  /\ Replays(workflow, c)
         /\ workflow' = c
         /\ sent' = sent \cup {Message("CONSTRUCTION_RESULT", c.failed)}
                         \cup (IF c.spec = None THEN {} ELSE {Message("ORDER_SPEC", c.spec)})
  /\ UNCHANGED <<handoff, rules, edits, pin, opportunity, grant>>

Next == \/ EditRules
        \/ EvaluateOpportunity
        \/ \E g \in Grants : ReceiveGrant(g)
        \/ ConstructPosition

-----------------------------------------------------------------------------
\* The geometry and the risk-reward gate are evaluated twice, by different
\* formulas and at different times: an opportunity approved before the grant
\* is never refused for them after it, though the rules have changed since
\* (position_rules/construction.py against position_rules/formulas.py).
GatesAgree == workflow # None => workflow.failed \cap
  {"INITIAL_DECISION_NOT_APPROVED", "DEPENDENCY_UNAVAILABLE", "ZERO_RISK_DISTANCE",
   "INVALID_GEOMETRY", "RR_BELOW_MINIMUM"} = {}

\* An Order Spec never commits more than the capital granted, its quantity is
\* on the venue's grid, and it is the largest one the grant pays for
\* (position_rules/construction.py, _evaluate_sizing).
SpecFitsGrant == \A m \in sent : m.type = "ORDER_SPEC" =>
  LET s == m.body
  IN  /\ s.held <= grant.capital /\ s.qty * s.price <= s.held * s.leverage
      /\ s.qty % grant.step = 0 /\ s.qty >= grant.minQty /\ s.qty <= grant.maxQty
      /\ (s.qty + grant.step) * s.price > grant.capital * s.leverage
=============================================================================
