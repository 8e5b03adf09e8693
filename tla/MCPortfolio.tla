----------------------------- MODULE MCPortfolio -----------------------------
(***************************************************************************)
(* The ledgers of Portfolio.  They share no row, so that a behaviour of    *)
(* the three together is an interleaving of a behaviour of each: the model *)
(* explores them side by side, one per initial value of ledger.  The       *)
(* proofs speak of the same instances, for any values of their constants;  *)
(* the values of the run, MC..., are these.                                *)
(*                                                                         *)
(* Capital: a stale first state, a live empty one, one recorded under the  *)
(* same evidence with other content, and one with capital still retained   *)
(* by a closing tranche; two decisions, one of them put in two versions;   *)
(* two constructions of one grant and one that may be too large.  Cooldown:*)
(* an attempt whose acceptance is disputed, proven, resolved and lost from *)
(* sight again, and one that is accepted and cancelled without a fill; two *)
(* appliers interleave.  Results: a result delivered again, for another    *)
(* day, and beside a second result of its tranche; the advisory            *)
(* keys make result and tranche cross.                                     *)
(***************************************************************************)
EXTENDS PortfolioCapital, TLC

CONSTANTS
    Ledger,                                       \* the ledgers to explore
    Attempt, OrderEvent, Duration, Applier, MaxTime,
    Day, Opening, Posting, Unrealized, FinalEvent, ResultKey, TrancheKey, MaxKey

VARIABLES
    ledger,
    config, pin, booked, applied, raced, job, now,       \* cooldown
    day, results, receipts, work                  \* results

Cooldown == INSTANCE PortfolioCooldown WITH Event <- OrderEvent
Results == INSTANCE PortfolioResults WITH Event <- FinalEvent, txn <- work

ASSUME CapitalAssumption == CapitalConstants
ASSUME CooldownAssumption == Cooldown!CooldownConstants
ASSUME ResultsAssumption == Results!ResultsConstants

-----------------------------------------------------------------------------
MCBuckets(h, r, f, c, n) ==
    [held |-> h, reserved |-> r, filled |-> f, closing |-> c, tranches |-> n]
MCEmpty == MCBuckets(0, 0, 0, 0, 0)
MCState(e, n, live, global, coin) ==
    [evidence |-> e, rev |-> n, live |-> live, global |-> global, coin |-> coin]
MCSnapshot ==
    {MCState("e1", 1, FALSE, MCEmpty, Nil), MCState("e2", 2, TRUE, MCEmpty, MCEmpty),
     MCState("e2", 3, TRUE, MCBuckets(1, 1, 0, 1, 2), MCBuckets(0, 1, 0, 1, 1)),
     MCState("e3", 3, TRUE, MCBuckets(0, 1, 0, 2, 1), MCBuckets(0, 0, 0, 2, 1))}
MCPolicy == [minimum |-> 1, globalCap |-> 6, coinCap |-> 5, maxOpen |-> 2, maxPerCoin |-> 2]
MCAsked(d, n, g) == [decision |-> d, content |-> n, grant |-> g]
MCRequest == {MCAsked("d1", 1, "g1"), MCAsked("d1", 2, "g2"), MCAsked("d2", 1, "g2")}
MCBuilt(c, g, s, k) == [id |-> c, grant |-> g, spec |-> s, capital |-> k]
MCConstruction ==
    {MCBuilt("c1", "g1", "s1", 2), MCBuilt("c2", "g1", "s2", 1), MCBuilt("c3", "g2", "s3", 3)}
MCInput == {[daily |-> FALSE, cooldown |-> c, clear |-> TRUE] : c \in {"PASS", "BLOCKED"}}

MCTold(a, r, status, resolved, state, at) ==
    [attempt |-> a, rev |-> r, status |-> status, resolved |-> resolved,
     state |-> state, at |-> at]
MCOrderEvent ==
    {MCTold("a", 1, "UNAVAILABLE", FALSE, "SUBMITTING", Nil),
     MCTold("a", 2, "CONFLICT", FALSE, "OPEN", 0),
     MCTold("a", 3, "PROVEN", FALSE, "OPEN", 0),
     MCTold("a", 3, "PROVEN", TRUE, "OPEN", 0),
     MCTold("a", 4, "UNAVAILABLE", FALSE, "RECONCILING", Nil),
     MCTold("b", 1, "PROVEN", FALSE, "PENDING_ENTRY", 1),
     MCTold("b", 2, "NOT_APPLICABLE", FALSE, "CANCELLED_ZERO_FILL", Nil)}

MCOpened(d, base) == [day |-> d, base |-> base]
MCOpening == {MCOpened("d1", 100), MCOpened("d1", Nil), MCOpened("d2", 50)}
MCPosted(r, t, d, pnl, at) ==
    [result |-> r, tranche |-> t, day |-> d, pnl |-> pnl, delivered |-> at]
MCPosting ==
    {MCPosted("r1", "t1", "d1", -2, 1), MCPosted("r1", "t1", "d2", -2, 1),
     MCPosted("r1", "t1", "d1", -2, 2), MCPosted("r2", "t1", "d1", 1, 1),
     MCPosted("r3", "t2", "d1", 3, 1)}
MCUnrealized == {-1}
MCFinal(e, r, t, balanced) ==
    [id |-> e, result |-> r, tranche |-> t, final |-> TRUE, balanced |-> balanced]
MCFinalEvent ==
    {MCFinal("e1", "r1", "t1", TRUE), MCFinal("e2", "r2", "t1", TRUE),
     MCFinal("e3", "r1", "t2", TRUE), MCFinal("e4", "r3", "t3", FALSE)}
MCResultKey == [r1 |-> 2, r2 |-> 4, r3 |-> 5]
MCTrancheKey == [t1 |-> 3, t2 |-> 1, t3 |-> 6]

-----------------------------------------------------------------------------
cooldownVars == <<config, pin, booked, applied, raced, job, now>>
resultVars == <<day, results, receipts, work>>
allVars == <<ledger, vars, cooldownVars, resultVars>>

AllInit ==
    /\ ledger \in Ledger
    /\ Init /\ Cooldown!Init /\ Results!Init
    /\ ledger # "cooldown" => config = 1

AllNext ==
    /\ UNCHANGED ledger
    /\ \/ ledger = "capital" /\ Next /\ UNCHANGED <<cooldownVars, resultVars>>
       \/ ledger = "cooldown" /\ Cooldown!Next /\ UNCHANGED <<vars, resultVars>>
       \/ ledger = "results" /\ Results!Next /\ UNCHANGED <<vars, cooldownVars>>

AllSpec == AllInit /\ [][AllNext]_allVars

\* Connections and the authorization ids they choose are interchangeable.
Symmetry == Permutations(Txn) \cup Permutations(Applier) \cup Permutations(Auth)

-----------------------------------------------------------------------------
(***************************************************************************)
(* cooldown_gate_for_pins blocks a symbol while the newest event applied   *)
(* to one of its attempts says so, whatever appliers race; and while any   *)
(* applied event says so, for an attempt none of whose pins was written    *)
(* over one that the writer had not read.                                  *)
(***************************************************************************)
FailsClosed == Cooldown!FailsClosed

(***************************************************************************)
(* PORTFOLIO_RULES.md of a disputed acceptance: nothing but an explicit    *)
(* resolution erases it.  apply_order_event computes the new pin from a    *)
(* pin it has read without a lock.                                         *)
(***************************************************************************)
ConflictStands == Cooldown!ConflictStands

(***************************************************************************)
(* latch_daily_loss_once: a latch is not undone by writers of the day that *)
(* read it earlier.                                                        *)
(***************************************************************************)
LatchHolds == Results!LatchHolds

(***************************************************************************)
(* post_final_result_once adds a day up from what was posted and last      *)
(* reported, no result counting twice; accept_order_event leaves one       *)
(* receipt per result and per tranche; and the locks receipts take in the  *)
(* order of their keys never close a circle.                               *)
(***************************************************************************)
ResultsHold == Results!ResultsHold
=============================================================================
