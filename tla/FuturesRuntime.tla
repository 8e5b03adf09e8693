--------------------------- MODULE FuturesRuntime ---------------------------
(***************************************************************************)
(* FuturesDualLaneRuntime (services/futures_runtime.py): the candle loop   *)
(* of the linear futures demo, its checkpoint-gap recovery over paged      *)
(* history, and the daily loss latch (services/daily_loss.py).  The fetch  *)
(* of the recent candles and the reading of the clock that tells which of  *)
(* them are complete are two instants, as in the code.  Every write is its *)
(* own transaction and the process may die between any two.                *)
(* What happens to an opened position is FuturesPosition's subject.        *)
(***************************************************************************)
EXTENDS Integers, Sequences, FiniteSets

CONSTANTS Candles,     \* 1..n: candle c is complete from instant c on
          Signals,     \* \subseteq Candles: those with an entry opportunity
          Window,      \* candles the recent-kline call returns
          Batch,       \* _RECOVERY_BATCH_CANDLES
          Page,        \* _RECOVERY_PAGE_LIMIT
          StaleAfter,  \* stale_after_seconds, in candles
          DayEnd,      \* the last candle of the first UTC day
          LossLimit,   \* baseline equity times daily_loss_limit_pct
          MaxSpent     \* bound: deaths, faults, refusals, edits and
                       \* clock ticks inside a cycle, together

VARIABLES now, paused, limitOn, pnl,
          checkpoint, since, lifecycle, execution, latched, notified,
          messages, heartbeat, pc,
          entries,     \* history: every order sent, with the latch it met
          partial,     \* history: candles decided on data of an open candle
          spent

Lanes == {"ACTIVE", "TEST"}
Days  == {1, 2}
Day(t) == IF t <= DayEnd THEN 1 ELSE 2
Final == {"no_signal", "no_intent", "risk_rejected", "test_simulated",
          "completed", "active_execution_paused", "stale_entry_suppressed"}

Status == Final \cup {"none", "risk_recorded", "execution_error", "execution_unknown"}

\* What is assumed of the constants.
RuntimeConstants ==
    /\ Candles \subseteq Nat /\ 2 \in Candles /\ \E n \in Candles : Candles = 1..n
    /\ Window \in Nat /\ Batch \in Nat \ {0} /\ DayEnd \in Int

env     == <<now, paused, limitOn, pnl>>
loss    == <<latched, notified>>
history == <<entries, partial>>
vars    == <<env, checkpoint, since, lifecycle, execution, loss, messages,
             heartbeat, pc, history, spent>>

Idle == [at |-> "idle"]

(* The stores: reads of the lane rows and the writes the actions make.     *)
LastDone(l) == checkpoint[l]

Decided(l, c) == lifecycle[l][c] \in Final

Upsert(l, c, status) == [lifecycle EXCEPT ![l][c] = status]

Executed(c, status) == [execution EXCEPT ![c] = status]

Unresolved == {c \in Candles : execution[c] = "unknown"}

(* Messages are keyed, so telling twice leaves one.                        *)
Tell(kind, key) == messages' = messages \cup {<<kind, key>>}

Beat(status) == heartbeat' = status

LatchDay(d) == latched' = [latched EXCEPT ![d] = TRUE]

MarkNotified(d) == notified' = [notified EXCEPT ![d] = TRUE]

Init == /\ now = 2 /\ paused = FALSE /\ limitOn = TRUE
        /\ pnl = [d \in Days |-> 0]
        /\ checkpoint = [l \in Lanes |-> 0] /\ since = [l \in Lanes |-> 0]
        /\ lifecycle = [l \in Lanes |-> [c \in Candles |-> "none"]]
        /\ execution = [c \in Candles |-> "none"]
        /\ latched = [d \in Days |-> FALSE]
        /\ notified = [d \in Days |-> FALSE]
        /\ messages = {} /\ heartbeat = "RUNNING" /\ pc = Idle
        /\ entries = {} /\ partial = {}
        /\ spent = 0

---------------------------------------------------------------------------
(* The environment: time, closed trades, the operator and the rules.       *)

Tick == /\ now + 1 \in Candles
        /\ pc.at \in {"idle", "fetched", "batch", "lane", "approved"}
        /\ now' = now + 1
        /\ IF pc = Idle THEN UNCHANGED spent
                        ELSE spent < MaxSpent /\ spent' = spent + 1
        /\ UNCHANGED <<paused, limitOn, pnl, checkpoint, since, lifecycle,
                       execution, loss, messages, heartbeat, pc, history>>

Edit == /\ spent < MaxSpent /\ pc.at \in {"idle", "approved"}
        /\ spent' = spent + 1
        /\ \/ paused' = ~paused /\ UNCHANGED <<limitOn, pnl>>
           \/ limitOn' = ~limitOn /\ UNCHANGED <<paused, pnl>>
           \/ /\ pnl' = [pnl EXCEPT ![Day(now)] =
                            IF @ = 0 THEN 0 - LossLimit ELSE 0]
              /\ UNCHANGED <<paused, limitOn>>
        /\ UNCHANGED <<now, checkpoint, since, lifecycle, execution, loss,
                       messages, heartbeat, pc, history>>

---------------------------------------------------------------------------
(* process_once: fetch, then choose the candle by the clock.               *)

rest == <<env, checkpoint, since, lifecycle, execution, loss, history>>

Fetch == /\ pc = Idle
         /\ pc' = [at |-> "fetched", fetched |-> now]
         /\ Beat("RUNNING")
         /\ UNCHANGED <<rest, messages, spent>>

(* Market or account data unavailable: the cycle ends degraded.            *)
Unavailable == /\ pc.at \in {"fetched", "candle"} /\ spent < MaxSpent
               /\ spent' = spent + 1
               /\ Beat("DEGRADED") /\ pc' = Idle
               /\ UNCHANGED <<rest, messages>>

(* The response ends with the candle still open at the fetch.              *)
Rows(f) == {c \in Candles : c <= f + 1 /\ c > f + 1 - Window}

Complete(f) == {c \in Rows(f) : c <= now}

Candidates(f) == {c \in Complete(f) : c - 1 \in Complete(f)}

NewestOf(S) == CHOOSE c \in S : \A d \in S : d <= c
OldestOf(S) == CHOOSE c \in S : \A d \in S : c <= d

Fresh(f) == {c \in Candidates(f) : c > LastDone("ACTIVE")}

(* The next candle after the checkpoint; the newest without a checkpoint,  *)
(* and the checkpointed one again when it is the newest.                   *)
Chosen(f) == IF LastDone("ACTIVE") = 0 \/ Fresh(f) = {}
             THEN NewestOf(Candidates(f)) ELSE OldestOf(Fresh(f))

Gap(f) == /\ LastDone("ACTIVE") # 0 /\ Fresh(f) # {}
          /\ OldestOf(Fresh(f)) # LastDone("ACTIVE") + 1

Choose == /\ pc.at = "fetched" /\ Candidates(pc.fetched) # {}
          /\ ~Gap(pc.fetched)
          /\ pc' = [at |-> "candle", fetched |-> pc.fetched,
                    c |-> Chosen(pc.fetched)]
          /\ UNCHANGED <<rest, messages, heartbeat, spent>>

Reconciled == [c \in Candles |-> IF c \in Unresolved THEN "filled"
                                                     ELSE execution[c]]

(* Account refresh, then every unresolved execution is reconciled.         *)
Recover == /\ pc.at = "candle"
           /\ execution' = Reconciled
           /\ pc' = [at |-> "lane", fetched |-> pc.fetched, c |-> pc.c,
                     todo |-> <<"ACTIVE", "TEST">>, missing |-> {},
                     recovery |-> FALSE, off |-> FALSE]
           /\ UNCHANGED <<env, checkpoint, since, lifecycle, loss, history,
                          messages, heartbeat, spent>>

---------------------------------------------------------------------------
(* _recover_active_checkpoint_gap: batches of missing candles, fetched in  *)
(* pages from either end of the range.                                     *)

StartRecovery == /\ pc.at = "fetched" /\ Gap(pc.fetched)
                 /\ Beat("DEGRADED")
                 /\ Tell("gap", LastDone("ACTIVE"))
                 /\ pc' = [at |-> "batch", fetched |-> pc.fetched]
                 /\ UNCHANGED <<rest, spent>>

StartBatch ==
    LET last   == LastDone("ACTIVE")
        latest == NewestOf(Candidates(pc.fetched))
        end    == IF latest < last + Batch THEN latest ELSE last + Batch IN
    /\ pc.at = "batch" /\ last < latest
    /\ pc' = [at |-> "page", fetched |-> pc.fetched, lo |-> last, hi |-> end,
              from |-> last, to |-> end, got |-> {}]
    /\ UNCHANGED <<rest, messages, heartbeat, spent>>

(* A page may hold any candles of the range, up to the limit; one that     *)
(* holds neither end of the range, or no candle, fails the recovery.       *)
Progresses(page) == pc.lo \in page \/ pc.hi \in page

FetchPage ==
    /\ pc.at = "page" /\ pc.lo <= pc.hi
    /\ ~(pc.from..pc.to \subseteq pc.got)
    /\ \E page \in SUBSET (pc.lo..pc.hi) :
          /\ page # {} /\ Cardinality(page) <= Page /\ Progresses(page)
          /\ pc' = [pc EXCEPT !.got = @ \cup page,
                       !.lo = IF pc.lo \in page THEN NewestOf(page) + 1
                                                ELSE @,
                       !.hi = IF pc.lo \in page THEN @
                                                ELSE OldestOf(page) - 1]
    /\ UNCHANGED <<rest, messages, heartbeat, spent>>

(* Bad pages, holes and conflicting rows end the recovery degraded.        *)
Fail == /\ Beat("DEGRADED")
        /\ Tell("failed", 0)
        /\ pc' = Idle

PageFails == /\ pc.at = "page" /\ spent < MaxSpent
             /\ spent' = spent + 1
             /\ Fail /\ UNCHANGED rest

\* Mutant: the boundaries are enough, holes between pages go unnoticed.
ProvenMutant == pc.from \in pc.got /\ pc.to \in pc.got

Proven == pc.from..pc.to \subseteq pc.got

MissingCandle == /\ pc.at = "page" /\ pc.lo > pc.hi /\ ~Proven
                 /\ Fail /\ UNCHANGED <<rest, spent>>

BatchProven ==
    LET found == {c \in pc.got : c > pc.from}
        oldest == OldestOf(found) IN
    /\ pc.at = "page" /\ Proven
    /\ pc' = [at |-> "lane", fetched |-> pc.fetched, c |-> oldest,
              todo |-> <<"ACTIVE", "TEST">>, missing |-> found \ {oldest},
              recovery |-> TRUE, off |-> FALSE]
    /\ UNCHANGED <<rest, messages, heartbeat, spent>>

(* The regime of a recovered candle is computed from the recent rows and   *)
(* the page: a row fetched while its candle was open conflicts.            *)
RegimeConflict == /\ pc.at = "lane" /\ pc.recovery /\ Len(pc.todo) = 2
                  /\ pc.c = pc.fetched + 1
                  /\ Beat("DEGRADED") /\ pc' = Idle
                  /\ UNCHANGED <<rest, messages, spent>>

RecoveryDone ==
    LET last == LastDone("ACTIVE") IN
    /\ pc.at = "batch" /\ last = NewestOf(Candidates(pc.fetched))
    /\ execution' = Reconciled
    /\ Tell("recovered", last)
    /\ Beat("RUNNING") /\ pc' = Idle
    /\ UNCHANGED <<env, checkpoint, since, lifecycle, loss, history, spent>>

---------------------------------------------------------------------------
(* _process_lane.                                                          *)

Lane == Head(pc.todo)

Stale(c) == now - c > StaleAfter

NextStep == IF Len(pc.todo) > 1 THEN [pc EXCEPT !.at = "lane", !.todo = Tail(@)]
            ELSE IF pc.missing # {} THEN [pc EXCEPT !.at = "lane",
                                              !.todo = <<"ACTIVE", "TEST">>,
                                              !.c = OldestOf(pc.missing),
                                              !.missing = @ \ {OldestOf(@)}]
            ELSE IF pc.recovery THEN [at |-> "batch", fetched |-> pc.fetched]
            ELSE Idle

Save(status) == lifecycle' = Upsert(Lane, pc.c, status)

Settle(status) == /\ Save(status)
                  /\ pc' = [pc EXCEPT !.at = "checkpoint"]

AlreadyProcessed == /\ pc.at = "lane" /\ Decided(Lane, pc.c)
                    /\ pc' = [pc EXCEPT !.at = "checkpoint"]
                    /\ UNCHANGED <<rest, messages, heartbeat, spent>>

Undecided == /\ pc.at = "lane" /\ ~Decided(Lane, pc.c)
             /\ ~(pc.recovery /\ Len(pc.todo) = 2 /\ pc.c = pc.fetched + 1)

Seen == /\ partial' = IF pc.c > pc.fetched /\ ~pc.recovery
                      THEN partial \cup {pc.c} ELSE partial
        /\ UNCHANGED entries

(* No signal: nothing happened, or the observation is stale by now.        *)
NoSignal == /\ Undecided /\ (pc.c \notin Signals \/ Stale(pc.c))
            /\ Settle("no_signal") /\ Seen
            /\ UNCHANGED <<env, checkpoint, since, execution, loss, messages,
                           heartbeat, spent>>

(* The volume or a declarative signal does not confirm the move.           *)
Unconfirmed == /\ pc.c \in Signals /\ ~Stale(pc.c)
               /\ spent < MaxSpent
               /\ spent' = spent + 1

(* Volume, rules, sizing, strategy or direction decline the entry.         *)
NoIntent == /\ Undecided /\ Unconfirmed
            /\ Settle("no_intent") /\ Seen
            /\ UNCHANGED <<env, checkpoint, since, execution, loss, messages,
                           heartbeat>>

(* A recovered entry opportunity is never traded.                          *)
StaleEntrySuppressed ==
    /\ Undecided /\ pc.c \in Signals /\ ~Stale(pc.c) /\ pc.recovery
    /\ Settle("stale_entry_suppressed") /\ Seen
    /\ UNCHANGED <<env, checkpoint, since, execution, loss, messages,
                   heartbeat, spent>>

Intends == Undecided /\ pc.c \in Signals /\ ~Stale(pc.c) /\ ~pc.recovery

TestSimulated == /\ Intends /\ Lane = "TEST"
                 /\ Settle("test_simulated") /\ Seen
                 /\ UNCHANGED <<env, checkpoint, since, execution, loss,
                                messages, heartbeat, spent>>

(* DailyLossEvaluator.evaluate: the limit latches the day, durably, before *)
(* anybody is told.                                                        *)
Reached == pnl[Day(now)] <= 0 - LossLimit

\* Mutant: the verdict is the current result, not the latch.
BlockedMutant == limitOn /\ Reached

Blocked == limitOn /\ (latched[Day(now)] \/ Reached)

Latch == /\ Intends /\ Lane = "ACTIVE" /\ limitOn
         /\ Reached /\ ~latched[Day(now)]
         /\ LatchDay(Day(now))
         /\ pc' = [pc EXCEPT !.at = "notify"]
         /\ UNCHANGED <<env, checkpoint, since, lifecycle, execution,
                        notified, history, messages, heartbeat, spent>>

Notify == /\ pc.at = "notify"
          /\ Tell("loss", Day(now))
          /\ MarkNotified(Day(now))
          /\ pc' = [pc EXCEPT !.at = "lane"]
          /\ UNCHANGED <<env, checkpoint, since, lifecycle, execution,
                         latched, history, heartbeat, spent>>

DailyLossBlocks == /\ Intends /\ Lane = "ACTIVE" /\ Blocked
                   /\ Reached => latched[Day(now)]
                   /\ Settle("no_intent") /\ Seen
                   /\ UNCHANGED <<env, checkpoint, since, execution, loss,
                                  messages, heartbeat, spent>>

(* The intent already has an execution: reconcile it.                      *)
Resume == /\ Intends /\ Lane = "ACTIVE" /\ ~Blocked
          /\ execution[pc.c] # "none"
          /\ \/ /\ execution' = Executed(pc.c, "filled")
                /\ Settle("completed")
             \/ /\ execution' = Executed(pc.c, "unknown")
                /\ Save("execution_unknown") /\ pc' = NextStep
          /\ Seen
          /\ UNCHANGED <<env, checkpoint, since, loss, messages, heartbeat,
                         spent>>

(* The risk manager approves; the order submission follows.                *)
EvaluateRisk ==
    /\ Intends /\ Lane = "ACTIVE" /\ ~Blocked /\ execution[pc.c] = "none"
    /\ Save("risk_recorded") /\ Seen
    /\ pc' = [pc EXCEPT !.at = "approved", !.off = ~limitOn]
    /\ UNCHANGED <<env, checkpoint, since, execution, loss, messages,
                   heartbeat, spent>>

(* The risk manager rejects, in either lane: the verdict is recorded and   *)
(* the candle is settled.  (A death between the two writes leaves what one *)
(* after EvaluateRisk leaves.)                                             *)
RiskRejected ==
    /\ Intends /\ spent < MaxSpent
    /\ Lane = "ACTIVE" => ~Blocked /\ execution[pc.c] = "none"
    /\ Settle("risk_rejected") /\ Seen
    /\ spent' = spent + 1
    /\ UNCHANGED <<env, checkpoint, since, execution, loss, messages,
                   heartbeat>>

(* The position is opened: paused, failed, in doubt, or accepted.          *)
Paused == /\ pc.at = "approved" /\ paused
          /\ Save("active_execution_paused")
          /\ pc' = [pc EXCEPT !.at = "checkpoint", !.off = FALSE]
          /\ UNCHANGED <<env, checkpoint, since, execution, loss, history,
                         messages, heartbeat, spent>>

ExecutionError == /\ pc.at = "approved" /\ ~paused
                  /\ spent < MaxSpent
                  /\ spent' = spent + 1
                  /\ Save("execution_error") /\ Beat("BLOCKED")
                  /\ pc' = [pc EXCEPT !.at = "lane", !.todo = Tail(@), !.off = FALSE]
                  /\ UNCHANGED <<env, checkpoint, since, execution, loss,
                                 history, messages>>

SendOrder == /\ pc.at = "approved" /\ ~paused /\ execution[pc.c] = "none"
             /\ entries' = entries \cup {[c |-> pc.c, day |-> Day(now),
                                          late |-> Stale(pc.c),
                                          latched |-> latched[Day(now)],
                                          off |-> pc.off]}
             /\ \E status \in {"filled", "unknown"} :
                   /\ execution' = Executed(pc.c, status)
                   /\ pc' = [pc EXCEPT !.at = status, !.off = FALSE]
             /\ UNCHANGED <<env, checkpoint, since, lifecycle, loss, partial,
                            messages, heartbeat, spent>>

InDoubt == /\ pc.at = "unknown"
           /\ Save("execution_unknown") /\ Beat("BLOCKED")
           /\ pc' = [pc EXCEPT !.at = "lane", !.todo = Tail(@)]
           /\ UNCHANGED <<env, checkpoint, since, execution, loss, history,
                          messages, spent>>

Completed == /\ pc.at = "filled"
             /\ Settle("completed")
             /\ UNCHANGED <<env, checkpoint, since, execution, loss, history,
                            messages, heartbeat, spent>>

Checkpoint == /\ pc.at = "checkpoint"
              /\ checkpoint' = [checkpoint EXCEPT ![Lane] = pc.c]
              /\ since' = [since EXCEPT ![Lane] = IF @ = 0 THEN pc.c ELSE @]
              /\ pc' = NextStep
              /\ UNCHANGED <<env, lifecycle, execution, loss, history,
                             messages, heartbeat, spent>>

Die == /\ spent < MaxSpent /\ pc # Idle
       /\ spent' = spent + 1 /\ pc' = Idle
       /\ UNCHANGED <<rest, messages, heartbeat>>

Next == \/ Tick \/ Edit \/ Fetch \/ Unavailable \/ Choose \/ Recover
        \/ StartRecovery \/ StartBatch \/ FetchPage \/ PageFails
        \/ MissingCandle \/ BatchProven \/ RegimeConflict \/ RecoveryDone
        \/ AlreadyProcessed \/ NoSignal \/ NoIntent \/ StaleEntrySuppressed
        \/ TestSimulated \/ Latch \/ Notify \/ DailyLossBlocks \/ Resume
        \/ EvaluateRisk \/ RiskRejected \/ Paused \/ ExecutionError \/ SendOrder \/ InDoubt
        \/ Completed \/ Checkpoint \/ Die

---------------------------------------------------------------------------
(* Continuity is proved before the checkpoint moves: across deaths, page   *)
(* faults and any number of batches, every candle from the first to the    *)
(* last checkpoint of the ACTIVE lane has a final lifecycle.               *)
RecoveryIsComplete ==
    checkpoint["ACTIVE"] # 0 =>
        \A c \in since["ACTIVE"]..checkpoint["ACTIVE"] :
            lifecycle["ACTIVE"][c] \in Final

(* The daily loss latch holds for the rest of its UTC day: whatever the    *)
(* day's result does afterwards, no entry is sent on a latched day unless  *)
(* the limit was off in the rules when the entry was decided.              *)
LatchHolds == \A e \in entries : e.latched => e.off

(* "Current incomplete candles are excluded": every decision rests on data *)
(* fetched after its candle closed.                                        *)
ClosedCandlesOnly == partial = {}

---------------------------------------------------------------------------
(* The inductive invariant.                                                *)

InLane == {"lane", "notify", "approved", "filled", "unknown", "checkpoint"}
FetchWork == [at : {"fetched", "batch"}, fetched : Candles]
CandleWork == [at : {"candle"}, fetched : Candles, c : Candles]
PageWork == [at : {"page"}, fetched : Candles, lo : Int, hi : Int, from : Candles, to : Candles,
             got : SUBSET Candles]
LaneWork == [at : InLane, fetched : Candles, c : Candles, todo : {<<"ACTIVE", "TEST">>, <<"TEST">>},
             missing : SUBSET Candles, recovery : BOOLEAN, off : BOOLEAN]

TypeOK ==
    /\ now \in Candles /\ limitOn \in BOOLEAN
    /\ checkpoint \in [Lanes -> Candles \cup {0}] /\ since \in [Lanes -> Candles \cup {0}]
    /\ lifecycle \in [Lanes -> [Candles -> Status]]
    /\ latched \in [Days -> BOOLEAN]
    /\ pc = Idle \/ pc \in FetchWork \/ pc \in CandleWork \/ pc \in PageWork \/ pc \in LaneWork

(* The candle a lane may settle next: none was, or it is not beyond the    *)
(* successor of the last.                                                  *)
Contiguous(c) == checkpoint["ACTIVE"] = 0 \/ c <= checkpoint["ACTIVE"] + 1

(* A batch goes on from the checkpoint, and its pages lie inside it.       *)
BatchIsAnchored ==
    /\ pc # Idle => pc.fetched <= now
    /\ pc.at \in {"batch", "page"} \/ (pc.at \in InLane /\ pc.recovery)
          => checkpoint["ACTIVE"] # 0 /\ Candidates(pc.fetched) # {}
    /\ pc.at = "page" => /\ pc.from = checkpoint["ACTIVE"] /\ pc.from < pc.to
                         /\ pc.from <= pc.lo /\ pc.hi <= pc.to /\ pc.got \subseteq pc.from..pc.to

(* The lane is at the candle after its checkpoint; a batch leaves no       *)
(* candle out.                                                             *)
LaneIsContiguous ==
    /\ pc.at = "candle" => Contiguous(pc.c)
    /\ pc.at \in InLane =>
          IF pc.recovery
          THEN /\ \A d \in pc.missing : pc.c < d /\ \A e \in (pc.c + 1)..d : e \in pc.missing
               /\ checkpoint["ACTIVE"] = IF Lane = "ACTIVE" THEN pc.c - 1 ELSE pc.c
          ELSE pc.missing = {} /\ (Lane = "ACTIVE" => Contiguous(pc.c))

(* A candle is settled before its checkpoint and not settled twice, and an *)
(* entry that was approved met no latch, unless the limit was off.         *)
SettledOnce ==
    /\ pc.at = "checkpoint" => Decided(Lane, pc.c)
    /\ pc.at \in {"notify", "approved", "filled", "unknown"} =>
          Lane = "ACTIVE" /\ ~pc.recovery /\ ~Decided(Lane, pc.c)
    /\ pc.at = "approved" /\ latched[Day(now)] => pc.off
    /\ \A d \in Days : latched[d] => d <= Day(now)

RuntimeInv ==
    /\ TypeOK /\ BatchIsAnchored /\ LaneIsContiguous /\ SettledOnce
    /\ since["ACTIVE"] = 0 <=> checkpoint["ACTIVE"] = 0
    /\ RecoveryIsComplete /\ LatchHolds
=============================================================================
