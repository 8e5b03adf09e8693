--------------------------- MODULE DurableMessages ---------------------------
(***************************************************************************)
(* The durable owner-to-owner transport: the outbox and inbox tables of    *)
(* persistence/durable_messages.py, the trading worker that polls them     *)
(* (services/trading_worker.py) and the dispatcher that commits the owner  *)
(* effect, the inbox row and the acknowledgement in one transaction        *)
(* (services/owner_dispatch.py).                                           *)
(*                                                                         *)
(* Time is abstract: leaseLive[m] says that lock_expires_at lies ahead of  *)
(* the clock, and LeaseLapses lets the clock pass it at any moment.  The   *)
(* clock a transaction reads is now(), which PostgreSQL freezes when the   *)
(* transaction starts, so the acknowledgement of worker w tests txLive[w], *)
(* the lease as it stood when w's dispatch transaction began.              *)
(***************************************************************************)
EXTENDS Naturals, Sequences, FiniteSets

CONSTANTS
    Worker,         \* worker processes; a restarted process keeps its worker_id
    Message,        \* message identities producers may append
    Consumers,      \* TRADING_WORKER_CONSUMERS, in polling order
    ConsumerOf,     \* ConsumerOf[m]: the outbox row's consumer
    ResearchConsumers, \* consumers whose dispatch renews its lease and acks by owner
    Delayed,        \* messages appended with an available_at in the future
    Certified,      \* messages whose route has a handler
    DependsOn,      \* DependsOn[m]: messages sent with the rows m's handler reads
    DedupeKey,      \* DedupeKey[m]: the producer's dedupe key
    CreatedAt,      \* CreatedAt[m]: rank of m by (created_at, message_id)
    ClaimLimit,     \* claim_limit of the worker
    MaxFaults,      \* bound on crashes, lost renewals and starved renewals
    NoWorker,       \* NULL in locked_by
    NoMessage       \* no dispatch transaction open

ASSUME ConstantsAssumption ==
    /\ Len(Consumers) \in Nat \ {0}
    /\ ConsumerOf \in [Message -> {Consumers[i] : i \in 1..Len(Consumers)}]
    /\ Delayed \subseteq Message
    /\ Certified \subseteq Message
    /\ DependsOn \in [Message -> SUBSET Message]
    /\ CreatedAt \in [Message -> Nat]
    /\ \A m, k \in Message : CreatedAt[m] = CreatedAt[k] => m = k
    /\ ClaimLimit \in Nat \ {0}
    /\ MaxFaults \in Nat
    /\ NoWorker \notin Worker
    /\ NoMessage \notin Message

VARIABLES
    status,         \* outbox row: "ABSENT", "PENDING", "IN_FLIGHT" or "CONSUMED"
    lockedBy,       \* outbox row: locked_by
    leaseLive,      \* outbox row: lock_expires_at lies in the future
    due,            \* outbox row: available_at has been reached
    inbox,          \* committed inbox row: "NONE" or "PROCESSED"
    effects,        \* committed owner effects of the message's handler
    pc,             \* control point of each worker
    turn,           \* index in Consumers the worker's cycle is at
    batch,          \* claimed messages the cycle has still to dispatch
    cur,            \* message of the open dispatch transaction
    replay,         \* the transaction found the inbox row already PROCESSED
    txLive,         \* lease of cur as of the transaction's frozen now()
    guardOk,        \* the renewal thread has recorded no failure
    faults          \* faults injected so far

outbox == <<status, lockedBy, leaseLive, due>>
owner  == <<inbox, effects>>
tx     == <<cur, replay, txLive, guardOk>>
cycle  == <<pc, turn, batch>>
vars   == <<outbox, owner, tx, cycle, faults>>

OutboxStatus == {"ABSENT", "PENDING", "IN_FLIGHT", "CONSUMED"}
Control      == {"stopped", "poll", "claimed", "inbox", "handler", "ack"}

Research == {m \in Message : ConsumerOf[m] \in ResearchConsumers}
InTx(w)  == pc[w] \in {"inbox", "handler", "ack"}

\* The uncommitted inbox row of cur[w] that w's transaction inserted.
HoldsInboxRow(w, m) == pc[w] \in {"handler", "ack"} /\ cur[w] = m /\ ~replay[w]

Init ==
    /\ status    = [m \in Message |-> "ABSENT"]
    /\ lockedBy  = [m \in Message |-> NoWorker]
    /\ leaseLive = [m \in Message |-> FALSE]
    /\ due       = [m \in Message |-> m \notin Delayed]
    /\ inbox     = [m \in Message |-> "NONE"]
    /\ effects   = [m \in Message |-> 0]
    /\ pc        = [w \in Worker |-> "stopped"]
    /\ turn      = [w \in Worker |-> 1]
    /\ batch     = [w \in Worker |-> {}]
    /\ cur       = [w \in Worker |-> NoMessage]
    /\ replay    = [w \in Worker |-> FALSE]
    /\ txLive    = [w \in Worker |-> FALSE]
    /\ guardOk   = [w \in Worker |-> TRUE]
    /\ faults    = 0

-----------------------------------------------------------------------------
(* Producers and the clock *)

\* append_outbox inside the producer's transaction.  A replay under a used
\* dedupe key inserts nothing, so only the first append changes the table.
AppendOutbox(m) ==
    /\ \A k \in Message : status[k] # "ABSENT" => DedupeKey[k] # DedupeKey[m]
    /\ status[m] = "ABSENT"
    /\ status' = [status EXCEPT ![m] = "PENDING"]
    /\ UNCHANGED <<lockedBy, leaseLive, due, owner, tx, cycle, faults>>

BecomesDue(m) ==
    /\ status[m] = "PENDING" /\ ~due[m]
    /\ due' = [due EXCEPT ![m] = TRUE]
    /\ UNCHANGED <<status, lockedBy, leaseLive, owner, tx, cycle, faults>>

\* A live renewal thread keeps the lease of the research message its worker
\* is dispatching ahead of the clock.
Renewing(m) == \E w \in Worker : InTx(w) /\ cur[w] = m /\ m \in Research
                                 /\ lockedBy[m] = w /\ guardOk[w]

\* A freshly claimed research message is dispatched at once (claim limit 1).
JustClaimed(m) == \E w \in Worker : pc[w] = "claimed" /\ m \in batch[w] \cap Research

\* The clock passes lock_expires_at.  For a research message whose worker is
\* renewing it, that takes a starved renewal thread, which counts as a fault.
LeaseLapses(m) ==
    /\ status[m] = "IN_FLIGHT" /\ leaseLive[m]
    /\ IF Renewing(m) \/ JustClaimed(m)
       THEN faults < MaxFaults /\ faults' = faults + 1
       ELSE UNCHANGED faults
    /\ leaseLive' = [leaseLive EXCEPT ![m] = FALSE]
    /\ UNCHANGED <<status, lockedBy, due, owner, tx, cycle>>

-----------------------------------------------------------------------------
(* The worker's polling cycle *)

\* The process supervisor starts a worker that is not running.
StartWorker(w) ==
    /\ pc[w] = "stopped"
    /\ pc' = [pc EXCEPT ![w] = "poll"]
    /\ UNCHANGED <<outbox, owner, tx, turn, batch, faults>>

\* Mutant: a message of a dead worker is not claimed again.
EligiblePendingOnly(c) == {m \in Message : ConsumerOf[m] = c /\ due[m] /\ status[m] = "PENDING"}

Eligible(c) == {m \in Message : /\ ConsumerOf[m] = c
                                /\ due[m]
                                /\ \/ status[m] = "PENDING"
                                   \/ status[m] = "IN_FLIGHT" /\ ~leaseLive[m]}

ClaimLimitFor(c) == IF c \in ResearchConsumers THEN 1 ELSE ClaimLimit

\* ORDER BY created_at, message_id LIMIT n.  Only the choice follows that
\* order: UPDATE ... RETURNING hands the claimed rows back in any order.
FirstByCreation(S, n) == {m \in S : Cardinality({k \in S : CreatedAt[k] < CreatedAt[m]}) < n}

NextTurn(w) == (turn[w] % Len(Consumers)) + 1

ClaimOutbox(w) ==
    LET c       == Consumers[turn[w]]
        claimed == FirstByCreation(Eligible(c), ClaimLimitFor(c))
    IN  /\ pc[w] = "poll"
        /\ status'    = [m \in Message |-> IF m \in claimed THEN "IN_FLIGHT" ELSE status[m]]
        /\ lockedBy'  = [m \in Message |-> IF m \in claimed THEN w ELSE lockedBy[m]]
        /\ leaseLive' = [m \in Message |-> m \in claimed \/ leaseLive[m]]
        /\ batch'     = [batch EXCEPT ![w] = claimed]
        /\ pc'        = [pc EXCEPT ![w] = IF claimed = {} THEN "poll" ELSE "claimed"]
        /\ turn'      = [turn EXCEPT ![w] = IF claimed = {} THEN NextTurn(w) ELSE turn[w]]
        /\ UNCHANGED <<due, owner, tx, faults>>

\* dispatch_claimed opens the dispatch transaction, and with it now().
BeginDispatch(w, m) ==
    /\ pc[w] = "claimed" /\ m \in batch[w]
    /\ pc'      = [pc EXCEPT ![w] = "inbox"]
    /\ cur'     = [cur EXCEPT ![w] = m]
    /\ txLive'  = [txLive EXCEPT ![w] = m \in Research /\ leaseLive[m] /\ lockedBy[m] = w]
    /\ UNCHANGED <<outbox, owner, turn, batch, replay, guardOk, faults>>

-----------------------------------------------------------------------------
(* The dispatch transaction *)

\* Mutant: record_inbox does not report that the row is PROCESSED.
RecordInboxIgnoringReplay(w) ==
    /\ pc[w] = "inbox"
    /\ \A v \in Worker : ~HoldsInboxRow(v, cur[w])
    /\ pc' = [pc EXCEPT ![w] = "handler"]
    /\ UNCHANGED <<outbox, owner, turn, batch, tx, faults>>

\* record_inbox.  INSERT ... ON CONFLICT waits for the transaction that holds
\* an uncommitted row with the same key, then sees what it committed.
RecordInbox(w) ==
    /\ pc[w] = "inbox"
    /\ \A v \in Worker : ~HoldsInboxRow(v, cur[w])
    /\ replay' = [replay EXCEPT ![w] = inbox[cur[w]] = "PROCESSED"]
    /\ pc' = [pc EXCEPT ![w] = IF inbox[cur[w]] = "PROCESSED" THEN "ack" ELSE "handler"]
    /\ UNCHANGED <<outbox, owner, turn, batch, cur, txLive, guardOk, faults>>

\* Mutant: the handler does not look for the rows it depends on.
HandlerReadyUnchecked(m) == m \in Certified

HandlerReady(m) == m \in Certified /\ \A k \in DependsOn[m] : status[k] # "ABSENT"

\* _dispatch_payload_complete_route followed by lease_guard.assert_active.
RunHandler(w) ==
    /\ pc[w] = "handler"
    /\ HandlerReady(cur[w])
    /\ cur[w] \in Research => guardOk[w]
    /\ pc' = [pc EXCEPT ![w] = "ack"]
    /\ UNCHANGED <<outbox, owner, tx, turn, batch, faults>>

\* The transaction's own state ends with it.
EndTx(w) ==
    /\ cur'     = [cur EXCEPT ![w] = NoMessage]
    /\ replay'  = [replay EXCEPT ![w] = FALSE]
    /\ txLive'  = [txLive EXCEPT ![w] = FALSE]
    /\ guardOk' = [guardOk EXCEPT ![w] = TRUE]

\* OwnerDispatchBlocked or a dead process: the transaction rolls back, the
\* rest of the batch stays IN_FLIGHT under its lease, the process ends.
Abandon(w) ==
    /\ pc'    = [pc EXCEPT ![w] = "stopped"]
    /\ turn'  = [turn EXCEPT ![w] = 1]
    /\ batch' = [batch EXCEPT ![w] = {}]
    /\ EndTx(w)
    /\ UNCHANGED <<outbox, owner>>

HandlerBlocked(w) ==
    /\ pc[w] = "handler"
    /\ ~HandlerReady(cur[w]) \/ (cur[w] \in Research /\ ~guardOk[w])
    /\ Abandon(w)
    /\ UNCHANGED faults

\* Mutant: research acknowledges with mark_outbox_consumed.
AckAllowedWithoutOwner(w) == cur[w] \in Research => guardOk[w]

\* Research: mark_outbox_consumed_by_owner behind lease_guard.assert_active.
\* Everyone else: mark_outbox_consumed, whatever happened to the lease.
AckAllowed(w) ==
    cur[w] \in Research => /\ guardOk[w]
                           /\ status[cur[w]] = "IN_FLIGHT"
                           /\ lockedBy[cur[w]] = w
                           /\ txLive[w]

\* mark_inbox_processed, the acknowledgement and COMMIT, which publishes the
\* handler's rows, the inbox row and the CONSUMED status together.
Ack(w) ==
    LET m == cur[w]
    IN  /\ pc[w] = "ack"
        /\ AckAllowed(w)
        /\ inbox'     = [inbox EXCEPT ![m] = "PROCESSED"]
        /\ effects'   = [effects EXCEPT ![m] = IF replay[w] THEN @ ELSE @ + 1]
        /\ status'    = [status EXCEPT ![m] = "CONSUMED"]
        /\ leaseLive' = [leaseLive EXCEPT ![m] = FALSE]
        /\ batch'     = [batch EXCEPT ![w] = @ \ {m}]
        /\ pc'        = [pc EXCEPT ![w] = IF batch[w] = {m} THEN "poll" ELSE "claimed"]
        /\ turn'      = [turn EXCEPT ![w] = IF batch[w] = {m} THEN NextTurn(w) ELSE @]
        /\ EndTx(w)
        /\ UNCHANGED <<lockedBy, due, faults>>

AckRefused(w) ==
    /\ pc[w] = "ack" /\ ~AckAllowed(w)
    /\ Abandon(w)
    /\ UNCHANGED faults

\* The renewal thread of a research dispatch: renew_outbox_lock updated no
\* row, or (a fault) it raised.  A successful renewal changes nothing here.
RenewLost(w) ==
    /\ InTx(w) /\ cur[w] \in Research /\ guardOk[w]
    /\ \/ /\ ~leaseLive[cur[w]] \/ lockedBy[cur[w]] # w \/ status[cur[w]] # "IN_FLIGHT"
          /\ UNCHANGED faults
       \/ faults < MaxFaults /\ faults' = faults + 1
    /\ guardOk' = [guardOk EXCEPT ![w] = FALSE]
    /\ UNCHANGED <<outbox, owner, cycle, cur, replay, txLive>>

Crash(w) ==
    /\ pc[w] # "stopped"
    /\ faults < MaxFaults /\ faults' = faults + 1
    /\ Abandon(w)

-----------------------------------------------------------------------------
WorkerStep(w) ==
    \/ StartWorker(w) \/ ClaimOutbox(w)
    \/ \E m \in Message : BeginDispatch(w, m)
    \/ RecordInbox(w) \/ RunHandler(w) \/ HandlerBlocked(w)
    \/ Ack(w) \/ AckRefused(w)

Next ==
    \/ \E m \in Message : AppendOutbox(m) \/ BecomesDue(m) \/ LeaseLapses(m)
    \/ \E w \in Worker : WorkerStep(w) \/ RenewLost(w) \/ Crash(w)

Spec == Init /\ [][Next]_vars

(***************************************************************************)
(* Fairness: the supervisor restarts a stopped process and a running one   *)
(* keeps executing; clocks advance, so leases lapse and available_at is    *)
(* reached; the two producers of a start gate both commit.                 *)
(***************************************************************************)
FairSpec ==
    /\ Spec
    /\ \A w \in Worker : WF_vars(WorkerStep(w))
    /\ \A m \in Message : /\ WF_vars(BecomesDue(m))
                          /\ WF_vars(LeaseLapses(m))
                          /\ WF_vars(AppendOutbox(m))

-----------------------------------------------------------------------------
(* Properties *)

TypeOK ==
    /\ status    \in [Message -> OutboxStatus]
    /\ lockedBy  \in [Message -> Worker \cup {NoWorker}]
    /\ leaseLive \in [Message -> BOOLEAN]
    /\ due       \in [Message -> BOOLEAN]
    /\ inbox     \in [Message -> {"NONE", "PROCESSED"}]
    /\ effects   \in [Message -> Nat]
    /\ pc        \in [Worker -> Control]
    /\ turn      \in [Worker -> 1..Len(Consumers)]
    /\ batch     \in [Worker -> SUBSET Message]
    /\ cur       \in [Worker -> Message \cup {NoMessage}]
    /\ replay    \in [Worker -> BOOLEAN]
    /\ txLive    \in [Worker -> BOOLEAN]
    /\ guardOk   \in [Worker -> BOOLEAN]
    /\ faults    \in 0..MaxFaults

\* An owner effect is committed at most once, however often leases lapse and
\* workers reclaim, crash and dispatch the message again; and a message leaves
\* the queue only together with its effect, so that neither a crash nor a stale
\* worker's acknowledgement loses it.
ExactlyOnce ==
    \A m \in Message : effects[m] <= 1 /\ (status[m] = "CONSUMED" => effects[m] = 1)

\* Two workers that both claimed a message (the first one's lease lapsed) are
\* never inside its handler at the same time.
HandlerExclusion ==
    \A v, w \in Worker : \A m \in Message :
        HoldsInboxRow(v, m) /\ HoldsInboxRow(w, m) => v = w

\* Fencing: a research message is acknowledged only by the worker that claimed
\* it last, and a message once consumed stays consumed and unleased.
Fencing ==
    [][\A m \in Message :
         /\ status[m] # "CONSUMED" /\ status'[m] = "CONSUMED" /\ m \in Research =>
              \A w \in Worker : cur[w] = m /\ cur'[w] # m => lockedBy[m] = w
         /\ status[m] = "CONSUMED" => status'[m] = "CONSUMED" /\ ~leaseLive'[m]]_vars

\* The inductive invariant behind the properties above.
\* The effect and the PROCESSED row were committed together.
EffectMatchesInbox == \A m \in Message : effects[m] = IF inbox[m] = "PROCESSED" THEN 1 ELSE 0
\* A worker only holds messages that were appended.
HeldWereAppended ==
    /\ \A w \in Worker : InTx(w) => cur[w] \in Message /\ status[cur[w]] # "ABSENT"
    /\ \A w \in Worker : \A m \in batch[w] : status[m] # "ABSENT"
\* What record_inbox and the handler saw is still true at the acknowledgement.
SeenStillTrue ==
    /\ \A w \in Worker : pc[w] # "ack" => ~replay[w]
    /\ \A w \in Worker : pc[w] = "ack" /\ replay[w] => inbox[cur[w]] = "PROCESSED"
    /\ \A w \in Worker : pc[w] = "ack" /\ ~replay[w] => HandlerReady(cur[w])
    /\ \A w \in Worker, m \in Message : HoldsInboxRow(w, m) => inbox[m] = "NONE"
\* Only a committed dispatch takes a message out of the queue.
ConsumedIsFinal ==
    \A m \in Message : status[m] = "CONSUMED" => inbox[m] = "PROCESSED" /\ ~leaseLive[m]

DispatchInv == /\ EffectMatchesInbox /\ HeldWereAppended /\ SeenStillTrue
               /\ ConsumedIsFinal /\ HandlerExclusion

Delivery == INSTANCE OwnerDelivery WITH
    sent      <- {m \in Message : status[m] # "ABSENT"},
    delivered <- {m \in Message : effects[m] > 0}

\* The transport implements once-only delivery after the dependencies.
ImplementsDelivery == Delivery!Spec

\* With fair workers and finitely many faults every certified message whose
\* dependencies were sent is delivered and leaves the queue.
EventuallyConsumed ==
    \A m \in Certified :
        (status[m] # "ABSENT" /\ \A k \in DependsOn[m] : status[k] # "ABSENT")
            ~> (status[m] = "CONSUMED" /\ effects[m] = 1)
=============================================================================
