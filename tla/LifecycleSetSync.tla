-------------------------- MODULE LifecycleSetSync --------------------------
(***************************************************************************)
(* How Order Lifecycle tells Set about one decision cycle: the append-only *)
(* order event ledger, the triggertrade_lifecycle_set_sync row of the      *)
(* cycle, and the ORDER_PLACED messages published for Set                  *)
(* (lifecycle_order_events, lifecycle_order_event_store,                   *)
(* lifecycle_set_sync and lifecycle_set_sync_store).                       *)
(*                                                                         *)
(* publish_from_order_event reads the row without a lock, decides, and     *)
(* then upserts the row and appends the message.  The upsert takes the     *)
(* row lock (also when its WHERE rejects the update) and keeps it to the   *)
(* commit, so everything from the upsert to the commit is one step and     *)
(* the read is another.  A rolled-back transaction leaves no trace.        *)
(***************************************************************************)
EXTENDS Integers, FiniteSets

CONSTANTS
    Event,       \* logical order events of the cycle's tranche
    RevOf,       \* RevOf[e]: lifecycle_revision
    TypeOf,      \* TypeOf[e]: event_type
    Acked,       \* events whose order leg carries both order ids
    Publisher,   \* connections that publish order events
    Nil          \* NULL

(***************************************************************************)
(* TERMINAL_ENTRY_EVENT_TYPES                                              *)
(***************************************************************************)
TerminalTypes ==
    {"FULL_FILL", "CANCELLED_ZERO_FILL", "ENTRY_REMAINDER_CANCELLED",
     "SUBMISSION_FAILED_AFTER_PLACEMENT_RECONCILIATION"}

VARIABLES
    ledger,   \* triggertrade_lifecycle_order_events
    row,      \* the cycle's row of triggertrade_lifecycle_set_sync
    outbox,   \* events whose ORDER_PLACED message is in the outbox
    job       \* job[p]: the event p read the row for and has yet to publish

vars == <<ledger, row, outbox, job>>

(***************************************************************************)
(* build_lifecycle_set_sync_from_order_event: an entry-terminal event type *)
(* makes a terminal message; every other event makes a placement message   *)
(* as soon as its order leg names both order ids, and nothing otherwise.   *)
(***************************************************************************)
Terminal(e) == TypeOf[e] \in TerminalTypes
Placed(e) == ~Terminal(e) /\ e \in Acked
SyncEligible(e) == Terminal(e) \/ Placed(e)

\* An unset revision column.  Revisions are natural numbers, so that
\* GREATEST(COALESCE(column, 0), r) is the larger of the two.
Null == -1
Greatest(a, b) == IF a >= b THEN a ELSE b

Rows == [last : Nat, terminal : Nat \cup {Null}, stoppedBy : Event \cup {Nil},
         placement : Nat \cup {Null}, placedBy : Event \cup {Nil},
         payload : Event]

\* The rows' columns hold what they declare.
SyncConstants ==
    /\ RevOf \in [Event -> Nat]
    /\ DOMAIN TypeOf = Event
    /\ Acked \subseteq Event
    /\ Nil \notin Event \cup Rows

TypeOK ==
    /\ ledger \subseteq Event
    /\ row \in Rows \cup {Nil}
    /\ outbox \subseteq ledger
    /\ job \in [Publisher -> ledger \cup {Nil}]

Init ==
    /\ ledger = {}
    /\ row = Nil
    /\ outbox = {}
    /\ job = [p \in Publisher |-> Nil]

-----------------------------------------------------------------------------
(***************************************************************************)
(* LifecycleOrderEventStore.append.  The table is unique in event_id and   *)
(* in (event_variant, tranche_id, lifecycle_revision): a second event with *)
(* a taken revision is a conflict and is not recorded.                     *)
(***************************************************************************)
RecordEvent(e) ==
    /\ e \notin ledger
    /\ \A f \in ledger : RevOf[f] # RevOf[e]
    /\ ledger' = ledger \cup {e}
    /\ UNCHANGED <<row, outbox, job>>

(***************************************************************************)
(* The read that opens publish_from_order_event: a placement the committed *)
(* tombstone dominates is suppressed and the call ends there.              *)
(***************************************************************************)
Suppressed(e, r) ==
    Placed(e) /\ r # Nil /\ r.terminal # Null /\ RevOf[e] <= r.terminal

ReadRow(p, e) ==
    /\ job[p] = Nil
    /\ e \in ledger
    /\ SyncEligible(e)
    /\ ~Suppressed(e, row)
    /\ job' = [job EXCEPT ![p] = e]
    /\ UNCHANGED <<ledger, row, outbox>>

(***************************************************************************)
(* _upsert_placed                                                          *)
(***************************************************************************)
\* Mutant: only the payload is guarded by the revisions.
UpsertPlacedGuardingPayloadOnly(e, r) ==
    LET newer == RevOf[e] >= r.placement
        live  == r.terminal = Null \/ RevOf[e] > r.terminal
    IN  [r EXCEPT !.last = Greatest(@, RevOf[e]),
                  !.placement = Greatest(@, RevOf[e]),
                  !.placedBy = IF newer THEN e ELSE @,
                  !.payload = IF newer /\ live THEN e ELSE @]

UpsertPlaced(e, r) ==
    LET newer == RevOf[e] >= r.placement
    IN  IF r.terminal # Null /\ RevOf[e] <= r.terminal THEN r
        ELSE [r EXCEPT !.last = Greatest(@, RevOf[e]),
                       !.placement = Greatest(@, RevOf[e]),
                       !.placedBy = IF newer THEN e ELSE @,
                       !.payload = IF newer THEN e ELSE @]

(***************************************************************************)
(* _upsert_terminal                                                        *)
(***************************************************************************)
\* Mutant: the last terminal event to commit wins.
UpsertTerminalLastWriterWins(e, r) ==
    [r EXCEPT !.last = Greatest(@, RevOf[e]),
              !.terminal = RevOf[e],
              !.stoppedBy = e,
              !.payload = IF RevOf[e] >= r.last THEN e ELSE @]

UpsertTerminal(e, r) ==
    [r EXCEPT !.last = Greatest(@, RevOf[e]),
              !.terminal = Greatest(@, RevOf[e]),
              !.stoppedBy = IF RevOf[e] >= r.terminal THEN e ELSE @,
              !.payload = IF RevOf[e] >= r.last THEN e ELSE @]

(***************************************************************************)
(* The VALUES of the two INSERTs, for a cycle that has no row yet.         *)
(***************************************************************************)
FirstRow(e) ==
    [last |-> RevOf[e],
     terminal  |-> IF Terminal(e) THEN RevOf[e] ELSE Null,
     stoppedBy |-> IF Terminal(e) THEN e ELSE Nil,
     placement |-> IF Placed(e) THEN RevOf[e] ELSE Null,
     placedBy  |-> IF Placed(e) THEN e ELSE Nil,
     payload |-> e]

(***************************************************************************)
(* The rest of publish_from_order_event, to the commit.  The message is    *)
(* appended whatever the upsert did; its id and dedupe key are functions   *)
(* of the event, so a repeated append finds the first one.                 *)
(***************************************************************************)
Publish(p) ==
    /\ job[p] # Nil
    /\ LET e == job[p]
       IN  /\ row' = IF row = Nil THEN FirstRow(e)
                     ELSE IF Placed(e) THEN UpsertPlaced(e, row)
                     ELSE UpsertTerminal(e, row)
           /\ outbox' = outbox \cup {e}
    /\ job' = [job EXCEPT ![p] = Nil]
    /\ UNCHANGED ledger

(***************************************************************************)
(* The unit of work rolls back, or its process dies.                       *)
(***************************************************************************)
Rollback(p) ==
    /\ job[p] # Nil
    /\ job' = [job EXCEPT ![p] = Nil]
    /\ UNCHANGED <<ledger, row, outbox>>

Next ==
    \/ \E e \in Event : RecordEvent(e)
    \/ \E p \in Publisher :
        \/ \E e \in Event : ReadRow(p, e)
        \/ Publish(p)
        \/ Rollback(p)

Spec == Init /\ [][Next]_vars

-----------------------------------------------------------------------------
(***************************************************************************)
(* The row tells the truth about what Set was sent: its terminal revision  *)
(* is the newest terminal message's, its last revision the newest of all   *)
(* messages, and a placement message newer than the row's placement is one *)
(* the tombstone dominates; the payload it shows is the newest message's.  *)
(* Publishers that interleave, or repeat an event, must not leave a        *)
(* tombstone behind the messages.                                          *)
(***************************************************************************)
RowSummarisesOutbox ==
    IF row = Nil THEN outbox = {}
    ELSE /\ \A e \in outbox :
                /\ RevOf[e] <= row.last
                /\ Terminal(e) => RevOf[e] <= row.terminal
                /\ Placed(e) /\ RevOf[e] > row.placement
                     => row.terminal # Null /\ RevOf[e] <= row.terminal
         /\ row.stoppedBy # Nil =>
                row.stoppedBy \in outbox /\ RevOf[row.stoppedBy] = row.terminal
         /\ row.placedBy # Nil =>
                row.placedBy \in outbox /\ RevOf[row.placedBy] = row.placement
         /\ row.payload \in outbox /\ RevOf[row.payload] = row.last

(***************************************************************************)
(* The last revision is the newer of the row's two, and only events that   *)
(* make a message wait to be published.                                    *)
(***************************************************************************)
RevisionsAgree ==
    /\ row # Nil => row.last = Greatest(row.terminal, row.placement)
    /\ \A p \in Publisher : job[p] # Nil => SyncEligible(job[p])

SyncInv == TypeOK /\ RevisionsAgree /\ RowSummarisesOutbox

(***************************************************************************)
(* The tombstone holds in the row: revisions never move back, and once the *)
(* terminal revision is set a placement is only recorded above it, however *)
(* old the read that let the placement through.                            *)
(***************************************************************************)
TombstoneHolds ==
    [][row # Nil =>
        /\ row'.last >= row.last
        /\ row'.terminal >= row.terminal
        /\ row'.placement >= row.placement
        /\ row'.placement # row.placement /\ row.terminal # Null
             => row'.placement > row.terminal]_vars

=============================================================================
