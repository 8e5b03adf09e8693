----------------------------- MODULE MCLifecycle -----------------------------
(***************************************************************************)
(* The ledgers of Lifecycle: order submission, close authority,            *)
(* reconciliation, the synchronisation with Set and, composed with it, the *)
(* monitor of a pending entry.  The ledgers share no row, so that a        *)
(* behaviour of them together is an interleaving of a behaviour of each:   *)
(* the model explores them side by side, one per initial value of ledger.  *)
(* The proofs speak of the same instances, for any values of their         *)
(* constants; the values of the run, MC..., are these.                     *)
(*                                                                         *)
(* Submission: three construction payloads for one tranche; c2 is c1 under *)
(* the same identities with other order spec content, c3 a second plan     *)
(* with its own grant and spec.  Close: one tranche, two racing callers,   *)
(* two close workers.  Reconciliation: an observation and a changed copy   *)
(* of it, a partial revision 1, a complete revision 2 with a changed copy  *)
(* under another event id, a progress record that claims revision 3, and   *)
(* one that names another scope.  Synchronisation: a tranche's submission  *)
(* intent (not yet accepted), its placement, a partial fill, the cancelled *)
(* remainder or the full fill (two events for one revision: only one is    *)
(* recorded), a full fill that reconciliation establishes later, and the   *)
(* final close.  Monitor: an entry that is placed, filled and closed, two  *)
(* frozen predicates, the second optional, two evaluators, and three       *)
(* pieces of evidence: one invalidates, one leaves the required predicate  *)
(* unavailable, one is a recovery.                                         *)
(***************************************************************************)
EXTENDS OrderSubmission, TLC

CONSTANTS
    Ledger,                                              \* the ledgers to explore
    Tranche, CloseCause, CloseCaller, CloseWorker, ChildSeq, MaxRevision,
    Evidence, EvidenceId, RevisionId, Revision, Scope, Complete, Recorder,
    Event, RevOf, TypeOf, Acked, Publisher,
    Observation, Conditions, Required, Outcome, Evaluator, MaxTicks

VARIABLES
    ledger,
    intent, causes, child, basis, call, told, seen,  \* close authority
    records, accepted, tomb, lookup,                 \* reconciliation
    history, row, outbox, publish,                   \* synchronisation
    frozen, tombstone, ticks, signals, cancels, eval \* pending entry monitor

Close == INSTANCE CloseAuthority
    WITH CauseEvent <- CloseCause, Caller <- CloseCaller, Worker <- CloseWorker
Recon == INSTANCE Reconciliation WITH job <- lookup
Sync == INSTANCE PendingEntryMonitor
    WITH Evidence <- Observation, ledger <- history, job <- publish

ASSUME CloseAssumption == Close!CloseConstants
ASSUME ReconciliationAssumption == Recon!ReconciliationConstants
ASSUME SyncAssumption == Sync!SyncConstants
ASSUME MonitorAssumption == Sync!MonitorConstants

-----------------------------------------------------------------------------
MCConstruction == {"c1", "c2", "c3"}
MCResultOf   == [c \in MCConstruction |-> IF c = "c3" THEN "r2" ELSE "r1"]
MCSpecOf     == [c \in MCConstruction |-> IF c = "c3" THEN "s2" ELSE "s1"]
MCGrantOf    == [c \in MCConstruction |-> IF c = "c3" THEN "g2" ELSE "g1"]
MCDigestOf   == [c \in MCConstruction |-> IF c = "c2" THEN "d2" ELSE "d1"]
MCTrancheOf  == [c \in MCConstruction |-> "t1"]
MCCapitalOf  == [c \in MCConstruction |-> IF c = "c2" THEN 3 ELSE 2]
MCCapacityOf == [c \in MCConstruction |-> IF c = "c1" THEN 2 ELSE 3]
MCSlotsOf    == [c \in MCConstruction |-> 1]
MCHashedId   == [s \in {"s1", "s2"} |-> IF s = "s1" THEN "cl1" ELSE "cl2"]

MCEvidence == {"obs", "obsChanged", "partial", "complete", "completeChanged",
               "newer", "otherScope"}
MCEvidenceId == [e \in MCEvidence |-> IF e = "obsChanged" THEN "obs" ELSE e]
MCRevisionId == [e \in MCEvidence |->
    IF e \in {"obs", "obsChanged"} THEN "observation" ELSE "resolution"]
MCRevision == [e \in MCEvidence |->
    CASE e \in {"obs", "obsChanged", "partial", "otherScope"} -> 1
      [] e \in {"complete", "completeChanged"} -> 2
      [] e = "newer" -> 3]
MCScope == [e \in MCEvidence |-> IF e = "otherScope" THEN "scope2" ELSE "scope1"]

MCEvent == {"intent", "placed", "partial", "filled", "cancelled", "late", "closed"}
MCRevOf == [intent |-> 0, placed |-> 1, partial |-> 2, filled |-> 3, cancelled |-> 3,
            late |-> 4, closed |-> 5]
MCTypeOf == [intent |-> "ENTRY_SUBMISSION_INTENT", placed |-> "ENTRY_ACCEPTED",
             partial |-> "PARTIAL_FILL", filled |-> "FULL_FILL", late |-> "FULL_FILL",
             cancelled |-> "ENTRY_REMAINDER_CANCELLED", closed |-> "POSITION_CLOSED_TP"]

MCObservation == {"true", "missing", "recovered"}
MCConditions == <<"kA", "kB">>
MCOutcome == [s \in MCObservation |->
    CASE s = "true" -> [kA |-> "TRUE", kB |-> "TRUE"]
      [] s = "missing" -> [kA |-> "UNAVAILABLE", kB |-> "FALSE"]
      [] s = "recovered" -> [kA |-> "FALSE", kB |-> "FALSE"]]

\* The bounds of the monitor: one publisher, and evaluators that interleave
\* while the entry is placed and filled; once the position's close is recorded
\* they evaluate one at a time.
MonitorBounds ==
    /\ history \subseteq {"placed", "filled", "closed"}
    /\ \A p \in Publisher : publish[p] # Nil => p = CHOOSE q \in Publisher : TRUE
    /\ \/ "closed" \notin history
       \/ \A v, w \in Evaluator : eval[v] # Nil /\ eval[w] # Nil => v = w

-----------------------------------------------------------------------------
closeVars == <<intent, causes, child, basis, call, told, seen>>
reconVars == <<records, accepted, tomb, lookup>>
syncVars == <<history, row, outbox, publish>>
watchVars == <<frozen, tombstone, ticks, signals, cancels, eval>>
allVars == <<ledger, vars, closeVars, reconVars, syncVars, watchVars>>

AllInit ==
    /\ ledger \in Ledger
    /\ Init /\ Close!Init /\ Recon!Init /\ Sync!Init /\ Sync!WatchInit
    /\ ledger # "monitor" => frozen

AllNext ==
    /\ UNCHANGED ledger
    /\ \/ ledger = "submission" /\ Next
          /\ UNCHANGED <<closeVars, reconVars, syncVars, watchVars>>
       \/ ledger = "close" /\ Close!Next
          /\ UNCHANGED <<vars, reconVars, syncVars, watchVars>>
       \/ ledger = "reconciliation" /\ Recon!Next
          /\ UNCHANGED <<vars, closeVars, syncVars, watchVars>>
       \/ ledger = "synchronisation" /\ Sync!Next
          /\ UNCHANGED <<vars, closeVars, reconVars, watchVars>>
       \/ ledger = "monitor" /\ Sync!MonitorNext /\ MonitorBounds'
          /\ UNCHANGED <<vars, closeVars, reconVars>>

AllSpec == AllInit /\ [][AllNext]_allVars

\* Causes, callers and workers of the close authority, and the evaluators of
\* the monitor, are interchangeable.
Symmetry == Permutations(CloseCause) \cup Permutations(CloseCaller) \cup Permutations(CloseWorker)
            \cup Permutations(Evaluator)

-----------------------------------------------------------------------------
(***************************************************************************)
(* acquire_or_join loses no cause, however callers race for the first      *)
(* insert, and authorize_reduction_child leaves at most one child that can *)
(* still execute.                                                          *)
(***************************************************************************)
CloseHolds == Close!CloseHolds

(***************************************************************************)
(* _advance_tombstone unblocks exposure by a complete resolution only, and *)
(* the reconciliation ledger holds one content per evidence revision.      *)
(***************************************************************************)
ReconciliationHolds == Recon!ReconciliationHolds

(***************************************************************************)
(* What Set and Lifecycle tell each other: the cycle's row agrees with the *)
(* messages publish_from_order_event left in the outbox, and each cancel   *)
(* signal of the monitor with the record it was raised on.                 *)
(***************************************************************************)
SetIsTold == Sync!SetIsTold

(***************************************************************************)
(* What is settled stays settled, whatever arrives late.  A stale worker   *)
(* authorizes no reduction, resolve_intent closes a tranche for good, old  *)
(* evidence undoes no resolution, no placement is recorded below the       *)
(* tombstone, recovered evidence withdraws no requirement, and no delayed  *)
(* message of the entry restarts a terminal monitor.                       *)
(***************************************************************************)
SettledStays ==
    /\ Close!AuthorizedOnCurrentIntent
    /\ Close!ResolvedIsFinal
    /\ Recon!NoRegression
    /\ Sync!TombstoneHolds
    /\ Sync!RequirementSurvivesRecovery
    /\ Sync!TerminalMonitorStaysStopped
=============================================================================
