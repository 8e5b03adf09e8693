------------------------ MODULE PendingEntryMonitor ------------------------
(***************************************************************************)
(* F013PendingEntryMonitor (set_engine/cancellation.py): Set watches the   *)
(* frozen conditions of one pending entry and asks Order Lifecycle to      *)
(* cancel it.  The monitor is composed with LifecycleSetSync, whose        *)
(* messages reach Set in any order and any number of times.                *)
(*                                                                         *)
(* One evaluation is one transaction of several reads and one write:       *)
(* the persisted terminal state is read first, then the sticky requirement *)
(* and, last, the outcome is written with put_if_absent.  Each read is a   *)
(* step, so evaluations of different evidence interleave.  put_if_absent   *)
(* under an existing key returns the stored record when the content is the *)
(* same, and raises otherwise; the content names the evidence and the      *)
(* placement of the request.  The caller that builds the requests is not   *)
(* in the repository: it may hand in any evidence, with or without any     *)
(* placement and terminal message that was published.                      *)
(***************************************************************************)
EXTENDS LifecycleSetSync, Sequences

CONSTANTS
    Evidence,    \* source_event_id of the observations
    Conditions,  \* the frozen condition's predicates, in their order
    Required,    \* the predicates with required = true
    Outcome,     \* Outcome[s][c]: _evaluate_condition of c under evidence s
    Evaluator,   \* connections that evaluate the monitor
    MaxTicks     \* bound: monitor state records kept

Condition == {Conditions[i] : i \in DOMAIN Conditions}

\* What a signal record says of the request that raised it, and an
\* evaluation that is under way.
Contents == [src : Evidence, placement : Event \cup {Nil}]
Evaluations == [src : Evidence, placement : Event \cup {Nil}, mine : BOOLEAN,
                checked : BOOLEAN, joined : BOOLEAN]

\* The predicates and their outcomes.
MonitorConstants ==
    /\ Conditions \in Seq(Condition)
    /\ Required \subseteq Condition
    /\ Outcome \in [Evidence -> [Condition ->
                     {"TRUE", "FALSE", "UNAVAILABLE", "INVALID_CONDITION"}]]
    /\ Nil \notin Contents \cup Evaluations

Unavailable == "unavailable"   \* the MONITORING_UNAVAILABLE requirement
Cause == Condition \cup {Unavailable}

VARIABLES
    frozen,     \* does the SET_FROZEN_CONDITION record resolve and match?
    tombstone,  \* the terminal message of the F013_MONITOR_STATE "terminal"
    ticks,      \* the other F013_MONITOR_STATE records
    signals,    \* F013_INVALIDATION_SIGNAL and F013_UNAVAILABLE_REQUIREMENT
    cancels,    \* ORDER_CANCEL_SIGNAL messages on the SET_CANCEL frontier
    eval        \* eval[v]: the evaluation v has begun

mvars == <<frozen, tombstone, ticks, signals, cancels, eval>>
allvars == <<vars, mvars>>

WatchInit ==
    /\ frozen \in BOOLEAN
    /\ tombstone = Nil
    /\ ticks = {}
    /\ signals = [c \in Cause |-> Nil]
    /\ cancels = {}
    /\ eval = [v \in Evaluator |-> Nil]

MonitorInit == Init /\ WatchInit

-----------------------------------------------------------------------------
(***************************************************************************)
(* What the caller may put in a request.  "mine" says that the placement   *)
(* names the request's own cycle, result, tranche and symbol.              *)
(***************************************************************************)
Placement == {e \in outbox : Placed(e)} \cup {Nil}
TerminalMessage == {e \in outbox : Terminal(e)} \cup {Nil}

(***************************************************************************)
(* _matching_terminal                                                      *)
(***************************************************************************)
MatchingTerminal(placement, terminal) ==
    /\ terminal # Nil
    /\ placement # Nil => RevOf[terminal] >= RevOf[placement]

(***************************************************************************)
(* _existing_terminal_result: the persisted terminal state stops every     *)
(* request but one whose placement has a newer revision.                   *)
(***************************************************************************)
\* Mutant: a placement lifts the terminal state.
StoppedUnlessPlaced(placement) ==
    tombstone # Nil /\ placement = Nil

Stopped(placement) ==
    /\ tombstone # Nil
    /\ placement # Nil => RevOf[tombstone] >= RevOf[placement]

(***************************************************************************)
(* evaluate with a terminal message that covers the placement.  A later    *)
(* request with other content finds the key taken and raises.              *)
(***************************************************************************)
StopMonitor(s, placement, terminal) ==
    /\ MatchingTerminal(placement, terminal)
    /\ tombstone = Nil
    /\ tombstone' = terminal
    /\ UNCHANGED <<vars, frozen, ticks, signals, cancels, eval>>

(***************************************************************************)
(* evaluate up to the read of the terminal state.  "joined" records, for   *)
(* the properties, whether the requirement already existed then.           *)
(***************************************************************************)
Begin(v, s, placement, terminal, mine) ==
    /\ eval[v] = Nil
    /\ ~MatchingTerminal(placement, terminal)
    /\ ~Stopped(placement)
    /\ placement = Nil => mine
    /\ eval' = [eval EXCEPT ![v] =
                  [src |-> s, placement |-> placement, mine |-> mine,
                   checked |-> FALSE, joined |-> signals[Unavailable] # Nil]]
    /\ UNCHANGED <<vars, frozen, tombstone, ticks, signals, cancels>>

End(v) == eval' = [eval EXCEPT ![v] = Nil]

(***************************************************************************)
(* _put_monitor_state under a suffix that names the evidence               *)
(***************************************************************************)
PutTick(kind, q) ==
    LET tick == [kind |-> kind, src |-> q.src, placement |-> q.placement]
    IN  /\ \A t \in ticks : t.kind = kind /\ t.src = q.src => t = tick
        /\ ticks' = ticks \cup {tick}
        /\ Cardinality(ticks') <= MaxTicks

(***************************************************************************)
(* A request with no placement is retained as deferred, and so is one      *)
(* whose placement is another entry's (_activation_mismatch_reason).       *)
(***************************************************************************)
RetainUnbound(v) ==
    /\ eval[v] # Nil /\ ~eval[v].checked
    /\ \/ eval[v].placement = Nil /\ PutTick("deferred", eval[v])
       \/ eval[v].placement # Nil /\ ~eval[v].mine /\ PutTick("activation-invalid", eval[v])
    /\ End(v)
    /\ UNCHANGED <<vars, frozen, tombstone, signals, cancels>>

(***************************************************************************)
(* evaluate's conditions: the first predicate that holds, and whether the  *)
(* frozen record or a required predicate leaves the entry unwatched        *)
(* (_frozen_record_reason, _evaluate_conditions, _unavailable_reason).     *)
(***************************************************************************)
Bound(v) == eval[v] # Nil /\ eval[v].placement # Nil /\ eval[v].mine

HoldsAt(s, i) == frozen /\ Outcome[s][Conditions[i]] = "TRUE"

\* The first predicate that holds, if any.
FirstTrue(s) ==
    {i \in DOMAIN Conditions : HoldsAt(s, i) /\ \A j \in 1..(i - 1) : ~HoldsAt(s, j)}

Unwatched(s) ==
    \/ ~frozen
    \/ \E c \in Required : Outcome[s][c] \in {"INVALID_CONDITION", "UNAVAILABLE"}

(***************************************************************************)
(* _persist_signal: the signal record and its message, or nothing.         *)
(***************************************************************************)
Content(q) == [src |-> q.src, placement |-> q.placement]
Message(cause, content) == [cause |-> cause, src |-> content.src]

PersistSignal(cause, q) ==
    /\ signals[cause] \in {Nil, Content(q)}
    /\ signals' = [signals EXCEPT ![cause] = Content(q)]
    /\ cancels' = cancels \cup {Message(cause, Content(q))}

(***************************************************************************)
(* _emit_or_join_invalidation for the first predicate that holds           *)
(***************************************************************************)
Invalidate(v) ==
    /\ Bound(v) /\ ~eval[v].checked
    /\ \E i \in FirstTrue(eval[v].src) : PersistSignal(Conditions[i], eval[v])
    /\ End(v)
    /\ UNCHANGED <<vars, frozen, tombstone, ticks>>

(***************************************************************************)
(* _existing_unavailable_result: a requirement once raised is returned,    *)
(* and its message appended again under its original causation, before any *)
(* other outcome than an invalidation.                                     *)
(***************************************************************************)
\* Mutant: a joined requirement is sent anew with the new evidence.
JoinUnavailableUnderNewEvidence(v) ==
    /\ signals[Unavailable] # Nil
    /\ cancels' = cancels \cup {Message(Unavailable, eval[v])}
    /\ End(v)
    /\ UNCHANGED <<vars, frozen, tombstone, ticks, signals>>

JoinUnavailable(v) ==
    /\ signals[Unavailable] # Nil
    /\ cancels' = cancels \cup {Message(Unavailable, signals[Unavailable])}
    /\ End(v)
    /\ UNCHANGED <<vars, frozen, tombstone, ticks, signals>>

\* Mutant: recovered evidence skips the requirement.
CheckUnavailableForUnwatchedOnly(v) ==
    /\ Bound(v) /\ ~eval[v].checked
    /\ FirstTrue(eval[v].src) = {}
    /\ \/ Unwatched(eval[v].src) /\ JoinUnavailable(v)
       \/ /\ signals[Unavailable] = Nil \/ ~Unwatched(eval[v].src)
          /\ eval' = [eval EXCEPT ![v].checked = TRUE]
          /\ UNCHANGED <<vars, frozen, tombstone, ticks, signals, cancels>>

CheckUnavailable(v) ==
    /\ Bound(v) /\ ~eval[v].checked
    /\ FirstTrue(eval[v].src) = {}
    /\ \/ JoinUnavailable(v)
       \/ /\ signals[Unavailable] = Nil
          /\ eval' = [eval EXCEPT ![v].checked = TRUE]
          /\ UNCHANGED <<vars, frozen, tombstone, ticks, signals, cancels>>

(***************************************************************************)
(* _emit_or_join_unavailable, which looks for the requirement once more    *)
(***************************************************************************)
RequireUnavailable(v) ==
    /\ eval[v] # Nil /\ eval[v].checked
    /\ Unwatched(eval[v].src)
    /\ \/ JoinUnavailable(v)
       \/ /\ signals[Unavailable] = Nil
          /\ PersistSignal(Unavailable, eval[v])
          /\ End(v)
          /\ UNCHANGED <<vars, frozen, tombstone, ticks>>

KeepValid(v) ==
    /\ eval[v] # Nil /\ eval[v].checked
    /\ ~Unwatched(eval[v].src)
    /\ PutTick("valid", eval[v])
    /\ End(v)
    /\ UNCHANGED <<vars, frozen, tombstone, signals, cancels>>

(***************************************************************************)
(* A conflict is raised, or the process dies: the transaction rolls back.  *)
(***************************************************************************)
Abort(v) ==
    /\ eval[v] # Nil
    /\ End(v)
    /\ UNCHANGED <<vars, frozen, tombstone, ticks, signals, cancels>>

MonitorNext ==
    \/ Next /\ UNCHANGED mvars
    \/ \E s \in Evidence, p \in Placement, t \in TerminalMessage :
        \/ StopMonitor(s, p, t)
        \/ \E v \in Evaluator, mine \in BOOLEAN : Begin(v, s, p, t, mine)
    \/ \E v \in Evaluator :
        \/ RetainUnbound(v)
        \/ Invalidate(v)
        \/ CheckUnavailable(v)
        \/ RequireUnavailable(v)
        \/ KeepValid(v)
        \/ Abort(v)

MonitorSpec == MonitorInit /\ [][MonitorNext]_allvars

-----------------------------------------------------------------------------
(***************************************************************************)
(* A terminal monitor stays stopped (ORDER_LIFECYCLE.md: "Terminal         *)
(* revision dominates any delayed lower/equal placement revision"): once   *)
(* the terminal state is persisted no message of the entry passes the      *)
(* terminal check, so that its delayed placement or partial fill raises no *)
(* cancel for an entry that is already filled or gone.  The close of the   *)
(* position has a revision of its own above the tombstone and is published *)
(* as a placement: it does pass.                                           *)
(***************************************************************************)
EntryTypes == {"ENTRY_SUBMISSION_INTENT", "ENTRY_ACCEPTED", "PARTIAL_FILL"}

TerminalMonitorStaysStopped ==
    [][tombstone # Nil =>
        \A v \in Evaluator :
            eval[v] = Nil /\ eval'[v] # Nil
              => eval'[v].placement # Nil /\ TypeOf[eval'[v].placement] \notin EntryTypes]_allvars

(***************************************************************************)
(* A signal record and its message are the same fact: each cause has one   *)
(* message at most, and it carries the evidence of the record, also after  *)
(* other evidence joined the requirement.                                  *)
(***************************************************************************)
SignalAndMessageAgree ==
    cancels = {Message(c, signals[c]) : c \in {d \in Cause : signals[d] # Nil}}

(***************************************************************************)
(* What Set and Lifecycle tell each other: the cycle's row agrees with the *)
(* messages publish_from_order_event left in the outbox, and each cancel   *)
(* signal of the monitor with the record it was raised on.                 *)
(***************************************************************************)
SetIsTold == RowSummarisesOutbox /\ SignalAndMessageAgree

(***************************************************************************)
(* The types of the monitor's records; an evaluation that found the        *)
(* requirement raised does not pass the check for it.                      *)
(***************************************************************************)
MonitorTypeOK ==
    /\ frozen \in BOOLEAN
    /\ signals \in [Cause -> Contents \cup {Nil}]
    /\ eval \in [Evaluator -> Evaluations \cup {Nil}]

JoinedIsNotChecked ==
    \A v \in Evaluator : eval[v] # Nil /\ eval[v].joined
        => signals[Unavailable] # Nil /\ ~eval[v].checked

MonitorInv == SyncInv /\ MonitorTypeOK /\ SignalAndMessageAgree /\ JoinedIsNotChecked

(***************************************************************************)
(* Recovery does not withdraw the fail-closed requirement: an evaluation   *)
(* that begins after it was raised never records the entry as valid, even  *)
(* when all its evidence is back.                                          *)
(***************************************************************************)
RequirementSurvivesRecovery ==
    [][\A v \in Evaluator :
        eval[v] # Nil /\ eval[v].joined /\ eval'[v] = Nil
          => {t \in ticks' : t.kind = "valid"} = {t \in ticks : t.kind = "valid"}]_allvars
=============================================================================
