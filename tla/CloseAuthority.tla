--------------------------- MODULE CloseAuthority ---------------------------
(***************************************************************************)
(* Who may close a tranche: the close intents, their causes and their      *)
(* reduction children (lifecycle_close_authority and                       *)
(* lifecycle_close_authority_store, protocol P5).                          *)
(*                                                                         *)
(* The intent id is a digest of the tranche id, so that a tranche has one  *)
(* intent row at most.  Every operation selects the row FOR UPDATE and     *)
(* holds it to its commit: when the row exists, the operation is one step. *)
(* acquire_or_join on a tranche without a row can lock nothing; its two    *)
(* selects are one step and its INSERT ... ON CONFLICT DO NOTHING another. *)
(* The store has no operation that advances a child, and no caller of it   *)
(* is in the repository: the exchange's effect on a child is external, and *)
(* any caller may call anything at any time.                               *)
(***************************************************************************)
EXTENDS Naturals, FiniteSets

CONSTANTS
    Tranche,     \* tranche ids
    CauseEvent,  \* TP, SL and manual close events
    Caller,      \* connections that acquire or join
    Worker,      \* close workers, which authorize reduction children
    ChildSeq,    \* child_sequence values the workers use
    MaxRevision, \* bound: intent revisions explored
    Nil

VARIABLES
    intent,   \* intent[t]: the tranche's row of lifecycle_close_intents
    causes,   \* causes[t]: lifecycle_close_intent_causes of the intent
    child,    \* child[t][n]: state of the intent's child n, or Nil
    basis,    \* basis[t][n]: the causes its worker had seen (history)
    call,     \* call[c]: an acquire_or_join that found no row, or Nil
    told,     \* causes whose caller was told that the intent carries them
    seen      \* seen[w]: the intent that worker w has read, or Nil

vars == <<intent, causes, child, basis, call, told, seen>>

(***************************************************************************)
(* The states the store writes.  Nothing in the code enters the other      *)
(* ACTIVE_CLOSE_INTENT_STATES.                                             *)
(***************************************************************************)
ActiveStates == {"ACQUIRED", "REDUCTION_AUTHORIZED"}
OpenChildStates == {"AUTHORIZED", "SUBMITTED", "REDUCTION_UNCERTAIN", "AWAITING_EXECUTIONS"}
ClosedChildStates == {"TERMINAL", "DISABLED", "RESOLVED"}

Intents == [revision : Nat, state : ActiveStates \cup {"RESOLVED"},
            causeIds : SUBSET CauseEvent]

\* What a worker keeps of the intent it has read.
Readings == [tranche : Tranche, revision : Nat, causeIds : SUBSET CauseEvent]

\* What the values of the constants must satisfy.
CloseConstants ==
    /\ ChildSeq \subseteq Nat \ {0}
    /\ MaxRevision \in Nat
    /\ Nil \notin Intents \cup Readings \cup (Tranche \X CauseEvent)
    /\ Nil \notin OpenChildStates \cup ClosedChildStates

TypeOK ==
    /\ intent \in [Tranche -> Intents \cup {Nil}]
    /\ causes \in [Tranche -> SUBSET CauseEvent]
    /\ child \in [Tranche -> [ChildSeq -> OpenChildStates \cup ClosedChildStates \cup {Nil}]]
    /\ basis \in [Tranche -> [ChildSeq -> SUBSET CauseEvent]]
    /\ call \in [Caller -> (Tranche \X CauseEvent) \cup {Nil}]
    /\ told \subseteq Tranche \X CauseEvent
    /\ seen \in [Worker -> Readings \cup {Nil}]

Init ==
    /\ intent = [t \in Tranche |-> Nil]
    /\ causes = [t \in Tranche |-> {}]
    /\ child = [t \in Tranche |-> [n \in ChildSeq |-> Nil]]
    /\ basis = [t \in Tranche |-> [n \in ChildSeq |-> {}]]
    /\ call = [c \in Caller |-> Nil]
    /\ told = {}
    /\ seen = [w \in Worker |-> Nil]

Active(t) == intent[t] # Nil /\ intent[t].state \in ActiveStates

-----------------------------------------------------------------------------
(***************************************************************************)
(* _append_cause_and_reload and _insert_cause: a cause that is already in  *)
(* the causes table changes nothing; a new one bumps the revision.         *)
(***************************************************************************)
\* Mutant: a joining cause leaves the revision as it is.
AppendCauseKeepingRevision(t, e) ==
    /\ causes' = [causes EXCEPT ![t] = @ \cup {e}]
    /\ intent' = [intent EXCEPT ![t].causeIds = @ \cup {e}]

AppendCause(t, e) ==
    /\ causes' = [causes EXCEPT ![t] = @ \cup {e}]
    /\ intent' = IF e \in causes[t] THEN intent
                 ELSE [intent EXCEPT ![t].revision = @ + 1,
                                     ![t].causeIds = @ \cup {e}]

(***************************************************************************)
(* acquire_or_join on a tranche whose intent is active: the caller joins.  *)
(* On a resolved intent it is handed the tombstone, and nothing changes.   *)
(***************************************************************************)
Join(t, e) ==
    /\ Active(t)
    /\ intent[t].revision < MaxRevision
    /\ AppendCause(t, e)
    /\ told' = told \cup {<<t, e>>}
    /\ UNCHANGED <<child, basis, seen>>

LookForIntent(c, t, e) ==
    /\ call[c] = Nil
    /\ \/ Join(t, e) /\ UNCHANGED call
       \/ /\ intent[t] = Nil
          /\ call' = [call EXCEPT ![c] = <<t, e>>]
          /\ UNCHANGED <<intent, causes, child, basis, told, seen>>

(***************************************************************************)
(* The INSERT of acquire_or_join.  When another caller's row is there by   *)
(* now it inserts nothing and the selects are repeated.                    *)
(***************************************************************************)
NewIntent(e) == [revision |-> 0, state |-> "ACQUIRED", causeIds |-> {e}]

Acquire(t, e) ==
    /\ intent' = [intent EXCEPT ![t] = NewIntent(e)]
    /\ causes' = [causes EXCEPT ![t] = @ \cup {e}]
    /\ told' = told \cup {<<t, e>>}
    /\ UNCHANGED <<child, basis, seen>>

\* Mutant: the insert overwrites on conflict.
InsertIntentOverwriting(c) ==
    /\ call[c] # Nil
    /\ LET t == call[c][1] e == call[c][2]
       IN  \/ ~Active(t) /\ Acquire(t, e)
           \/ Join(t, e)
    /\ call' = [call EXCEPT ![c] = Nil]

\* Mutant: the loser of the insert race does not join.
InsertIntentWithoutJoining(c) ==
    /\ call[c] # Nil
    /\ LET t == call[c][1] e == call[c][2]
       IN  \/ intent[t] = Nil /\ Acquire(t, e)
           \/ /\ intent[t] # Nil
              /\ told' = told \cup {<<t, e>>}
              /\ UNCHANGED <<intent, causes, child, basis, seen>>
    /\ call' = [call EXCEPT ![c] = Nil]

InsertIntent(c) ==
    /\ call[c] # Nil
    /\ LET t == call[c][1] e == call[c][2]
       IN  \/ intent[t] = Nil /\ Acquire(t, e)
           \/ Join(t, e)
           \/ /\ intent[t] # Nil /\ intent[t].state = "RESOLVED"
              /\ UNCHANGED <<intent, causes, child, basis, told, seen>>
    /\ call' = [call EXCEPT ![c] = Nil]

(***************************************************************************)
(* The caller's transaction rolls back before its INSERT commits.          *)
(***************************************************************************)
AbandonCall(c) ==
    /\ call[c] # Nil
    /\ call' = [call EXCEPT ![c] = Nil]
    /\ UNCHANGED <<intent, causes, child, basis, told, seen>>

(***************************************************************************)
(* get_active_for_tranche, in a transaction of its own                     *)
(***************************************************************************)
ReadIntent(w, t) ==
    /\ Active(t)
    /\ seen' = [seen EXCEPT ![w] =
                  [tranche |-> t, revision |-> intent[t].revision,
                   causeIds |-> intent[t].causeIds]]
    /\ UNCHANGED <<intent, causes, child, basis, call, told>>

(***************************************************************************)
(* _has_open_child                                                         *)
(***************************************************************************)
\* Mutant: a child counts as open until it is sent.
HasOpenChildNotYetSent(t) == \E n \in ChildSeq : child[t][n] = "AUTHORIZED"
HasOpenChild(t) == \E n \in ChildSeq : child[t][n] \in OpenChildStates

(***************************************************************************)
(* authorize_reduction_child with the revision the worker read.            *)
(***************************************************************************)
NewChild == "AUTHORIZED"

AuthorizeChild(w, n) ==
    /\ seen[w] # Nil
    /\ LET t == seen[w].tranche
       IN  /\ Active(t)
           /\ intent[t].revision = seen[w].revision
           /\ intent[t].revision < MaxRevision
           /\ ~HasOpenChild(t)
           /\ child[t][n] = Nil
           /\ child' = [child EXCEPT ![t][n] = NewChild]
           /\ basis' = [basis EXCEPT ![t][n] = seen[w].causeIds]
           /\ intent' = [intent EXCEPT ![t].revision = @ + 1,
                                       ![t].state = "REDUCTION_AUTHORIZED"]
    /\ seen' = [seen EXCEPT ![w] = Nil]
    /\ UNCHANGED <<causes, call, told>>

(***************************************************************************)
(* The worker is refused (LifecycleCloseAuthorityConflict), or stops.      *)
(***************************************************************************)
ForgetIntent(w) ==
    /\ seen[w] # Nil
    /\ seen' = [seen EXCEPT ![w] = Nil]
    /\ UNCHANGED <<intent, causes, child, basis, call, told>>

(***************************************************************************)
(* resolve_intent: whatever state the intent and its children are in; a    *)
(* resolved intent is resolved again.                                      *)
(***************************************************************************)
ResolveIntent(t) ==
    /\ intent[t] # Nil
    /\ intent[t].revision < MaxRevision
    /\ intent' = [intent EXCEPT ![t].revision = @ + 1, ![t].state = "RESOLVED"]
    /\ UNCHANGED <<causes, child, basis, call, told, seen>>

(***************************************************************************)
(* The exchange moves an open child on.                                    *)
(***************************************************************************)
ChildAdvances(t, n, s) ==
    /\ child[t][n] \in OpenChildStates
    /\ s \in OpenChildStates \cup ClosedChildStates
    /\ s \notin {child[t][n], "AUTHORIZED"}
    /\ child' = [child EXCEPT ![t][n] = s]
    /\ UNCHANGED <<intent, causes, basis, call, told, seen>>

Next ==
    \/ \E c \in Caller :
        \/ \E t \in Tranche, e \in CauseEvent : LookForIntent(c, t, e)
        \/ InsertIntent(c)
        \/ AbandonCall(c)
    \/ \E w \in Worker :
        \/ \E t \in Tranche : ReadIntent(w, t)
        \/ \E n \in ChildSeq : AuthorizeChild(w, n)
        \/ ForgetIntent(w)
    \/ \E t \in Tranche :
        \/ ResolveIntent(t)
        \/ \E n \in ChildSeq, s \in OpenChildStates \cup ClosedChildStates :
             ChildAdvances(t, n, s)

Spec == Init /\ [][Next]_vars

-----------------------------------------------------------------------------
(***************************************************************************)
(* No cause is lost: a cause whose caller was told it acquired or joined   *)
(* the intent is in the causes table and in the intent row, and the two    *)
(* always agree, however the callers raced for the first insert.           *)
(***************************************************************************)
CausesRetained ==
    \A t \in Tranche :
        /\ \A e \in CauseEvent : <<t, e>> \in told => e \in causes[t]
        /\ IF intent[t] = Nil THEN causes[t] = {} ELSE causes[t] = intent[t].causeIds

(***************************************************************************)
(* At most one child of a tranche can still execute, whatever the exchange *)
(* did with the earlier ones.                                              *)
(***************************************************************************)
OneOpenChild ==
    \A t \in Tranche : \A m, n \in ChildSeq :
        child[t][m] \in OpenChildStates /\ child[t][n] \in OpenChildStates => m = n

(***************************************************************************)
(* acquire_or_join loses no cause, however callers race for the first      *)
(* insert, and authorize_reduction_child leaves at most one child that can *)
(* still execute.                                                          *)
(***************************************************************************)
CloseHolds == CausesRetained /\ OneOpenChild

(***************************************************************************)
(* What the revision is for: a worker that still holds the intent's        *)
(* revision holds its causes too, since every change of the intent bumps   *)
(* the revision and none takes it back.                                    *)
(***************************************************************************)
ReadingIsCurrent ==
    \A w \in Worker : seen[w] # Nil =>
        LET i == intent[seen[w].tranche]
        IN  /\ i # Nil
            /\ seen[w].revision <= i.revision
            /\ seen[w].revision = i.revision => seen[w].causeIds = i.causeIds

CloseInv == TypeOK /\ CausesRetained /\ OneOpenChild /\ ReadingIsCurrent

(***************************************************************************)
(* A stale worker authorizes nothing: a child is authorized by a worker    *)
(* that has seen every cause the intent carries at that moment, and on an  *)
(* intent that is not resolved.                                            *)
(***************************************************************************)
AuthorizedOnCurrentIntent ==
    [][\A t \in Tranche, n \in ChildSeq :
        child[t][n] = Nil /\ child'[t][n] # Nil
          => Active(t) /\ basis'[t][n] = causes[t]]_vars

(***************************************************************************)
(* A resolved tranche is closed for good: its intent stays resolved, its   *)
(* causes stay as they were and no child is added; the revision of an      *)
(* intent never falls.                                                     *)
(***************************************************************************)
ResolvedIsFinal ==
    [][\A t \in Tranche : intent[t] # Nil =>
        /\ intent'[t].revision >= intent[t].revision
        /\ intent[t].state = "RESOLVED" =>
             /\ intent'[t].state = "RESOLVED"
             /\ causes'[t] = causes[t]
             /\ \A n \in ChildSeq : child[t][n] = Nil => child'[t][n] = Nil]_vars
=============================================================================
