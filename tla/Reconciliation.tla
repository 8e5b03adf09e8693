--------------------------- MODULE Reconciliation ---------------------------
(***************************************************************************)
(* The evidence ledger of one native observation and its tombstone         *)
(* (lifecycle_reconciliation and lifecycle_reconciliation_store, protocols *)
(* P9, P15 and S03): exposure the exchange reports and nobody can          *)
(* attribute stays blocked until a complete resolution is recorded.        *)
(*                                                                         *)
(* record_event looks for the evidence id without a lock, then selects the *)
(* tombstone FOR UPDATE and keeps it to the commit: two steps.  An         *)
(* integrity conflict is written to the tombstone and then raised as an    *)
(* exception; it is durable when the caller commits all the same, and lost *)
(* when the exception rolls the unit of work back.  Both are behaviours    *)
(* here: MarkConflict is a step that may be taken, and Abandon the other.  *)
(***************************************************************************)
EXTENDS Naturals, FiniteSets

CONSTANTS
    Evidence,    \* reconciliation payloads for the observation
    EvidenceId,  \* EvidenceId[e]: event_id
    RevisionId,  \* RevisionId[e]: observation id, or resolution id
    Revision,    \* Revision[e]: evidence_revision
    Scope,       \* Scope[e]: native scope and native_scope_revision
    Complete,    \* the payloads that are complete resolutions
    Recorder,    \* connections that record evidence
    Nil

VARIABLES
    records,    \* triggertrade_lifecycle_reconciliation_records
    accepted,   \* the records with accepted = true
    tomb,       \* the observation's tombstone row, or Nil
    job         \* job[p]: evidence p has looked up and not found, or Nil

vars == <<records, accepted, tomb, job>>

Tombs == [scope : {Scope[e] : e \in Evidence}, state : {"UNRESOLVED", "RESOLVED"},
          latest : Nat \cup {Nil}, proof : Complete \cup {Nil},
          block : BOOLEAN, integrity : {"CLEAR", "CONFLICT"}]

\* What the values of the constants must satisfy.
ReconciliationConstants ==
    /\ DOMAIN EvidenceId = Evidence
    /\ DOMAIN RevisionId = Evidence
    /\ Revision \in [Evidence -> Nat]
    /\ DOMAIN Scope = Evidence
    /\ Complete \subseteq Evidence
    /\ Nil \notin Evidence \cup Nat \cup Tombs

TypeOK ==
    /\ records \subseteq Evidence
    /\ accepted \subseteq records
    /\ tomb \in Tombs \cup {Nil}
    /\ job \in [Recorder -> Evidence \cup {Nil}]

Init ==
    /\ records = {}
    /\ accepted = {}
    /\ tomb = Nil
    /\ job = [p \in Recorder |-> Nil]

-----------------------------------------------------------------------------
(***************************************************************************)
(* _mark_integrity_conflict                                                *)
(***************************************************************************)
Conflicted(t) == [t EXCEPT !.integrity = "CONFLICT", !.block = TRUE]

(***************************************************************************)
(* record_event's lookup.  An identical replay changes nothing.            *)
(***************************************************************************)
Lookup(p, e) ==
    /\ job[p] = Nil
    /\ \A r \in records : EvidenceId[r] # EvidenceId[e]
    /\ job' = [job EXCEPT ![p] = e]
    /\ UNCHANGED <<records, accepted, tomb>>

ChangedIdentity(e) ==
    /\ \E r \in records : EvidenceId[r] = EvidenceId[e] /\ r # e
    /\ tomb' = Conflicted(tomb)
    /\ UNCHANGED <<records, accepted, job>>

(***************************************************************************)
(* _get_or_create_tombstone                                                *)
(***************************************************************************)
NewTomb(e) ==
    [scope |-> Scope[e], state |-> "UNRESOLVED", latest |-> Nil, proof |-> Nil,
     block |-> TRUE, integrity |-> "CLEAR"]

TombFor(e) == IF tomb = Nil THEN NewTomb(e) ELSE tomb

(***************************************************************************)
(* _classify_revision: what conflicts with the ledger, and what is stale.  *)
(***************************************************************************)
SameRevision(e) ==
    {r \in records : RevisionId[r] = RevisionId[e] /\ Revision[r] = Revision[e]}

\* Mutant: the content of a recorded revision is not compared.
ConflictsIgnoringHistory(e, t) ==
    \/ t.scope # Scope[e]
    \/ /\ t.latest # Nil
       /\ t.state = "RESOLVED"
       /\ Revision[e] > t.latest

Conflicts(e, t) ==
    \/ t.scope # Scope[e]
    \/ SameRevision(e) # {} /\ e \notin SameRevision(e)
    \/ /\ t.latest # Nil
       /\ t.state = "RESOLVED"
       /\ Revision[e] > t.latest

\* Mutant: evidence is never stale while the tombstone is resolved.
StaleUnlessResolved(e, t) == t.latest # Nil /\ t.state # "RESOLVED" /\ Revision[e] < t.latest

Stale(e, t) ==
    /\ t.latest # Nil
    /\ \/ t.state = "RESOLVED" /\ Revision[e] <= t.latest
       \/ t.state # "RESOLVED" /\ Revision[e] < t.latest

(***************************************************************************)
(* _advance_tombstone                                                      *)
(***************************************************************************)
\* Mutant: a partial resolution ends the block.
AdvancedUnblockingOnProgress(e, t) ==
    [t EXCEPT !.state = IF e \in Complete THEN "RESOLVED" ELSE @,
              !.latest = Revision[e],
              !.proof = IF e \in Complete THEN e ELSE @,
              !.block = FALSE]

Advanced(e, t) ==
    [t EXCEPT !.state = IF e \in Complete THEN "RESOLVED" ELSE @,
              !.latest = Revision[e],
              !.proof = IF e \in Complete THEN e ELSE @,
              !.block = IF e \in Complete THEN FALSE ELSE @]

(***************************************************************************)
(* The rest of record_event: the record is inserted in any case, and moves *)
(* the tombstone when it is not stale.  The primary key refuses an         *)
(* evidence id that was recorded since the lookup.                         *)
(***************************************************************************)
Record(p) ==
    /\ job[p] # Nil
    /\ LET e == job[p] t == TombFor(e)
       IN  /\ ~Conflicts(e, t)
           /\ \A r \in records : EvidenceId[r] # EvidenceId[e]
           /\ records' = records \cup {e}
           /\ accepted' = IF Stale(e, t) THEN accepted ELSE accepted \cup {e}
           /\ tomb' = IF Stale(e, t) THEN t ELSE Advanced(e, t)
    /\ job' = [job EXCEPT ![p] = Nil]

MarkConflict(p) ==
    /\ job[p] # Nil
    /\ Conflicts(job[p], TombFor(job[p]))
    /\ tomb' = Conflicted(tomb)
    /\ job' = [job EXCEPT ![p] = Nil]
    /\ UNCHANGED <<records, accepted>>

(***************************************************************************)
(* The transaction rolls back.                                             *)
(***************************************************************************)
Abandon(p) ==
    /\ job[p] # Nil
    /\ job' = [job EXCEPT ![p] = Nil]
    /\ UNCHANGED <<records, accepted, tomb>>

Next ==
    \/ \E e \in Evidence : ChangedIdentity(e)
    \/ \E p \in Recorder :
        \/ \E e \in Evidence : Lookup(p, e)
        \/ Record(p)
        \/ MarkConflict(p)
        \/ Abandon(p)

Spec == Init /\ [][Next]_vars

-----------------------------------------------------------------------------
(***************************************************************************)
(* Exposure is only unblocked by proof: while no complete resolution has   *)
(* been accepted the block is active, and the tombstone names the          *)
(* resolution that cleared it, in whatever order the evidence arrived.     *)
(***************************************************************************)
UnblockedByProof ==
    tomb # Nil =>
        /\ ~tomb.block => tomb.state = "RESOLVED"
        /\ tomb.state = "RESOLVED" => tomb.proof \in accepted /\ tomb.proof \in Complete
        /\ tomb.state = "UNRESOLVED" => accepted \cap Complete = {}

(***************************************************************************)
(* One content per revision: the ledger never holds two payloads for one   *)
(* revision of one resolution or observation, also when they are recorded  *)
(* at the same time (S03).                                                 *)
(***************************************************************************)
OneContentPerRevision ==
    \A r, s \in records :
        RevisionId[r] = RevisionId[s] /\ Revision[r] = Revision[s] => r = s

(***************************************************************************)
(* _advance_tombstone unblocks exposure by a complete resolution only, and *)
(* the reconciliation ledger holds one content per evidence revision.      *)
(***************************************************************************)
ReconciliationHolds == UnblockedByProof /\ OneContentPerRevision

(***************************************************************************)
(* No record without a tombstone, and no resolution without the revision   *)
(* it was accepted at.                                                     *)
(***************************************************************************)
TombstoneFirst ==
    /\ tomb = Nil => records = {}
    /\ tomb # Nil /\ tomb.state = "RESOLVED" => tomb.latest # Nil

ReconciliationInv == TypeOK /\ TombstoneFirst /\ UnblockedByProof /\ OneContentPerRevision

(***************************************************************************)
(* Old evidence does not undo a resolution: a resolved tombstone keeps its *)
(* state, proof and revision, an unresolved one its newest revision, and   *)
(* an integrity conflict is never withdrawn.                               *)
(***************************************************************************)
NoRegression ==
    [][tomb # Nil =>
        /\ tomb.state = "RESOLVED" =>
             /\ tomb'.state = "RESOLVED"
             /\ tomb'.proof = tomb.proof
             /\ tomb'.latest = tomb.latest
        /\ tomb.latest # Nil => tomb'.latest >= tomb.latest
        /\ tomb.integrity = "CONFLICT" => tomb'.integrity = "CONFLICT"]_vars
=============================================================================
