-------------------------- MODULE TransportFrontier --------------------------
(***************************************************************************)
(* The transport frontier of persistence/durable_messages.py: producers    *)
(* append outbox messages under a per-scope sequence number whose head row *)
(* they lock, and consumers apply committed prefixes of that sequence.     *)
(*                                                                         *)
(* append_frontier_outbox runs inside the producer's longer transaction,   *)
(* so locking the head, writing the row and committing are separate steps  *)
(* and the transaction may roll back after the row was written.  A scope   *)
(* is a Set formation epoch or a decision cycle, and a message belongs to  *)
(* one scope.                                                              *)
(***************************************************************************)
EXTENDS Naturals, FiniteSets, TLAPS

CONSTANTS
    Producer,   \* concurrent producing transactions
    Reader,     \* concurrent transactions of the consuming owner
    Scope,      \* scope keys
    Message,    \* message identities
    ScopeOf,    \* ScopeOf[m]: the scope m is appended under
    DedupeKey,  \* DedupeKey[m]: two identities of one message share it
    None        \* no process, no message

ASSUME FrontierAssumption ==
    /\ ScopeOf \in [Message -> Scope]
    /\ \A m, k \in Message : DedupeKey[m] = DedupeKey[k] => ScopeOf[m] = ScopeOf[k]
    /\ None \notin Producer \cup Message

VARIABLES
    head,       \* head[s]: committed_head of the scope
    seqOf,      \* seqOf[m]: sequence of m's committed frontier row, 0 if none
    applied,    \* applied[s]: applied_sequence of the consumer
    holder,     \* holder[s]: transaction holding the head row FOR UPDATE
    msg,        \* msg[p]: message of p's open transaction
    read,       \* read[p]: committed_head p read under the lock
    row,        \* row[p]: sequence of p's uncommitted row, 0 if none
    pc,         \* "idle", "locked" or "written"
    seen        \* seen[r][s]: head the reader r saw before applying

vars == <<head, seqOf, applied, holder, msg, read, row, pc, seen>>

InScope(s) == {m \in Message : ScopeOf[m] = s}

Init ==
    /\ head    = [s \in Scope |-> 0]
    /\ seqOf   = [m \in Message |-> 0]
    /\ applied = [s \in Scope |-> 0]
    /\ holder  = [s \in Scope |-> None]
    /\ msg     = [p \in Producer |-> None]
    /\ read    = [p \in Producer |-> 0]
    /\ row     = [p \in Producer |-> 0]
    /\ pc      = [p \in Producer |-> "idle"]
    /\ seen    = [r \in Reader |-> [s \in Scope |-> 0]]

\* Mutant: the head is read without FOR UPDATE.
LockFrontierHeadUnlocked(p, m) ==
    /\ pc[p] = "idle"
    /\ msg'  = [msg EXCEPT ![p] = m]
    /\ read' = [read EXCEPT ![p] = head[ScopeOf[m]]]
    /\ pc'   = [pc EXCEPT ![p] = "locked"]
    /\ UNCHANGED <<head, seqOf, applied, row, seen, holder>>

\* lock_frontier_head: SELECT ... FOR UPDATE waits until no other transaction
\* holds the head row and then returns its latest committed value.
LockFrontierHead(p, m) ==
    /\ pc[p] = "idle"
    /\ holder[ScopeOf[m]] = None
    /\ holder' = [holder EXCEPT ![ScopeOf[m]] = p]
    /\ msg'    = [msg EXCEPT ![p] = m]
    /\ read'   = [read EXCEPT ![p] = head[ScopeOf[m]]]
    /\ pc'     = [pc EXCEPT ![p] = "locked"]
    /\ UNCHANGED <<head, seqOf, applied, row, seen>>

\* Mutant: a retry is looked up by message id, not by dedupe key.
AlreadyAppendedById(m) == seqOf[m] # 0

\* append_outbox returns the row that already carries the dedupe key, and
\* get_frontier_message looks the frontier row up under that row's identity.
AlreadyAppended(m) == \E k \in Message : DedupeKey[k] = DedupeKey[m] /\ seqOf[k] # 0

\* The rest of append_frontier_outbox, inside the transaction.
WriteRow(p) ==
    /\ pc[p] = "locked"
    /\ row' = [row EXCEPT ![p] = IF AlreadyAppended(msg[p]) THEN 0 ELSE read[p] + 1]
    /\ pc'  = [pc EXCEPT ![p] = "written"]
    /\ UNCHANGED <<head, seqOf, applied, holder, msg, read, seen>>

EndTx(p) ==
    /\ holder' = [s \in Scope |-> IF holder[s] = p THEN None ELSE holder[s]]
    /\ msg'    = [msg EXCEPT ![p] = None]
    /\ read'   = [read EXCEPT ![p] = 0]
    /\ row'    = [row EXCEPT ![p] = 0]
    /\ pc'     = [pc EXCEPT ![p] = "idle"]
    /\ UNCHANGED <<applied, seen>>

\* COMMIT publishes the outbox row, the frontier row and the new head.
Commit(p) ==
    /\ pc[p] = "written"
    /\ IF row[p] = 0
       THEN UNCHANGED <<head, seqOf>>
       ELSE /\ seqOf' = [seqOf EXCEPT ![msg[p]] = row[p]]
            /\ head'  = [head EXCEPT ![ScopeOf[msg[p]]] = row[p]]
    /\ EndTx(p)

\* A later step of the producer's transaction raises, or the process dies.
Rollback(p) ==
    /\ pc[p] # "idle"
    /\ EndTx(p)
    /\ UNCHANGED <<head, seqOf>>

\* get_frontier_head: an unlocked read the consumer's decision is based on.
GetFrontierHead(r, s) ==
    /\ seen' = [seen EXCEPT ![r][s] = head[s]]
    /\ UNCHANGED <<head, seqOf, applied, holder, msg, read, row, pc>>

\* Mutant: the listing leaves out the last sequence.
ListedSequencesExclusive(s, after, through) ==
    {seqOf[m] : m \in {k \in InScope(s) : seqOf[k] > after /\ seqOf[k] < through}}

\* Sequences found by list_frontier_messages in (after, through].
ListedSequences(s, after, through) ==
    {seqOf[m] : m \in {k \in InScope(s) : seqOf[k] > after /\ seqOf[k] <= through}}

\* Mutant: a reader applies to the head it saw, though another went further.
ApplyFrontierPrefixBackwards(r, s) ==
    /\ holder[s] = None
    /\ seen[r][s] <= head[s]
    /\ applied' = [applied EXCEPT ![s] = seen[r][s]]
    /\ UNCHANGED <<head, seqOf, holder, msg, read, row, pc, seen>>

\* apply_frontier_prefix through the head seen earlier.  A sequence beyond the
\* head or a missing one raises; an already applied one changes nothing.
ApplyFrontierPrefix(r, s) ==
    /\ holder[s] = None
    /\ seen[r][s] <= head[s]
    /\ seen[r][s] > applied[s]
    /\ ListedSequences(s, applied[s], seen[r][s]) = (applied[s] + 1)..seen[r][s]
    /\ applied' = [applied EXCEPT ![s] = seen[r][s]]
    /\ UNCHANGED <<head, seqOf, holder, msg, read, row, pc, seen>>

Next ==
    \/ \E p \in Producer : \/ \E m \in Message : LockFrontierHead(p, m)
                           \/ WriteRow(p) \/ Commit(p) \/ Rollback(p)
    \/ \E r \in Reader, s \in Scope : GetFrontierHead(r, s) \/ ApplyFrontierPrefix(r, s)

Spec == Init /\ [][Next]_vars

\* Producers and readers keep running; rollbacks are not forced to stop.
FairSpec ==
    /\ Spec
    /\ \A p \in Producer : WF_vars(WriteRow(p)) /\ WF_vars(Commit(p))
    /\ \A r \in Reader, s \in Scope : WF_vars(GetFrontierHead(r, s) /\ seen' # seen)
                                      /\ SF_vars(ApplyFrontierPrefix(r, s))

-----------------------------------------------------------------------------
TypeOK ==
    /\ head    \in [Scope -> Nat]
    /\ seqOf   \in [Message -> Nat]
    /\ applied \in [Scope -> Nat]
    /\ holder  \in [Scope -> Producer \cup {None}]
    /\ msg     \in [Producer -> Message \cup {None}]
    /\ read    \in [Producer -> Nat]
    /\ row     \in [Producer -> Nat]
    /\ pc      \in [Producer -> {"idle", "locked", "written"}]
    /\ seen    \in [Reader -> [Scope -> Nat]]

\* The committed rows of a scope are numbered 1..head without a gap: a
\* transaction that rolls back after writing its row leaves no hole.
NoGap == \A s \in Scope : \A i \in 1..head[s] : \E m \in InScope(s) : seqOf[m] = i

\* No two messages share a number and no number lies beyond the head.
NoDuplicate ==
    /\ \A m \in Message : seqOf[m] <= head[ScopeOf[m]]
    /\ \A m, k \in Message : ScopeOf[m] = ScopeOf[k] /\ seqOf[m] = seqOf[k] /\ seqOf[m] # 0 => m = k

\* The sequences of a scope are exactly those of its committed messages, however
\* producers interleave, retry and roll back.
SequencesExact == NoGap /\ NoDuplicate

\* A message has one row even when producers retry it under another identity.
OneRowPerDedupeKey ==
    \A m, k \in Message : DedupeKey[m] = DedupeKey[k] /\ seqOf[m] # 0 /\ seqOf[k] # 0 => m = k

\* A row never moves, a head never goes back, and an applied prefix neither
\* shrinks nor runs ahead of the head, whichever reader's stale view applies.
AppendOnly ==
    [][/\ \A m \in Message : seqOf[m] # 0 => seqOf'[m] = seqOf[m]
       /\ \A s \in Scope : head[s] <= head'[s] /\ applied[s] <= applied'[s]
                           /\ applied'[s] <= head'[s]]_vars

\* Readers that keep polling apply every committed message.
EventuallyApplied ==
    \A m \in Message : seqOf[m] # 0 ~> applied[ScopeOf[m]] >= seqOf[m]

-----------------------------------------------------------------------------
(***************************************************************************)
(* The instance TLC checks: two scopes, two messages of the first one, a   *)
(* second identity of m1, and a message of the second scope.               *)
(***************************************************************************)
MCScopeOf == [m \in Message |-> IF m = "m3" THEN "s2" ELSE "s1"]
MCDedupeKey == [m \in Message |-> IF m = "m1retry" THEN "m1" ELSE m]

-----------------------------------------------------------------------------
(* The inductive invariant *)

\* Whoever is inside append_frontier_outbox holds the head of its scope and
\* still sees the head it read.
LockedRead ==
    \A p \in Producer : pc[p] # "idle" =>
        /\ msg[p] \in Message
        /\ holder[ScopeOf[msg[p]]] = p
        /\ read[p] = head[ScopeOf[msg[p]]]
        /\ row[p] \in {0, read[p] + 1}
        /\ row[p] # 0 => ~AlreadyAppended(msg[p])

RowOnlyWhenWritten == \A p \in Producer : pc[p] # "written" => row[p] = 0

AppliedBehindHead == /\ \A s \in Scope : applied[s] <= head[s]
                     /\ \A r \in Reader, s \in Scope : seen[r][s] <= head[s]

FrontierInv == LockedRead /\ RowOnlyWhenWritten /\ NoGap /\ NoDuplicate /\ OneRowPerDedupeKey /\ AppliedBehindHead

-----------------------------------------------------------------------------
(* The frontier invariants for any number of scopes, messages, producing   *)
(* transactions and readers.                                               *)

\* Every step keeps heads, rows and locks in their types.
LEMMA FrontierTypeStep == TypeOK /\ [Next]_vars => TypeOK'
<1> SUFFICES ASSUME TypeOK, [Next]_vars PROVE TypeOK'
  OBVIOUS
<1> USE FrontierAssumption DEF FrontierAssumption, TypeOK
<1>1. ASSUME NEW p \in Producer, NEW m \in Message, LockFrontierHead(p, m) PROVE TypeOK'
  BY <1>1 DEF LockFrontierHead
<1>2. ASSUME NEW p \in Producer, WriteRow(p) PROVE TypeOK'
  BY <1>2 DEF WriteRow
<1>3. ASSUME NEW p \in Producer, EndTx(p), head' \in [Scope -> Nat], seqOf' \in [Message -> Nat]
      PROVE TypeOK'
  BY <1>3 DEF EndTx
<1>4. ASSUME NEW p \in Producer, Commit(p) PROVE TypeOK'
  BY <1>3, <1>4 DEF Commit
<1>5. ASSUME NEW p \in Producer, Rollback(p) PROVE TypeOK'
  BY <1>3, <1>5 DEF Rollback
<1>6. ASSUME NEW r \in Reader, NEW s \in Scope, GetFrontierHead(r, s) PROVE TypeOK'
  BY <1>6 DEF GetFrontierHead
<1>7. ASSUME NEW r \in Reader, NEW s \in Scope, ApplyFrontierPrefix(r, s) PROVE TypeOK'
  BY <1>7 DEF ApplyFrontierPrefix
<1>8. CASE UNCHANGED vars
  BY <1>8 DEF vars
<1> QED
  BY <1>1, <1>2, <1>4, <1>5, <1>6, <1>7, <1>8 DEF Next

\* The head lock makes read-then-write atomic: the invariant survives every
\* interleaving of appends, commits, rollbacks and prefix applications.
LEMMA FrontierStep == TypeOK /\ FrontierInv /\ [Next]_vars => FrontierInv'
<1> SUFFICES ASSUME TypeOK, FrontierInv, [Next]_vars PROVE FrontierInv'
  OBVIOUS
<1> USE FrontierAssumption DEF FrontierAssumption, TypeOK, FrontierInv, LockedRead, RowOnlyWhenWritten,
        NoGap, NoDuplicate, OneRowPerDedupeKey, AppliedBehindHead, AlreadyAppended, InScope
<1>1. ASSUME NEW p \in Producer, NEW m \in Message, LockFrontierHead(p, m) PROVE FrontierInv'
  <2>1. /\ pc[p] = "idle" /\ holder[ScopeOf[m]] = None
        /\ holder' = [holder EXCEPT ![ScopeOf[m]] = p]
        /\ msg'    = [msg EXCEPT ![p] = m]
        /\ read'   = [read EXCEPT ![p] = head[ScopeOf[m]]]
        /\ pc'     = [pc EXCEPT ![p] = "locked"]
        /\ UNCHANGED <<head, seqOf, applied, row, seen>>
    BY <1>1 DEF LockFrontierHead
  <2>2. RowOnlyWhenWritten' /\ NoGap' /\ NoDuplicate' /\ OneRowPerDedupeKey' /\ AppliedBehindHead'
    BY <2>1
  <2>3. LockedRead'
    <3> SUFFICES ASSUME NEW q \in Producer, pc'[q] # "idle"
                 PROVE  /\ msg'[q] \in Message
                        /\ holder'[ScopeOf[msg'[q]]] = q
                        /\ read'[q] = head[ScopeOf[msg'[q]]]
                        /\ row[q] \in {0, read'[q] + 1}
                        /\ row[q] # 0 => ~(\E k \in Message : DedupeKey[k] = DedupeKey[msg'[q]]
                                                              /\ seqOf[k] # 0)
      BY <2>1
    <3>1. CASE q = p
      BY <2>1, <3>1
    <3>2. CASE q # p
      <4>1. pc'[q] = pc[q] /\ msg'[q] = msg[q] /\ read'[q] = read[q]
        BY <2>1, <3>2
      <4>2. ScopeOf[msg[q]] # ScopeOf[m]
        BY <2>1, <4>1
      <4> QED
        BY <2>1, <4>1, <4>2
    <3> QED
      BY <3>1, <3>2
  <2> QED
    BY <2>2, <2>3
<1>2. ASSUME NEW p \in Producer, WriteRow(p) PROVE FrontierInv'
  BY <1>2 DEF WriteRow
<1>3. ASSUME NEW p \in Producer, EndTx(p), UNCHANGED <<head, seqOf>>, pc[p] # "idle" PROVE FrontierInv'
  BY <1>3 DEF EndTx
<1>4. ASSUME NEW p \in Producer, Commit(p) PROVE FrontierInv'
  <2>1. CASE row[p] = 0
    BY <1>3, <1>4, <2>1 DEF Commit
  <2>2. CASE row[p] # 0
    <3> DEFINE m == msg[p]
               s == ScopeOf[msg[p]]
    <3>1. m \in Message /\ s \in Scope /\ holder[s] = p /\ row[p] = head[s] + 1
          /\ \A k \in Message : DedupeKey[k] = DedupeKey[m] => seqOf[k] = 0
      BY <1>4, <2>2 DEF Commit
    <3>2. /\ seqOf' = [seqOf EXCEPT ![m] = head[s] + 1]
          /\ head'  = [head EXCEPT ![s] = head[s] + 1]
          /\ EndTx(p)
      BY <1>4, <2>2, <3>1 DEF Commit
    <3>3. NoDuplicate'
      BY <3>1, <3>2 DEF EndTx
    <3>4. NoGap'
      <4> SUFFICES ASSUME NEW t \in Scope, NEW i \in 1..head'[t]
                   PROVE  \E k \in Message : ScopeOf[k] = t /\ seqOf'[k] = i
        OBVIOUS
      <4>1. CASE t = s /\ i = head[s] + 1
        BY <3>1, <3>2, <4>1
      <4>2. CASE i \in 1..head[t]
        <5>1. PICK k \in Message : ScopeOf[k] = t /\ seqOf[k] = i
          BY <4>2
        <5>2. k # m
          BY <3>1, <4>2, <5>1
        <5> QED
          BY <3>1, <3>2, <5>1, <5>2
      <4> QED
        BY <3>1, <3>2, <4>1, <4>2
    <3>5. OneRowPerDedupeKey'
      BY <3>1, <3>2
    <3>6. AppliedBehindHead'
      BY <3>1, <3>2 DEF EndTx
    <3>7. LockedRead'
      <4> SUFFICES ASSUME NEW q \in Producer, pc'[q] # "idle"
                   PROVE  /\ msg'[q] \in Message
                          /\ holder'[ScopeOf[msg'[q]]] = q
                          /\ read'[q] = head'[ScopeOf[msg'[q]]]
                          /\ row'[q] \in {0, read'[q] + 1}
                          /\ row'[q] # 0 => ~(\E k \in Message : DedupeKey[k] = DedupeKey[msg'[q]]
                                                                 /\ seqOf'[k] # 0)
        BY DEF LockedRead
      <4>1. q # p /\ pc[q] # "idle" /\ msg'[q] = msg[q] /\ row'[q] = row[q] /\ read'[q] = read[q]
            /\ pc'[q] = pc[q]
        BY <3>2 DEF EndTx
      <4>2. ScopeOf[msg[q]] # s /\ msg[q] \in Message
        BY <3>1, <4>1
      <4>3. holder'[ScopeOf[msg[q]]] = q /\ head'[ScopeOf[msg[q]]] = head[ScopeOf[msg[q]]]
        BY <3>1, <3>2, <4>1, <4>2 DEF EndTx
      <4>4. \A k \in Message : DedupeKey[k] = DedupeKey[msg[q]] => seqOf'[k] = seqOf[k]
        BY <3>1, <3>2, <4>2
      <4> QED
        BY <4>1, <4>2, <4>3, <4>4
    <3>8. RowOnlyWhenWritten'
      BY <3>2 DEF EndTx
    <3> QED
      BY <3>3, <3>4, <3>5, <3>6, <3>7, <3>8
  <2> QED
    BY <2>1, <2>2
<1>5. ASSUME NEW p \in Producer, Rollback(p) PROVE FrontierInv'
  BY <1>3, <1>5 DEF Rollback
<1>6. ASSUME NEW r \in Reader, NEW s \in Scope, GetFrontierHead(r, s) PROVE FrontierInv'
  BY <1>6 DEF GetFrontierHead
<1>7. ASSUME NEW r \in Reader, NEW s \in Scope, ApplyFrontierPrefix(r, s) PROVE FrontierInv'
  BY <1>7 DEF ApplyFrontierPrefix
<1>8. CASE UNCHANGED vars
  BY <1>8 DEF vars
<1> QED
  BY <1>1, <1>2, <1>4, <1>5, <1>6, <1>7, <1>8 DEF Next

\* Types and the lock discipline of append_frontier_outbox.
THEOREM FrontierInvariant == Spec => [](TypeOK /\ FrontierInv)
<1>1. Init => TypeOK /\ FrontierInv
  BY FrontierAssumption DEF FrontierAssumption, Init, TypeOK, FrontierInv, LockedRead, RowOnlyWhenWritten,
     NoGap, NoDuplicate, OneRowPerDedupeKey, AppliedBehindHead, InScope
<1> QED
  BY <1>1, FrontierTypeStep, FrontierStep, PTL DEF Spec

\* Rolled-back producers leave no hole in the committed sequence, and concurrent
\* ones never commit the same number.
THEOREM FrontierIsExact == Spec => []SequencesExact
<1>1. FrontierInv => SequencesExact
  BY DEF FrontierInv, SequencesExact
<1> QED
  BY <1>1, FrontierInvariant, PTL

\* A retried message keeps its first row.
THEOREM FrontierDedupes == Spec => []OneRowPerDedupeKey
<1>1. FrontierInv => OneRowPerDedupeKey
  BY DEF FrontierInv
<1> QED
  BY <1>1, FrontierInvariant, PTL

\* Committed rows, heads and applied prefixes only grow, and applied prefixes
\* stay behind the head.
THEOREM FrontierAppendOnly == Spec => AppendOnly
<1>1. ASSUME TypeOK, FrontierInv, FrontierInv', TypeOK', [Next]_vars
      PROVE  [/\ \A m \in Message : seqOf[m] # 0 => seqOf'[m] = seqOf[m]
              /\ \A s \in Scope : head[s] <= head'[s] /\ applied[s] <= applied'[s]
                                  /\ applied'[s] <= head'[s]]_vars
  <2> DEFINE Goal == /\ \A m \in Message : seqOf[m] # 0 => seqOf'[m] = seqOf[m]
                     /\ \A s \in Scope : head[s] <= head'[s] /\ applied[s] <= applied'[s]
                                         /\ applied'[s] <= head'[s]
  <2> USE <1>1, FrontierAssumption DEF FrontierAssumption, TypeOK, FrontierInv, AppliedBehindHead
  <2>1. CASE UNCHANGED <<head, seqOf, applied>>
    BY <2>1
  <2>2. ASSUME NEW p \in Producer, Commit(p) PROVE Goal
    <3>1. CASE row[p] = 0
      BY <2>2, <3>1 DEF Commit, EndTx
    <3>2. CASE row[p] # 0
      <4>1. msg[p] \in Message /\ row[p] = head[ScopeOf[msg[p]]] + 1 /\ seqOf[msg[p]] = 0
        BY <2>2, <3>2 DEF Commit, LockedRead, AlreadyAppended
      <4> QED
        BY <2>2, <3>2, <4>1 DEF Commit, EndTx
    <3> QED
      BY <3>1, <3>2
  <2>3. ASSUME NEW r \in Reader, NEW s \in Scope, ApplyFrontierPrefix(r, s) PROVE Goal
    BY <2>3 DEF ApplyFrontierPrefix
  <2> QED
    BY <2>1, <2>2, <2>3 DEF Next, vars, LockFrontierHead, WriteRow, Rollback, EndTx, GetFrontierHead
<1> QED
  BY <1>1, FrontierInvariant, PTL DEF Spec, AppendOnly
=============================================================================
