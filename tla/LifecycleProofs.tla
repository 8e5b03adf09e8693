-------------------------- MODULE LifecycleProofs --------------------------
(***************************************************************************)
(* Machine-checked proofs about the ledgers of Lifecycle, for any values   *)
(* of the constants: order submission, the close authority, the            *)
(* reconciliation evidence, the synchronisation with Set and the monitor   *)
(* of a pending entry.  For each, the inductive invariant and the          *)
(* properties that follow from it.                                         *)
(***************************************************************************)
EXTENDS MCLifecycle, Integers, TLAPS

-----------------------------------------------------------------------------
(***************************************************************************)
(* Order submission: for every set of constructions, authorization ids,    *)
(* intents, client ids and callers.                                        *)
(***************************************************************************)
\* The store's steps keep every table and register in its type.
LEMMA SubmissionTypeStep ==
  ASSUME TypeOK, JobIsPersisted, [Next]_vars
  PROVE  TypeOK'
<1> USE SubmissionAssumption, NilAssumption DEF TypeOK
<1>1. ASSUME NEW c \in Construction, RecordSpec(c) PROVE TypeOK'
  BY <1>1 DEF RecordSpec, caller
<1>2. ASSUME NEW a \in AuthId, NEW c \in Construction, Authorize(a, c) PROVE TypeOK'
  BY <1>2 DEF Authorize, caller
<1>3. ASSUME NEW c \in Construction, NEW h \in holds, AcceptGate(c, h) PROVE TypeOK'
  BY <1>3 DEF AcceptGate, caller, Gate
<1>4. ASSUME NEW i \in IntentId, NEW g \in gates, NEW t \in ClientId \cup {Nil},
             Prepare(i, g, ClientOrderId(g, t))
      PROVE  TypeOK'
  <2>1. ClientOrderId(g, t) \in ClientId
    BY DEF ClientOrderId, Gate
  <2>2. [gate |-> g, client |-> ClientOrderId(g, t), state |-> "READY_TO_SUBMIT",
         cutpoint |-> Nil] \in IntentRow
    BY <2>1 DEF IntentRow, States
  <2> QED BY <1>4, <2>2 DEF Prepare, caller
<1>5. ASSUME NEW p \in Caller, NEW i \in IntentId, NEW k \in Cutpoint, MarkSubmitting(p, i, k)
      PROVE  TypeOK'
  <2>1. intents[i] \in IntentRow
    BY <1>5 DEF MarkSubmitting, Rows
  <2>2. intents' \in [IntentId -> IntentRow \cup {Nil}]
    BY <1>5, <2>1 DEF MarkSubmitting, IntentRow, States
  <2> QED BY <1>5, <2>2 DEF MarkSubmitting, GoTo, Pc, Observe, NoteKind
<1>6. ASSUME NEW p \in Caller, SendCreate(p) PROVE TypeOK'
  <2>1. intents[job[p]] \in IntentRow
    BY <1>6 DEF SendCreate, JobIsPersisted, Rows
  <2> QED BY <1>6, <2>1 DEF SendCreate, GoTo, Pc, IntentRow
<1>7. ASSUME NEW p \in Caller, ReadForUncertain(p) PROVE TypeOK'
  BY <1>7 DEF ReadForUncertain, GoTo, Pc
<1>8. ASSUME NEW p \in Caller, WriteUncertain(p) PROVE TypeOK'
  <2>1. job[p] \in IntentId /\ intents[job[p]] \in IntentRow
    BY <1>8 DEF WriteUncertain, JobIsPersisted, Rows
  <2>2. intents' \in [IntentId -> IntentRow \cup {Nil}]
    BY <1>8, <2>1 DEF WriteUncertain, SetState, IntentRow, States
  <2>3. notes' \subseteq IntentId \X NoteKind
    BY <1>8, <2>1 DEF WriteUncertain, Observe, NoteKind
  <2> QED BY <1>8, <2>2, <2>3 DEF WriteUncertain, GoTo, Pc
<1>9. ASSUME NEW i \in IntentId, MarkSubmitted(i) PROVE TypeOK'
  <2>1. intents[i] \in IntentRow
    BY <1>9 DEF MarkSubmitted, Rows
  <2>2. intents' \in [IntentId -> IntentRow \cup {Nil}]
    BY <1>9, <2>1 DEF MarkSubmitted, SetState, IntentRow, States
  <2> QED BY <1>9, <2>2 DEF MarkSubmitted, caller, Observe, NoteKind
<1>10. ASSUME NEW p \in Caller, Crash(p) PROVE TypeOK'
  BY <1>10 DEF Crash, GoTo, Pc
<1>11. ASSUME NEW cl \in ClientId, ExchangeCreate(cl) PROVE TypeOK'
  BY <1>11 DEF ExchangeCreate, caller
<1>12. ASSUME NEW cl \in ClientId, LoseRequest(cl) PROVE TypeOK'
  BY <1>12 DEF LoseRequest, caller
<1>13. ASSUME NEW i \in IntentId, RecordArrival(i) PROVE TypeOK'
  BY <1>13 DEF RecordArrival, caller, Observe, NoteKind
<1>14. CASE UNCHANGED vars
  BY <1>14 DEF vars, caller
<1> QED BY <1>1, <1>2, <1>3, <1>4, <1>5, <1>6, <1>7, <1>8, <1>9, <1>10, <1>11, <1>12, <1>13, <1>14
        DEF Next

\* A row's next state keeps its gate, client order id and cutpoint.
MovesForward(i) ==
    /\ i \in Rows'
    /\ intents'[i].gate = intents[i].gate
    /\ intents'[i].client = intents[i].client
    /\ intents[i].state # "READY_TO_SUBMIT" =>
         /\ intents'[i].state # "READY_TO_SUBMIT"
         /\ intents'[i].cutpoint = intents[i].cutpoint
    /\ intents[i].state = "SUBMITTED" => intents'[i].state = "SUBMITTED"
    /\ intents'[i].state # "READY_TO_SUBMIT" <=> intents'[i].cutpoint # Nil

\* Every step of the stores moves every row forward.
LEMMA RowsMoveForward ==
  ASSUME TypeOK, JobIsPersisted, CutpointFirst, [Next]_vars, NEW i \in Rows
  PROVE  MovesForward(i)
<1> USE NilAssumption
<1>0. i \in IntentId /\ intents[i] \in IntentRow /\ intents' \in [IntentId -> IntentRow \cup {Nil}]
  <2>1. TypeOK'
    BY SubmissionTypeStep
  <2> QED BY <2>1 DEF TypeOK, Rows
<1>a. /\ intents[i].gate \in Gate /\ intents[i].client \in ClientId
      /\ intents[i].state \in States /\ intents[i].cutpoint \in Cutpoint \cup {Nil}
  BY <1>0 DEF IntentRow
<1>1. ASSUME UNCHANGED intents PROVE MovesForward(i)
  BY <1>1, <1>0 DEF MovesForward, Rows, CutpointFirst
<1>2. ASSUME NEW k \in IntentId, NEW g, NEW cl, Prepare(k, g, cl) PROVE MovesForward(i)
  BY <1>2, <1>0 DEF Prepare, IntentFree, MovesForward, Rows, CutpointFirst, TypeOK
<1>3. ASSUME NEW p \in Caller, NEW k \in IntentId, NEW c \in Cutpoint, MarkSubmitting(p, k, c)
      PROVE  MovesForward(i)
  <2>1. CASE UNCHANGED intents
    BY <2>1, <1>1
  <2>2. CASE /\ intents[k].state = "READY_TO_SUBMIT"
             /\ intents' = [intents EXCEPT ![k].state = "SUBMITTING", ![k].cutpoint = c]
    <3>1. CASE k = i
      BY <2>2, <3>1, <1>0, <1>a DEF MovesForward, Rows, CutpointFirst, TypeOK, IntentRow
    <3>2. CASE k # i
      BY <2>2, <3>2, <1>0 DEF MovesForward, Rows, CutpointFirst, TypeOK
    <3> QED BY <3>1, <3>2
  <2> QED BY <1>3, <2>1, <2>2 DEF MarkSubmitting
<1>4. ASSUME NEW k \in IntentId, NEW s \in {"SUBMISSION_UNCERTAIN", "SUBMITTED"}, SetState(k, s),
             intents[k].state \in {"SUBMITTING", "SUBMISSION_UNCERTAIN"}
      PROVE  MovesForward(i)
  <2>1. CASE k = i
    <3>1. /\ intents'[i].gate = intents[i].gate
          /\ intents'[i].client = intents[i].client
          /\ intents'[i].state = s
          /\ intents'[i].cutpoint = intents[i].cutpoint
      BY <1>4, <2>1, <1>0, <1>a DEF SetState, TypeOK, IntentRow
    <3>2. intents'[i] \in IntentRow
      BY <1>4, <2>1, <1>0, <1>a DEF SetState, TypeOK, IntentRow, States
    <3>3. i \in Rows'
      BY <1>0, <3>2 DEF Rows
    <3> QED BY <1>4, <2>1, <3>1, <3>3 DEF MovesForward, CutpointFirst
  <2>2. CASE k # i
    BY <1>4, <2>2, <1>0 DEF MovesForward, SetState, Rows, CutpointFirst, TypeOK
  <2> QED BY <2>1, <2>2
<1>5. ASSUME NEW p \in Caller, WriteUncertain(p) PROVE MovesForward(i)
  <2>1. job[p] \in IntentId
    BY <1>5 DEF WriteUncertain, JobIsPersisted, Rows
  <2> QED BY <1>5, <2>1, <1>1, <1>4 DEF WriteUncertain, Uncertainable
<1>6. ASSUME NEW k \in IntentId, MarkSubmitted(k) PROVE MovesForward(i)
  BY <1>6, <1>4 DEF MarkSubmitted
<1>7. MovesForward(i)
  <2>1. CASE \E c \in Construction : RecordSpec(c)
    BY <2>1, <1>1 DEF RecordSpec
  <2>2. CASE \E a \in AuthId, c \in Construction : Authorize(a, c)
    BY <2>2, <1>1 DEF Authorize
  <2>3. CASE \E c \in Construction, h \in holds : AcceptGate(c, h)
    BY <2>3, <1>1 DEF AcceptGate
  <2>4. CASE \E p \in Caller : SendCreate(p) \/ ReadForUncertain(p) \/ Crash(p)
    BY <2>4, <1>1 DEF SendCreate, ReadForUncertain, Crash
  <2>5. CASE \E cl \in ClientId : ExchangeCreate(cl) \/ LoseRequest(cl)
    BY <2>5, <1>1 DEF ExchangeCreate, LoseRequest
  <2>6. CASE UNCHANGED vars
    BY <2>6, <1>1 DEF vars
  <2>7. CASE \E k \in IntentId : RecordArrival(k)
    BY <2>7, <1>1 DEF RecordArrival
  <2> QED BY <2>1, <2>2, <2>3, <2>4, <2>5, <2>6, <2>7, <1>2, <1>3, <1>5, <1>6 DEF Next
<1> QED BY <1>7

\* A create is on the wire, or accepted, only under a row past its cutpoint.
LEMMA WriteAheadStep ==
  ASSUME TypeOK, JobIsPersisted, CutpointFirst, WriteAhead, [Next]_vars
  PROVE  WriteAhead'
<1>1. \A cl \in wire \cup orders : Dispatched(cl)' # {}
  <2> SUFFICES ASSUME NEW cl \in wire \cup orders PROVE Dispatched(cl)' # {}
    OBVIOUS
  <2>1. PICK i \in Rows : intents[i].client = cl /\ intents[i].state # "READY_TO_SUBMIT"
    BY DEF WriteAhead, Dispatched
  <2>2. MovesForward(i)
    BY RowsMoveForward
  <2> QED BY <2>1, <2>2 DEF MovesForward, Dispatched
<1>2. ASSUME NEW p \in Caller, SendCreate(p) PROVE WriteAhead'
  <2>1. job[p] \in Rows /\ intents[job[p]].state # "READY_TO_SUBMIT"
    BY <1>2 DEF SendCreate, JobIsPersisted
  <2>2. UNCHANGED <<intents, orders>> /\ wire' = wire \cup {intents[job[p]].client}
    BY <1>2 DEF SendCreate
  <2>3. job[p] \in Rows' /\ intents'[job[p]].state # "READY_TO_SUBMIT"
    BY <2>1, <2>2 DEF Rows
  <2>4. ASSUME NEW cl \in wire' \cup orders' PROVE Dispatched(cl)' # {}
    <3>1. CASE cl \in wire \cup orders
      BY <3>1, <1>1
    <3>2. CASE cl = intents[job[p]].client
      <4>1. intents'[job[p]].client = cl
        BY <3>2, <2>2
      <4> QED BY <4>1, <2>3 DEF Dispatched
    <3> QED BY <3>1, <3>2, <2>2
  <2> QED BY <2>4 DEF WriteAhead
<1>3. ASSUME wire' \cup orders' \subseteq wire \cup orders PROVE WriteAhead'
  BY <1>1, <1>3 DEF WriteAhead
<1> QED
  BY <1>2, <1>3 DEF Next, vars, caller, RecordSpec, Authorize, AcceptGate, Prepare, MarkSubmitting,
     ReadForUncertain, WriteUncertain, MarkSubmitted, RecordArrival, Crash, ExchangeCreate, LoseRequest

\* A caller past mark_submitting holds a row past its cutpoint.
LEMMA JobStep ==
  ASSUME TypeOK, JobIsPersisted, CutpointFirst, [Next]_vars
  PROVE  JobIsPersisted'
<1> SUFFICES ASSUME NEW q \in Caller, pc'[q] # "idle"
             PROVE  job'[q] \in Rows' /\ intents'[job'[q]].state # "READY_TO_SUBMIT"
  BY DEF JobIsPersisted
<1>1. ASSUME pc[q] # "idle", job'[q] = job[q]
      PROVE  job'[q] \in Rows' /\ intents'[job'[q]].state # "READY_TO_SUBMIT"
  <2>1. job[q] \in Rows /\ intents[job[q]].state # "READY_TO_SUBMIT"
    BY <1>1 DEF JobIsPersisted
  <2>2. MovesForward(job[q])
    BY <2>1, RowsMoveForward
  <2> QED BY <1>1, <2>1, <2>2 DEF MovesForward
<1>2. ASSUME NEW p \in Caller, NEW i \in IntentId, NEW k \in Cutpoint, MarkSubmitting(p, i, k)
      PROVE  job'[q] \in Rows' /\ intents'[job'[q]].state # "READY_TO_SUBMIT"
  <2>1. CASE q = p
    <3>1. job'[q] = i /\ i \in Rows
      BY <1>2, <2>1 DEF MarkSubmitting, TypeOK
    <3>2. MovesForward(i)
      BY <3>1, RowsMoveForward
    <3>3. intents'[i].state = "SUBMITTING"
      BY <1>2 DEF MarkSubmitting, TypeOK, Rows, IntentRow
    <3> QED BY <3>1, <3>2, <3>3 DEF MovesForward
  <2>2. CASE q # p
    BY <1>2, <2>2, <1>1 DEF MarkSubmitting, GoTo, TypeOK
  <2> QED BY <2>1, <2>2
<1>3. ASSUME UNCHANGED <<pc, job>> PROVE job'[q] \in Rows' /\ intents'[job'[q]].state # "READY_TO_SUBMIT"
  BY <1>1, <1>3
<1>4. ASSUME NEW p \in Caller, SendCreate(p) \/ ReadForUncertain(p) \/ WriteUncertain(p) \/ Crash(p)
      PROVE  job'[q] \in Rows' /\ intents'[job'[q]].state # "READY_TO_SUBMIT"
  BY <1>1, <1>4 DEF SendCreate, ReadForUncertain, WriteUncertain, Crash, GoTo, TypeOK
<1> QED
  BY <1>2, <1>3, <1>4 DEF Next, vars, caller, RecordSpec, Authorize, AcceptGate, Prepare,
     MarkSubmitted, RecordArrival, ExchangeCreate, LoseRequest

\* Rows differ in client order id and tranche, and each has a committed gate.
LEMMA RowsStep ==
  ASSUME TypeOK, JobIsPersisted, CutpointFirst, RowsDistinct, RowsHaveGate, [Next]_vars
  PROVE  RowsDistinct' /\ RowsHaveGate' /\ CutpointFirst'
<1> USE NilAssumption
<1>1. gates \subseteq gates'
  BY DEF Next, vars, caller, RecordSpec, Authorize, AcceptGate, Prepare, MarkSubmitting, SendCreate,
     ReadForUncertain, WriteUncertain, MarkSubmitted, RecordArrival, Crash, ExchangeCreate, LoseRequest
<1>2. \A i \in Rows : MovesForward(i)
  BY RowsMoveForward
<1>3. ASSUME Rows' \subseteq Rows PROVE RowsDistinct' /\ RowsHaveGate' /\ CutpointFirst'
  BY <1>1, <1>2, <1>3 DEF MovesForward, RowsDistinct, RowsHaveGate, CutpointFirst
<1>4. ASSUME NEW i \in IntentId, NEW g \in gates, NEW cl, Prepare(i, g, cl)
      PROVE  RowsDistinct' /\ RowsHaveGate' /\ CutpointFirst'
  <2>1. Rows' \subseteq Rows \cup {i} /\ i \notin Rows
    BY <1>4 DEF Prepare, IntentFree, Rows, TypeOK
  <2>2. /\ intents'[i].gate = g /\ intents'[i].client = cl
        /\ intents'[i].state = "READY_TO_SUBMIT" /\ intents'[i].cutpoint = Nil
    BY <1>4 DEF Prepare, TypeOK
  <2>3. \A k \in Rows : /\ intents[k].client # cl
                        /\ TrancheOf[intents[k].gate.con] # TrancheOf[g.con]
    BY <1>4 DEF Prepare, IntentFree
  <2>4. RowsDistinct'
    BY <2>1, <2>2, <2>3, <1>2 DEF RowsDistinct, MovesForward
  <2>5. RowsHaveGate' /\ CutpointFirst'
    BY <2>1, <2>2, <1>1, <1>2 DEF RowsHaveGate, CutpointFirst, MovesForward
  <2> QED BY <2>4, <2>5
<1>5. ASSUME UNCHANGED intents PROVE Rows' \subseteq Rows
  BY <1>5 DEF Rows
<1>6. ASSUME NEW p \in Caller, NEW i \in IntentId, NEW k \in Cutpoint, MarkSubmitting(p, i, k)
      PROVE  Rows' \subseteq Rows
  BY <1>6 DEF MarkSubmitting, Rows, TypeOK
<1>7. ASSUME NEW p \in Caller, WriteUncertain(p) PROVE Rows' \subseteq Rows
  <2>1. job[p] \in Rows
    BY <1>7 DEF WriteUncertain, JobIsPersisted
  <2> QED BY <1>7, <2>1 DEF WriteUncertain, SetState, Rows, TypeOK
<1>8. ASSUME NEW i \in IntentId, MarkSubmitted(i) PROVE Rows' \subseteq Rows
  BY <1>8 DEF MarkSubmitted, SetState, Rows, TypeOK
<1> QED
  BY <1>3, <1>4, <1>5, <1>6, <1>7, <1>8 DEF Next, vars, caller, RecordSpec, Authorize, AcceptGate,
     SendCreate, ReadForUncertain, RecordArrival, Crash, ExchangeCreate, LoseRequest

\* Gates keep the matching hold they were opened on, and holds fit their grant.
LEMMA GateStep ==
  ASSUME TypeOK, GateIsMatched, HoldsFit, [Next]_vars
  PROVE  GateIsMatched' /\ HoldsFit'
<1>1. ASSUME NEW a \in AuthId, NEW c \in Construction, Authorize(a, c)
      PROVE  GateIsMatched' /\ HoldsFit'
  BY <1>1 DEF Authorize, GateIsMatched, HoldsFit, Match, Capacity
<1>2. ASSUME NEW c \in Construction, NEW h \in holds, AcceptGate(c, h)
      PROVE  GateIsMatched' /\ HoldsFit'
  BY <1>2 DEF AcceptGate, GateIsMatched, HoldsFit, Match, Capacity
<1>3. ASSUME UNCHANGED <<holds, gates>> PROVE GateIsMatched' /\ HoldsFit'
  BY <1>3 DEF GateIsMatched, HoldsFit, Match, Capacity
<1> QED
  BY <1>1, <1>2, <1>3 DEF Next, vars, caller, RecordSpec, Prepare, MarkSubmitting, SendCreate,
     ReadForUncertain, WriteUncertain, MarkSubmitted, RecordArrival, Crash, ExchangeCreate, LoseRequest

\* Every behaviour of the stores keeps the inductive invariant.
THEOREM SubmissionInvariant == Spec => []SubmissionInv
<1>1. Init => SubmissionInv
  BY SubmissionAssumption, NilAssumption
     DEF Init, SubmissionInv, TypeOK, GateIsMatched, HoldsFit, RowsHaveGate, RowsDistinct,
         CutpointFirst, JobIsPersisted, WriteAhead, Rows, Pc
<1>2. SubmissionInv /\ [Next]_vars => SubmissionInv'
  BY SubmissionTypeStep, WriteAheadStep, JobStep, RowsStep, GateStep DEF SubmissionInv
<1> QED BY <1>1, <1>2, PTL DEF Spec

\* The submission tables and registers stay well-typed.
THEOREM SubmissionTypeCorrect == Spec => []TypeOK
BY SubmissionInvariant, PTL DEF SubmissionInv

\* No create is in flight or accepted without a row past its dispatch cutpoint.
THEOREM CreatesAreWrittenAhead == Spec => []WriteAhead
BY SubmissionInvariant, PTL DEF SubmissionInv

\* At most one exchange order for a tranche, whatever crashes, retries and
\* racing callers do.
THEOREM TrancheHasOneOrder == Spec => []OneOrderPerTranche
<1>1. SubmissionInv => OneOrderPerTranche
  BY DEF SubmissionInv, RowsDistinct, OneOrderPerTranche, Dispatched
<1> QED BY <1>1, SubmissionInvariant, PTL

\* The capital of every exchange order is held under its own authorization.
THEOREM OrdersAreHeld == Spec => []OrderIsHeld
<1>1. SubmissionInv => OrderIsHeld
  <2> SUFFICES ASSUME SubmissionInv, NEW cl \in orders, NEW i \in Dispatched(cl)
               PROVE  \E h \in holds : /\ h.auth = intents[i].gate.auth
                                       /\ DigestOf[h.con] = DigestOf[intents[i].gate.con]
                                       /\ CapitalOf[intents[i].gate.con] <= CapacityOf[h.con]
    BY DEF OrderIsHeld
  <2>1. intents[i].gate \in gates
    BY DEF SubmissionInv, RowsHaveGate, Dispatched
  <2>2. PICK h \in holds : h.auth = intents[i].gate.auth /\ Match(intents[i].gate.con, h.con)
    BY <2>1 DEF SubmissionInv, GateIsMatched
  <2>3. CapitalOf[h.con] <= CapacityOf[h.con]
    BY DEF SubmissionInv, HoldsFit, Capacity
  <2> QED BY <2>2, <2>3 DEF Match
<1> QED BY <1>1, SubmissionInvariant, PTL

\* Observations are append-only, and a SUBMITTED row is not noted as uncertain.
LEMMA NotesStep ==
  ASSUME TypeOK, [Next]_vars, NEW i \in Rows
  PROVE  /\ notes \subseteq notes'
         /\ intents[i].state = "SUBMITTED" /\ <<i, "uncertain">> \in notes' => <<i, "uncertain">> \in notes
<1>1. CASE UNCHANGED notes
  BY <1>1
<1>2. ASSUME NEW k \in IntentId, NEW kind \in NoteKind \ {"uncertain"}, Observe(k, kind)
      PROVE  /\ notes \subseteq notes'
             /\ <<i, "uncertain">> \in notes' => <<i, "uncertain">> \in notes
  BY <1>2 DEF Observe
<1>3. ASSUME NEW p \in Caller, WriteUncertain(p), notes' # notes
      PROVE  /\ notes \subseteq notes'
             /\ intents[i].state = "SUBMITTED" /\ <<i, "uncertain">> \in notes'
                  => <<i, "uncertain">> \in notes
  BY <1>3 DEF WriteUncertain, Uncertainable, Observe
<1>4. CASE \E p \in Caller, k \in IntentId, c \in Cutpoint : MarkSubmitting(p, k, c)
  BY <1>4, <1>2 DEF MarkSubmitting, NoteKind
<1>5. CASE \E k \in IntentId : MarkSubmitted(k) \/ RecordArrival(k)
  BY <1>5, <1>2 DEF MarkSubmitted, RecordArrival, NoteKind
<1> QED
  BY <1>1, <1>3, <1>4, <1>5 DEF Next, vars, RecordSpec, Authorize, AcceptGate, Prepare, SendCreate,
     ReadForUncertain, Crash, ExchangeCreate, LoseRequest

\* The identity of an attempt, and SUBMITTED, are final.
THEOREM AttemptsAreFinal == Spec => AttemptIsFinal
<1>1. SubmissionInv /\ [Next]_vars =>
        [\A i \in Rows : LET r == intents[i] IN
          /\ \A kind \in NoteKind : <<i, kind>> \in notes => <<i, kind>> \in notes'
          /\ r.state = "SUBMITTED" /\ <<i, "uncertain">> \in notes' => <<i, "uncertain">> \in notes
          /\ i \in Rows' /\ intents'[i].gate = r.gate /\ intents'[i].client = r.client
          /\ r.cutpoint # Nil => intents'[i].cutpoint = r.cutpoint
          /\ r.state = "SUBMITTED" => intents'[i].state = "SUBMITTED"]_vars
  BY RowsMoveForward, NotesStep DEF SubmissionInv, CutpointFirst, MovesForward
<1> QED BY <1>1, SubmissionInvariant, PTL DEF Spec, AttemptIsFinal

-----------------------------------------------------------------------------
(***************************************************************************)
(* Close authority                                                         *)
(***************************************************************************)
\* An intent has a revision and causes.
LEMMA IntentFields ==
  ASSUME NEW i \in Close!Intents
  PROVE  /\ i.revision \in Nat /\ i.revision + 1 \in Nat
         /\ i.state \in Close!ActiveStates \cup {"RESOLVED"}
         /\ i.causeIds \in SUBSET CloseCause
BY DEF Close!Intents

\* An intent that a cause joins is an intent.
LEMMA IntentJoined ==
  ASSUME NEW i \in Close!Intents, NEW e \in CloseCause, NEW j,
         j = [i EXCEPT !.revision = @ + 1, !.causeIds = @ \cup {e}]
  PROVE  j \in Close!Intents /\ j.revision = i.revision + 1 /\ j.causeIds = i.causeIds \cup {e}
<1>1. i.causeIds \cup {e} \in SUBSET CloseCause
  BY IntentFields
<1> QED BY <1>1, IntentFields DEF Close!Intents

\* A reading stays current when the intent of one tranche moves on: its
\* revision does not fall, and its causes change with the revision only.
LEMMA ReadingStays ==
  ASSUME Close!CloseConstants, Close!TypeOK, Close!ReadingIsCurrent, NEW t \in Tranche,
         \A w \in CloseWorker : seen'[w] = seen[w] \/ seen'[w] = Nil,
         intent[t] # Nil, intent'[t] # Nil, intent'[t].revision \in Nat,
         intent'[t].revision >= intent[t].revision,
         intent'[t].revision = intent[t].revision => intent'[t].causeIds = intent[t].causeIds,
         \A u \in Tranche : u # t => intent'[u] = intent[u]
  PROVE  Close!ReadingIsCurrent'
<1> SUFFICES ASSUME NEW w \in CloseWorker, seen'[w] # Nil
             PROVE  LET i == intent'[seen[w].tranche]
                    IN  /\ i # Nil
                        /\ seen[w].revision <= i.revision
                        /\ seen[w].revision = i.revision => seen[w].causeIds = i.causeIds
  BY DEF Close!ReadingIsCurrent
<1>1. seen[w] \in Close!Readings /\ seen[w] # Nil
  BY DEF Close!TypeOK
<1>2. seen[w].tranche \in Tranche /\ seen[w].revision \in Nat
  BY <1>1 DEF Close!Readings
<1>3. /\ intent[seen[w].tranche] # Nil
      /\ seen[w].revision <= intent[seen[w].tranche].revision
      /\ seen[w].revision = intent[seen[w].tranche].revision
           => seen[w].causeIds = intent[seen[w].tranche].causeIds
  BY <1>1 DEF Close!ReadingIsCurrent
<1>4. intent[t].revision \in Nat
  <2>1. intent[t] \in Close!Intents
    BY DEF Close!TypeOK
  <2> QED BY <2>1, IntentFields
<1> QED BY <1>2, <1>3, <1>4

\* A joining cause enters the causes table and the intent row together, and
\* moves the revision when it is new.
LEMMA JoinKeeps ==
  ASSUME Close!CloseConstants, Close!CloseInv,
         NEW t \in Tranche, NEW e \in CloseCause, Close!Join(t, e)
  PROVE  /\ intent' \in [Tranche -> Close!Intents \cup {Nil}]
         /\ intent'[t].revision >= intent[t].revision
         /\ causes' \in [Tranche -> SUBSET CloseCause]
         /\ told' \subseteq Tranche \X CloseCause
         /\ Close!CausesRetained'
         /\ Close!ReadingIsCurrent'
<1> USE DEF Close!CloseInv, Close!TypeOK, Close!CloseConstants
<1>1. intent[t] \in Close!Intents /\ intent[t] # Nil
  BY DEF Close!Join, Close!Active
<1>2. causes' = [causes EXCEPT ![t] = @ \cup {e}] /\ told' = told \cup {<<t, e>>} /\ seen' = seen
  BY DEF Close!Join, Close!AppendCause
<1>3. causes[t] = intent[t].causeIds
  BY <1>1 DEF Close!CausesRetained
<1>4. /\ intent' \in [Tranche -> Close!Intents \cup {Nil}]
      /\ intent'[t] # Nil
      /\ intent'[t].causeIds = intent[t].causeIds \cup {e}
      /\ intent'[t].revision >= intent[t].revision
      /\ intent'[t].revision = intent[t].revision => intent'[t].causeIds = intent[t].causeIds
      /\ \A u \in Tranche : u # t => intent'[u] = intent[u]
  <2>1. CASE e \in causes[t]
    BY <2>1, <1>1, <1>3 DEF Close!Join, Close!AppendCause, Close!Intents
  <2>2. CASE e \notin causes[t]
    <3>1. intent' = [intent EXCEPT ![t] = [intent[t] EXCEPT !.revision = @ + 1,
                                                           !.causeIds = @ \cup {e}]]
      BY <2>2, <1>1 DEF Close!Join, Close!AppendCause, Close!Intents
    <3> DEFINE j == [intent[t] EXCEPT !.revision = @ + 1, !.causeIds = @ \cup {e}]
    <3>2. /\ j \in Close!Intents /\ j.revision = intent[t].revision + 1
          /\ j.causeIds = intent[t].causeIds \cup {e} /\ intent[t].revision \in Nat
      <4>1. j = [intent[t] EXCEPT !.revision = @ + 1, !.causeIds = @ \cup {e}]
        OBVIOUS
      <4> HIDE DEF j, Close!CloseInv, Close!TypeOK, Close!CloseConstants
      <4> QED BY <4>1, <1>1, IntentJoined, IntentFields
    <3>3. intent' = [intent EXCEPT ![t] = j]
      BY <3>1
    <3> HIDE DEF j
    <3> QED BY <3>2, <3>3
  <2> QED BY <2>1, <2>2
<1>5. Close!CausesRetained'
  BY <1>2, <1>3, <1>4 DEF Close!CausesRetained
<1>6. Close!ReadingIsCurrent'
  <2>1. intent'[t].revision \in Nat
    BY <1>4, IntentFields
  <2> HIDE DEF Close!TypeOK, Close!CloseConstants
  <2> QED BY <1>1, <1>2, <1>4, <2>1, ReadingStays
<1>7. <<t, e>> \in Tranche \X CloseCause
  OBVIOUS
<1> QED BY <1>2, <1>4, <1>5, <1>6, <1>7

\* Every step of the close authority keeps the invariant.
LEMMA CloseStep ==
  ASSUME Close!CloseConstants, Close!CloseInv, [Close!Next]_(Close!vars)
  PROVE  Close!CloseInv'
<1> USE DEF Close!CloseInv, Close!TypeOK, Close!CloseConstants
<1>1. ASSUME NEW c \in CloseCaller, NEW t \in Tranche, NEW e \in CloseCause,
             Close!LookForIntent(c, t, e)
      PROVE  Close!CloseInv'
  <2>1. CASE Close!Join(t, e) /\ UNCHANGED call
    BY <2>1, JoinKeeps DEF Close!Join, Close!OneOpenChild
  <2>2. CASE ~(Close!Join(t, e) /\ UNCHANGED call)
    <3>1. /\ call' = [call EXCEPT ![c] = <<t, e>>]
          /\ UNCHANGED <<intent, causes, child, basis, told, seen>>
      BY <1>1, <2>2 DEF Close!LookForIntent
    <3>2. <<t, e>> \in Tranche \X CloseCause
      OBVIOUS
    <3>3. call' \in [CloseCaller -> (Tranche \X CloseCause) \cup {Nil}]
      BY <3>1, <3>2
    <3> QED BY <3>1, <3>3 DEF Close!OneOpenChild, Close!CausesRetained, Close!ReadingIsCurrent
  <2> QED BY <2>1, <2>2
<1>2. ASSUME NEW c \in CloseCaller, Close!InsertIntent(c) PROVE Close!CloseInv'
  <2> DEFINE t == call[c][1]
             e == call[c][2]
  <2>1. t \in Tranche /\ e \in CloseCause /\ call' \in [CloseCaller -> (Tranche \X CloseCause) \cup {Nil}]
    BY <1>2 DEF Close!InsertIntent
  <2>2. CASE Close!Join(t, e)
    BY <2>1, <2>2, JoinKeeps DEF Close!Join, Close!OneOpenChild
  <2>3. CASE intent[t] = Nil /\ Close!Acquire(t, e)
    <3>1. Close!NewIntent(e) \in Close!Intents
      BY <2>1 DEF Close!NewIntent, Close!Intents, Close!ActiveStates
    <3>2. intent' = [intent EXCEPT ![t] = Close!NewIntent(e)] /\ Close!NewIntent(e) # Nil
      BY <2>3, <3>1 DEF Close!Acquire
    <3>3. causes' = [causes EXCEPT ![t] = @ \cup {e}] /\ causes[t] = {}
      BY <2>1, <2>3 DEF Close!Acquire, Close!CausesRetained
    <3>4. Close!TypeOK'
      BY <2>1, <2>3, <3>1, <3>2, <3>3 DEF Close!Acquire
    <3>5. Close!CausesRetained'
      BY <2>1, <2>3, <3>2, <3>3 DEF Close!Acquire, Close!CausesRetained, Close!NewIntent
    <3>6. Close!ReadingIsCurrent'
      BY <2>1, <2>3, <3>2 DEF Close!Acquire, Close!ReadingIsCurrent, Close!Readings
    <3> QED BY <2>3, <3>4, <3>5, <3>6 DEF Close!Acquire, Close!OneOpenChild
  <2>4. CASE UNCHANGED <<intent, causes, child, basis, told, seen>>
    BY <2>1, <2>4 DEF Close!OneOpenChild, Close!CausesRetained, Close!ReadingIsCurrent
  <2> QED BY <1>2, <2>2, <2>3, <2>4 DEF Close!InsertIntent
<1>3. ASSUME NEW c \in CloseCaller, Close!AbandonCall(c) PROVE Close!CloseInv'
  BY <1>3 DEF Close!AbandonCall, Close!OneOpenChild, Close!CausesRetained, Close!ReadingIsCurrent
<1>4. ASSUME NEW w \in CloseWorker, NEW t \in Tranche, Close!ReadIntent(w, t) PROVE Close!CloseInv'
  <2> DEFINE r == [tranche |-> t, revision |-> intent[t].revision,
                   causeIds |-> intent[t].causeIds]
  <2>1. intent[t] \in Close!Intents /\ intent[t] # Nil
    BY <1>4 DEF Close!ReadIntent, Close!Active
  <2>2. r \in Close!Readings
    BY <2>1 DEF Close!Intents, Close!Readings
  <2>3. seen' = [seen EXCEPT ![w] = r] /\ UNCHANGED <<intent, causes, child, basis, call, told>>
    BY <1>4 DEF Close!ReadIntent
  <2>4. Close!TypeOK'
    BY <2>2, <2>3
  <2>5. Close!ReadingIsCurrent'
    BY <2>1, <2>2, <2>3 DEF Close!ReadingIsCurrent, Close!Intents
  <2> QED BY <2>3, <2>4, <2>5 DEF Close!OneOpenChild, Close!CausesRetained
<1>5. ASSUME NEW w \in CloseWorker, NEW n \in ChildSeq, Close!AuthorizeChild(w, n) PROVE Close!CloseInv'
  <2> DEFINE t == seen[w].tranche
             i == [intent[t] EXCEPT !.revision = @ + 1, !.state = "REDUCTION_AUTHORIZED"]
  <2>1. seen[w] \in Close!Readings /\ t \in Tranche
    BY <1>5 DEF Close!AuthorizeChild, Close!Readings
  <2>2. intent[t] \in Close!Intents /\ intent[t] # Nil
    BY <1>5, <2>1 DEF Close!AuthorizeChild, Close!Active
  <2>3. i \in Close!Intents /\ i.causeIds = intent[t].causeIds /\ i.revision = intent[t].revision + 1
    <3>1. /\ intent[t].revision \in Nat /\ intent[t].revision + 1 \in Nat
          /\ intent[t].causeIds \in SUBSET CloseCause
          /\ "REDUCTION_AUTHORIZED" \in Close!ActiveStates \cup {"RESOLVED"}
      BY <2>2, IntentFields DEF Close!ActiveStates
    <3> HIDE DEF Close!CloseInv, Close!TypeOK, Close!CloseConstants
    <3> QED BY <2>2, <3>1 DEF Close!Intents
  <2>4. /\ intent' = [intent EXCEPT ![t] = i]
        /\ child' = [child EXCEPT ![t] = [child[t] EXCEPT ![n] = "AUTHORIZED"]]
        /\ basis' = [basis EXCEPT ![t] = [basis[t] EXCEPT ![n] = seen[w].causeIds]]
        /\ seen' = [seen EXCEPT ![w] = Nil]
        /\ UNCHANGED <<causes, call, told>>
    <3> HIDE DEF Close!CloseInv, Close!TypeOK, Close!CloseConstants
    <3> QED BY <1>5 DEF Close!AuthorizeChild, Close!NewChild
  <2>5. Close!TypeOK'
    <3>1. child' \in [Tranche -> [ChildSeq -> Close!OpenChildStates \cup Close!ClosedChildStates \cup {Nil}]]
      BY <2>1, <2>4 DEF Close!OpenChildStates
    <3>2. basis' \in [Tranche -> [ChildSeq -> SUBSET CloseCause]]
      BY <2>1, <2>4 DEF Close!Readings
    <3> QED BY <2>1, <2>3, <2>4, <3>1, <3>2
  <2>6. Close!CausesRetained'
    BY <2>1, <2>2, <2>3, <2>4 DEF Close!CausesRetained
  <2>7. Close!OneOpenChild'
    BY <1>5, <2>1, <2>4 DEF Close!AuthorizeChild, Close!HasOpenChild, Close!OneOpenChild
  <2>8. Close!ReadingIsCurrent'
    <3>1. intent[t].revision \in Nat
      BY <2>2, IntentFields
    <3> HIDE DEF t, i
    <3>2. /\ intent'[t] = i /\ i # Nil /\ \A u \in Tranche : u # t => intent'[u] = intent[u]
          /\ \A v \in CloseWorker : seen'[v] = seen[v] \/ seen'[v] = Nil
      BY <2>1, <2>3, <2>4
    <3>3. i.revision \in Nat /\ i.revision >= intent[t].revision /\ i.revision # intent[t].revision
      BY <2>3, <3>1
    <3> HIDE DEF Close!TypeOK, Close!CloseConstants
    <3> QED BY <2>1, <2>2, <3>2, <3>3, ReadingStays
  <2> QED BY <2>5, <2>6, <2>7, <2>8
<1>6. ASSUME NEW w \in CloseWorker, Close!ForgetIntent(w) PROVE Close!CloseInv'
  BY <1>6 DEF Close!ForgetIntent, Close!OneOpenChild, Close!CausesRetained, Close!ReadingIsCurrent
<1>7. ASSUME NEW t \in Tranche, Close!ResolveIntent(t) PROVE Close!CloseInv'
  <2> DEFINE i == [intent[t] EXCEPT !.revision = @ + 1, !.state = "RESOLVED"]
  <2>1. intent[t] \in Close!Intents /\ intent[t] # Nil
    BY <1>7 DEF Close!ResolveIntent
  <2>2. i \in Close!Intents /\ i.causeIds = intent[t].causeIds /\ i.revision = intent[t].revision + 1
    <3>1. /\ intent[t].revision \in Nat /\ intent[t].revision + 1 \in Nat
          /\ intent[t].causeIds \in SUBSET CloseCause
          /\ "RESOLVED" \in Close!ActiveStates \cup {"RESOLVED"}
      BY <2>1, IntentFields DEF Close!ActiveStates
    <3> HIDE DEF Close!CloseInv, Close!TypeOK, Close!CloseConstants
    <3> QED BY <2>1, <3>1 DEF Close!Intents
  <2>3. intent' = [intent EXCEPT ![t] = i] /\ UNCHANGED <<causes, child, basis, call, told, seen>>
    BY <1>7 DEF Close!ResolveIntent
  <2>4. Close!CausesRetained'
    BY <2>1, <2>2, <2>3 DEF Close!CausesRetained
  <2>5. Close!ReadingIsCurrent'
    <3>1. intent[t].revision \in Nat
      BY <2>1, IntentFields
    <3> HIDE DEF i
    <3>2. /\ intent'[t] = i /\ i # Nil /\ \A u \in Tranche : u # t => intent'[u] = intent[u]
          /\ \A v \in CloseWorker : seen'[v] = seen[v] \/ seen'[v] = Nil
      BY <2>2, <2>3
    <3>3. i.revision \in Nat /\ i.revision >= intent[t].revision /\ i.revision # intent[t].revision
      BY <2>2, <3>1
    <3> HIDE DEF Close!TypeOK, Close!CloseConstants
    <3> QED BY <2>1, <3>2, <3>3, ReadingStays
  <2> QED BY <2>2, <2>3, <2>4, <2>5 DEF Close!OneOpenChild
<1>8. ASSUME NEW t \in Tranche, NEW n \in ChildSeq,
             NEW s \in Close!OpenChildStates \cup Close!ClosedChildStates,
             Close!ChildAdvances(t, n, s)
      PROVE  Close!CloseInv'
  <2>1. child' = [child EXCEPT ![t] = [child[t] EXCEPT ![n] = s]]
        /\ UNCHANGED <<intent, causes, basis, call, told, seen>>
    BY <1>8 DEF Close!ChildAdvances
  <2>2. Close!OneOpenChild'
    <3>1. child[t][n] \in Close!OpenChildStates
      BY <1>8 DEF Close!ChildAdvances
    <3>2. \A u \in Tranche, m \in ChildSeq :
            child'[u][m] \in Close!OpenChildStates => child[u][m] \in Close!OpenChildStates
      BY <2>1, <3>1
    <3> QED BY <3>2 DEF Close!OneOpenChild
  <2> QED BY <2>1, <2>2 DEF Close!CausesRetained, Close!ReadingIsCurrent
<1>9. CASE UNCHANGED Close!vars
  BY <1>9 DEF Close!vars, Close!OneOpenChild, Close!CausesRetained, Close!ReadingIsCurrent
<1> QED BY <1>1, <1>2, <1>3, <1>4, <1>5, <1>6, <1>7, <1>8, <1>9 DEF Close!Next

\* CloseInv holds in every state of the close authority.
THEOREM CloseInvariant == Close!Spec => []Close!CloseInv
<1> USE CloseAssumption
<1>1. Close!Init => Close!CloseInv
  BY DEF Close!CloseConstants, Close!Init, Close!CloseInv, Close!TypeOK, Close!CausesRetained,
         Close!OneOpenChild, Close!ReadingIsCurrent
<1>2. Close!CloseInv /\ [Close!Next]_(Close!vars) => Close!CloseInv'
  BY CloseStep
<1> QED BY <1>1, <1>2, PTL DEF Close!Spec

\* acquire_or_join loses no cause and authorize_reduction_child leaves one
\* child at most that can still execute, for any callers and workers.
THEOREM CausesAreKept == Close!Spec => []CloseHolds
<1> USE CloseAssumption
<1>1. Close!CloseInv => CloseHolds
  BY DEF Close!CloseInv, CloseHolds, Close!CloseHolds
<1> QED BY <1>1, CloseInvariant, PTL

\* authorize_reduction_child refuses a worker whose reading is stale: the
\* child it adds was decided on every cause of an active intent.
THEOREM StaleWorkersAreRefused == Close!Spec => Close!AuthorizedOnCurrentIntent
<1> USE CloseAssumption
<1> DEFINE Goal(t, n) == child[t][n] = Nil /\ child'[t][n] # Nil
                           => Close!Active(t) /\ basis'[t][n] = causes[t]
<1>1. ASSUME Close!CloseInv, [Close!Next]_(Close!vars), NEW t \in Tranche, NEW n \in ChildSeq
      PROVE  Goal(t, n)
  <2> USE <1>1 DEF Close!CloseInv, Close!TypeOK
  <2>1. ASSUME NEW w \in CloseWorker, NEW m \in ChildSeq, Close!AuthorizeChild(w, m) PROVE Goal(t, n)
    <3> DEFINE u == seen[w].tranche
    <3>1. seen[w] \in Close!Readings /\ seen[w] # Nil /\ u \in Tranche
      BY <2>1 DEF Close!AuthorizeChild, Close!Readings
    <3>2. /\ Close!Active(u) /\ intent[u].revision = seen[w].revision
          /\ child' = [child EXCEPT ![u] = [child[u] EXCEPT ![m] = "AUTHORIZED"]]
          /\ basis' = [basis EXCEPT ![u] = [basis[u] EXCEPT ![m] = seen[w].causeIds]]
      BY <2>1 DEF Close!AuthorizeChild, Close!NewChild
    <3>3. causes[u] = seen[w].causeIds
      BY <3>1, <3>2 DEF Close!ReadingIsCurrent, Close!CausesRetained
    <3>4. child[t][n] = Nil /\ child'[t][n] # Nil => t = u /\ n = m
      BY <3>1, <3>2
    <3>5. basis'[u][m] = seen[w].causeIds
      BY <3>1, <3>2
    <3> QED BY <3>2, <3>3, <3>4, <3>5
  <2>2. ASSUME NEW u \in Tranche, NEW m \in ChildSeq,
               NEW s \in Close!OpenChildStates \cup Close!ClosedChildStates,
               Close!ChildAdvances(u, m, s)
        PROVE  Goal(t, n)
    <3>1. child' = [child EXCEPT ![u] = [child[u] EXCEPT ![m] = s]] /\ child[u][m] # Nil
      BY <2>2 DEF Close!ChildAdvances, Close!CloseConstants
    <3> QED BY <3>1
  <2>3. CASE UNCHANGED child
    BY <2>3
  <2> QED BY <2>1, <2>2, <2>3 DEF Close!Next, Close!vars, Close!LookForIntent, Close!Join,
             Close!InsertIntent, Close!Acquire, Close!AbandonCall, Close!ReadIntent,
             Close!ForgetIntent, Close!ResolveIntent
<1>2. Close!CloseInv /\ [Close!Next]_(Close!vars)
        => \A t \in Tranche, n \in ChildSeq : Goal(t, n)
  BY <1>1
<1> QED BY <1>2, CloseInvariant, PTL DEF Close!Spec, Close!AuthorizedOnCurrentIntent

\* resolve_intent closes a tranche for good, whatever callers and workers
\* that read the intent before do next.
THEOREM ResolvedTranchesStay == Close!Spec => Close!ResolvedIsFinal
<1> USE CloseAssumption
<1> DEFINE Goal(t) == intent[t] # Nil =>
             /\ intent'[t].revision >= intent[t].revision
             /\ intent[t].state = "RESOLVED" =>
                  /\ intent'[t].state = "RESOLVED"
                  /\ causes'[t] = causes[t]
                  /\ \A n \in ChildSeq : child[t][n] = Nil => child'[t][n] = Nil
<1>1. ASSUME Close!CloseInv, [Close!Next]_(Close!vars), NEW t \in Tranche
      PROVE  Goal(t)
  <2> SUFFICES ASSUME intent[t] # Nil PROVE Goal(t)
    OBVIOUS
  <2>0. intent[t] \in Close!Intents /\ intent[t].revision \in Nat
    BY <1>1, IntentFields DEF Close!CloseInv, Close!TypeOK
  <2> USE <1>1 DEF Close!CloseInv, Close!TypeOK
  <2>1. ASSUME NEW u \in Tranche, NEW e \in CloseCause, Close!Join(u, e) PROVE Goal(t)
    <3>1. CASE u = t
      <4>1. intent[t].state # "RESOLVED"
        BY <2>1, <3>1 DEF Close!Join, Close!Active, Close!ActiveStates
      <4> HIDE DEF Close!CloseInv, Close!TypeOK
      <4>2. intent'[t].revision >= intent[t].revision
        BY <2>1, <3>1, JoinKeeps
      <4> QED BY <4>1, <4>2
    <3>2. CASE u # t
      BY <2>0, <2>1, <3>2 DEF Close!Join, Close!AppendCause
    <3> QED BY <3>1, <3>2
  <2>2. ASSUME NEW u \in Tranche, NEW e \in CloseCause, intent[u] = Nil, Close!Acquire(u, e)
        PROVE  Goal(t)
    BY <2>0, <2>2 DEF Close!Acquire
  <2>3. ASSUME NEW w \in CloseWorker, NEW m \in ChildSeq, Close!AuthorizeChild(w, m) PROVE Goal(t)
    <3> DEFINE u == seen[w].tranche
    <3>1. /\ u \in Tranche /\ Close!Active(u)
          /\ intent' = [intent EXCEPT ![u] = [intent[u] EXCEPT !.revision = @ + 1,
                                                              !.state = "REDUCTION_AUTHORIZED"]]
          /\ child' = [child EXCEPT ![u] = [child[u] EXCEPT ![m] = "AUTHORIZED"]]
          /\ causes' = causes
      BY <2>3 DEF Close!AuthorizeChild, Close!NewChild, Close!Readings
    <3> HIDE DEF u
    <3>2. CASE u = t
      <4>1. intent[t].state # "RESOLVED"
        BY <3>1, <3>2 DEF Close!Active, Close!ActiveStates
      <4>2. intent'[t].revision >= intent[t].revision
        BY <2>0, <3>1, <3>2 DEF Close!Intents
      <4> QED BY <4>1, <4>2
    <3>3. CASE u # t
      BY <2>0, <3>1, <3>3
    <3> QED BY <3>2, <3>3
  <2>4. ASSUME NEW u \in Tranche, Close!ResolveIntent(u) PROVE Goal(t)
    <3>1. /\ intent' = [intent EXCEPT ![u] = [intent[u] EXCEPT !.revision = @ + 1, !.state = "RESOLVED"]]
          /\ UNCHANGED <<causes, child>>
      BY <2>4 DEF Close!ResolveIntent
    <3>2. CASE u = t
      BY <2>0, <3>1, <3>2 DEF Close!Intents
    <3>3. CASE u # t
      BY <2>0, <3>1, <3>3
    <3> QED BY <3>2, <3>3
  <2>5. ASSUME NEW u \in Tranche, NEW m \in ChildSeq,
               NEW s \in Close!OpenChildStates \cup Close!ClosedChildStates,
               Close!ChildAdvances(u, m, s)
        PROVE  Goal(t)
    <3>1. /\ child' = [child EXCEPT ![u] = [child[u] EXCEPT ![m] = s]] /\ child[u][m] # Nil
          /\ UNCHANGED <<intent, causes>>
      BY <2>5 DEF Close!ChildAdvances, Close!CloseConstants
    <3> QED BY <2>0, <3>1
  <2>6. CASE UNCHANGED <<intent, causes, child>>
    BY <2>0, <2>6
  <2>7. ASSUME NEW c \in CloseCaller, Close!InsertIntent(c) PROVE Goal(t)
    <3>1. call[c][1] \in Tranche /\ call[c][2] \in CloseCause
      BY <2>7 DEF Close!InsertIntent
    <3> QED BY <2>1, <2>2, <2>6, <2>7, <3>1 DEF Close!InsertIntent
  <2> QED BY <2>1, <2>3, <2>4, <2>5, <2>6, <2>7
          DEF Close!Next, Close!vars, Close!LookForIntent, Close!AbandonCall, Close!ReadIntent,
              Close!ForgetIntent
<1>2. Close!CloseInv /\ [Close!Next]_(Close!vars) => \A t \in Tranche : Goal(t)
  BY <1>1
<1> QED BY <1>2, CloseInvariant, PTL DEF Close!Spec, Close!ResolvedIsFinal

-----------------------------------------------------------------------------
(***************************************************************************)
(* Reconciliation                                                          *)
(***************************************************************************)
\* The fields of a tombstone.
LEMMA TombFields ==
  ASSUME NEW t \in Recon!Tombs
  PROVE  /\ t.scope \in {Scope[e] : e \in Evidence}
         /\ t.state \in {"UNRESOLVED", "RESOLVED"} /\ t.latest \in Nat \cup {Nil}
         /\ t.proof \in Complete \cup {Nil}
         /\ t.block \in BOOLEAN /\ t.integrity \in {"CLEAR", "CONFLICT"}
BY DEF Recon!Tombs

\* _mark_integrity_conflict keeps all of the tombstone but its block.
LEMMA ConflictedTomb ==
  ASSUME NEW t \in Recon!Tombs
  PROVE  \A u : u = Recon!Conflicted(t) =>
             /\ u \in Recon!Tombs /\ u.block = TRUE /\ u.integrity = "CONFLICT"
             /\ u.state = t.state /\ u.latest = t.latest /\ u.proof = t.proof
BY TombFields DEF Recon!Tombs, Recon!Conflicted

\* _advance_tombstone resolves on a complete resolution only.
LEMMA AdvancedTomb ==
  ASSUME Recon!ReconciliationConstants, NEW t \in Recon!Tombs, NEW e \in Evidence
  PROVE  /\ Recon!Advanced(e, t) \in Recon!Tombs
         /\ Recon!Advanced(e, t).latest = Revision[e]
         /\ Recon!Advanced(e, t).integrity = t.integrity
         /\ e \in Complete => /\ Recon!Advanced(e, t).state = "RESOLVED"
                              /\ Recon!Advanced(e, t).proof = e
         /\ e \notin Complete => /\ Recon!Advanced(e, t).state = t.state
                                 /\ Recon!Advanced(e, t).block = t.block
BY TombFields DEF Recon!Tombs, Recon!Advanced, Recon!ReconciliationConstants

\* What record_event does to the tombstone: evidence it does not find stale
\* meets a tombstone that is not resolved, and is at least as new.
LEMMA RecordEffect ==
  ASSUME Recon!ReconciliationConstants, Recon!ReconciliationInv,
         NEW p \in Recorder, Recon!Record(p)
  PROVE  LET e == lookup[p]
             t == Recon!TombFor(e)
         IN  /\ e \in Evidence /\ t \in Recon!Tombs /\ (tomb # Nil => t = tomb)
             /\ records' = records \cup {e}
             /\ \A r \in records : RevisionId[r] = RevisionId[e] => Revision[r] # Revision[e]
             /\ \/ accepted' = accepted /\ tomb' = t /\ tomb # Nil
                \/ /\ accepted' = accepted \cup {e} /\ tomb' = Recon!Advanced(e, t)
                   /\ t.state = "UNRESOLVED" /\ (t.latest # Nil => Revision[e] >= t.latest)
             /\ tomb = Nil => t.state = "UNRESOLVED" /\ t.block = TRUE
<1> DEFINE e == lookup[p]
           t == Recon!TombFor(e)
<1>1. e \in Evidence /\ records' = records \cup {e}
  BY DEF Recon!Record, Recon!ReconciliationInv, Recon!TypeOK
<1>2. /\ t \in Recon!Tombs /\ (tomb # Nil => t = tomb)
      /\ tomb = Nil => t.state = "UNRESOLVED" /\ t.block = TRUE /\ t.latest = Nil
  BY <1>1 DEF Recon!TombFor, Recon!NewTomb, Recon!Tombs, Recon!ReconciliationInv, Recon!TypeOK
<1>3. /\ ~Recon!Conflicts(e, t)
      /\ \A r \in records : EvidenceId[r] # EvidenceId[e]
      /\ accepted' = IF Recon!Stale(e, t) THEN accepted ELSE accepted \cup {e}
      /\ tomb' = IF Recon!Stale(e, t) THEN t ELSE Recon!Advanced(e, t)
  BY DEF Recon!Record
<1> HIDE DEF e, t
<1>4. \A r \in records : RevisionId[r] = RevisionId[e] => Revision[r] # Revision[e]
  BY <1>3 DEF Recon!Conflicts, Recon!SameRevision
<1>5. Revision[e] \in Nat /\ t.state \in {"UNRESOLVED", "RESOLVED"} /\ t.latest \in Nat \cup {Nil}
  BY <1>1, <1>2, TombFields DEF Recon!ReconciliationConstants
<1>6. t.state = "RESOLVED" => t.latest # Nil
  BY <1>2 DEF Recon!ReconciliationInv, Recon!TombstoneFirst
<1>7. ASSUME ~Recon!Stale(e, t)
      PROVE  t.state = "UNRESOLVED" /\ (t.latest # Nil => Revision[e] >= t.latest)
  BY <1>3, <1>5, <1>6, <1>7 DEF Recon!Stale, Recon!Conflicts
<1>8. Recon!Stale(e, t) => tomb # Nil
  BY <1>2 DEF Recon!Stale
<1> QED BY <1>1, <1>2, <1>3, <1>4, <1>7, <1>8 DEF e, t

\* An integrity conflict is only found on a tombstone that exists.
LEMMA ConflictHasTomb ==
  ASSUME Recon!ReconciliationConstants, Recon!ReconciliationInv, NEW e \in Evidence,
         Recon!Conflicts(e, Recon!TombFor(e))
  PROVE  tomb \in Recon!Tombs
BY DEF Recon!Conflicts, Recon!TombFor, Recon!NewTomb, Recon!SameRevision,
       Recon!ReconciliationInv, Recon!TypeOK, Recon!TombstoneFirst

\* Every step of the evidence ledger keeps the invariant.
LEMMA ReconciliationStep ==
  ASSUME Recon!ReconciliationConstants, Recon!ReconciliationInv, [Recon!Next]_(Recon!vars)
  PROVE  Recon!ReconciliationInv'
<1> USE DEF Recon!ReconciliationInv
<1>1. ASSUME tomb \in Recon!Tombs, tomb' = Recon!Conflicted(tomb), UNCHANGED <<records, accepted>>,
             lookup' \in [Recorder -> Evidence \cup {Nil}]
      PROVE  Recon!ReconciliationInv'
  <2>1. /\ tomb' \in Recon!Tombs /\ tomb'.block = TRUE /\ tomb'.integrity = "CONFLICT"
        /\ tomb'.state = tomb.state /\ tomb'.latest = tomb.latest /\ tomb'.proof = tomb.proof
    BY <1>1, ConflictedTomb
  <2>2. tomb # Nil /\ tomb' # Nil
    BY <1>1, <2>1 DEF Recon!ReconciliationConstants
  <2> QED BY <1>1, <2>1, <2>2 DEF Recon!TypeOK, Recon!TombstoneFirst, Recon!UnblockedByProof,
                               Recon!OneContentPerRevision
<1>2. ASSUME NEW e \in Evidence, Recon!ChangedIdentity(e) PROVE Recon!ReconciliationInv'
  <2>1. tomb \in Recon!Tombs
    BY <1>2 DEF Recon!ChangedIdentity, Recon!TombstoneFirst, Recon!TypeOK
  <2> QED BY <1>1, <1>2, <2>1 DEF Recon!ChangedIdentity, Recon!TypeOK
<1>3. ASSUME NEW p \in Recorder, Recon!MarkConflict(p) PROVE Recon!ReconciliationInv'
  <2>1. lookup[p] \in Evidence
    BY <1>3 DEF Recon!MarkConflict, Recon!TypeOK
  <2>2. tomb \in Recon!Tombs
    BY <1>3, <2>1, ConflictHasTomb DEF Recon!MarkConflict
  <2> QED BY <1>1, <1>3, <2>2 DEF Recon!MarkConflict, Recon!TypeOK
<1>4. ASSUME UNCHANGED <<records, accepted, tomb>>, lookup' \in [Recorder -> Evidence \cup {Nil}]
      PROVE  Recon!ReconciliationInv'
  BY <1>4 DEF Recon!TypeOK, Recon!TombstoneFirst, Recon!UnblockedByProof,
              Recon!OneContentPerRevision
<1>5. ASSUME NEW p \in Recorder, Recon!Record(p) PROVE Recon!ReconciliationInv'
  <2> DEFINE e == lookup[p]
             t == Recon!TombFor(e)
  <2>1. /\ e \in Evidence /\ t \in Recon!Tombs /\ (tomb # Nil => t = tomb)
        /\ records' = records \cup {e}
        /\ \A r \in records : RevisionId[r] = RevisionId[e] => Revision[r] # Revision[e]
        /\ \/ accepted' = accepted /\ tomb' = t /\ tomb # Nil
           \/ /\ accepted' = accepted \cup {e} /\ tomb' = Recon!Advanced(e, t)
              /\ t.state = "UNRESOLVED" /\ (t.latest # Nil => Revision[e] >= t.latest)
        /\ tomb = Nil => t.state = "UNRESOLVED" /\ t.block = TRUE
    BY <1>5, RecordEffect
  <2>2. lookup' \in [Recorder -> Evidence \cup {Nil}]
    BY <1>5 DEF Recon!Record, Recon!TypeOK
  <2> HIDE DEF e, t
  <2>3. Recon!OneContentPerRevision'
    BY <2>1 DEF Recon!OneContentPerRevision
  <2>4. CASE accepted' = accepted /\ tomb' = t /\ tomb # Nil
    BY <2>1, <2>2, <2>3, <2>4 DEF Recon!TypeOK, Recon!TombstoneFirst, Recon!UnblockedByProof
  <2>5. CASE /\ accepted' = accepted \cup {e} /\ tomb' = Recon!Advanced(e, t)
             /\ t.state = "UNRESOLVED"
    <3>1. /\ tomb' \in Recon!Tombs /\ tomb'.latest = Revision[e]
          /\ e \in Complete => tomb'.state = "RESOLVED" /\ tomb'.proof = e
          /\ e \notin Complete => tomb'.state = "UNRESOLVED" /\ tomb'.block = t.block
      BY <2>1, <2>5, AdvancedTomb
    <3>2. tomb' # Nil /\ Revision[e] # Nil /\ Revision[e] \in Nat
      BY <2>1, <3>1 DEF Recon!ReconciliationConstants
    <3>3. Recon!TypeOK'
      BY <2>1, <2>2, <2>5, <3>1 DEF Recon!TypeOK
    <3>4. t.block = TRUE /\ accepted \cap Complete = {}
      <4>1. CASE tomb = Nil
        BY <2>1, <4>1 DEF Recon!TombstoneFirst, Recon!TypeOK
      <4>2. CASE tomb # Nil
        BY <2>1, <2>5, <4>2, TombFields DEF Recon!UnblockedByProof
      <4> QED BY <4>1, <4>2
    <3>5. Recon!TombstoneFirst'
      BY <3>1, <3>2 DEF Recon!TombstoneFirst
    <3>6. Recon!UnblockedByProof'
      BY <2>5, <3>1, <3>2, <3>4 DEF Recon!UnblockedByProof
    <3> QED BY <2>3, <3>3, <3>5, <3>6
  <2> QED BY <2>1, <2>4, <2>5
<1> QED BY <1>2, <1>3, <1>4, <1>5
        DEF Recon!Next, Recon!vars, Recon!Lookup, Recon!Abandon, Recon!TypeOK

\* ReconciliationInv holds in every state of the evidence ledger.
THEOREM ReconciliationInvariant == Recon!Spec => []Recon!ReconciliationInv
<1> USE ReconciliationAssumption
<1>1. Recon!Init => Recon!ReconciliationInv
  BY DEF Recon!Init, Recon!ReconciliationInv, Recon!TypeOK, Recon!TombstoneFirst,
         Recon!UnblockedByProof, Recon!OneContentPerRevision
<1>2. Recon!ReconciliationInv /\ [Recon!Next]_(Recon!vars) => Recon!ReconciliationInv'
  BY ReconciliationStep
<1> QED BY <1>1, <1>2, PTL DEF Recon!Spec

\* Exposure is unblocked by an accepted complete resolution only, and no
\* revision has two contents, in whatever order evidence is recorded.
THEOREM ExposureIsUnblockedByProof == Recon!Spec => []ReconciliationHolds
<1> USE ReconciliationAssumption
<1>1. Recon!ReconciliationInv => ReconciliationHolds
  BY DEF Recon!ReconciliationInv, ReconciliationHolds, Recon!ReconciliationHolds
<1> QED BY <1>1, ReconciliationInvariant, PTL

\* Evidence that arrives late or twice moves no tombstone back.
THEOREM ResolutionsAreFinal == Recon!Spec => Recon!NoRegression
<1> USE ReconciliationAssumption
<1> DEFINE Goal == tomb # Nil =>
             /\ tomb.state = "RESOLVED" =>
                  /\ tomb'.state = "RESOLVED"
                  /\ tomb'.proof = tomb.proof
                  /\ tomb'.latest = tomb.latest
             /\ tomb.latest # Nil => tomb'.latest >= tomb.latest
             /\ tomb.integrity = "CONFLICT" => tomb'.integrity = "CONFLICT"
<1>1. ASSUME Recon!ReconciliationInv, [Recon!Next]_(Recon!vars), tomb # Nil PROVE Goal
  <2>1. tomb \in Recon!Tombs /\ tomb.latest \in Nat \cup {Nil}
    BY <1>1, TombFields DEF Recon!ReconciliationInv, Recon!TypeOK
  <2>2. CASE tomb' = tomb
    BY <2>1, <2>2
  <2>3. CASE tomb' = Recon!Conflicted(tomb)
    <3>1. /\ tomb'.state = tomb.state /\ tomb'.latest = tomb.latest /\ tomb'.proof = tomb.proof
          /\ tomb'.integrity = "CONFLICT"
      BY <2>1, <2>3, ConflictedTomb
    <3> QED BY <2>1, <3>1 DEF Recon!ReconciliationConstants
  <2>4. ASSUME NEW p \in Recorder, Recon!Record(p) PROVE Goal
    <3> DEFINE e == lookup[p]
    <3>1. /\ e \in Evidence
          /\ \/ tomb' = tomb
             \/ /\ tomb' = Recon!Advanced(e, tomb) /\ tomb.state = "UNRESOLVED"
                /\ tomb.latest # Nil => Revision[e] >= tomb.latest
      BY <1>1, <2>4, RecordEffect
    <3> HIDE DEF e
    <3>2. CASE /\ tomb' = Recon!Advanced(e, tomb) /\ tomb.state = "UNRESOLVED"
               /\ tomb.latest # Nil => Revision[e] >= tomb.latest
      <4>1. tomb'.latest = Revision[e] /\ tomb'.integrity = tomb.integrity
        BY <2>1, <3>1, <3>2, AdvancedTomb
      <4> QED BY <3>1, <3>2, <4>1
    <3> QED BY <2>2, <3>1, <3>2
  <2> QED BY <1>1, <2>2, <2>3, <2>4 DEF Recon!Next, Recon!vars, Recon!ChangedIdentity,
             Recon!Lookup, Recon!MarkConflict, Recon!Abandon
<1>2. Recon!ReconciliationInv /\ [Recon!Next]_(Recon!vars) => Goal
  BY <1>1
<1> QED BY <1>2, ReconciliationInvariant, PTL DEF Recon!Spec, Recon!NoRegression

-----------------------------------------------------------------------------
(***************************************************************************)
(* The synchronisation with Set                                            *)
(***************************************************************************)
\* The columns of the cycle's row.
LEMMA RowFields ==
  ASSUME Sync!SyncConstants, NEW r \in Sync!Rows
  PROVE  /\ r.last \in Nat /\ r.terminal \in Int /\ r.placement \in Int
         /\ r.terminal \in Nat \cup {-1} /\ r.placement \in Nat \cup {-1}
         /\ r.stoppedBy \in Event \cup {Nil} /\ r.placedBy \in Event \cup {Nil}
         /\ r.payload \in Event
BY DEF Sync!Rows, Sync!Null

\* _upsert_terminal
LEMMA UpsertedTerminal ==
  ASSUME Sync!SyncConstants, NEW r \in Sync!Rows, NEW e \in Event
  PROVE  /\ Sync!UpsertTerminal(e, r) \in Sync!Rows
         /\ Sync!UpsertTerminal(e, r).last = Sync!Greatest(r.last, RevOf[e])
         /\ Sync!UpsertTerminal(e, r).terminal = Sync!Greatest(r.terminal, RevOf[e])
         /\ Sync!UpsertTerminal(e, r).placement = r.placement
         /\ Sync!UpsertTerminal(e, r).placedBy = r.placedBy
         /\ Sync!UpsertTerminal(e, r).stoppedBy = IF RevOf[e] >= r.terminal THEN e ELSE r.stoppedBy
         /\ Sync!UpsertTerminal(e, r).payload = IF RevOf[e] >= r.last THEN e ELSE r.payload
<1>1. /\ RevOf[e] \in Nat
      /\ Sync!Greatest(r.last, RevOf[e]) \in Nat /\ Sync!Greatest(r.terminal, RevOf[e]) \in Nat
  BY RowFields DEF Sync!SyncConstants, Sync!Greatest
<1> QED BY <1>1, RowFields DEF Sync!Rows, Sync!UpsertTerminal

\* _upsert_placed above the tombstone
LEMMA UpsertedPlaced ==
  ASSUME Sync!SyncConstants, NEW r \in Sync!Rows, NEW e \in Event,
         r.terminal = Sync!Null \/ RevOf[e] > r.terminal
  PROVE  /\ Sync!UpsertPlaced(e, r) \in Sync!Rows
         /\ Sync!UpsertPlaced(e, r).last = Sync!Greatest(r.last, RevOf[e])
         /\ Sync!UpsertPlaced(e, r).terminal = r.terminal
         /\ Sync!UpsertPlaced(e, r).placement = Sync!Greatest(r.placement, RevOf[e])
         /\ Sync!UpsertPlaced(e, r).placedBy = IF RevOf[e] >= r.placement THEN e ELSE r.placedBy
         /\ Sync!UpsertPlaced(e, r).stoppedBy = r.stoppedBy
         /\ Sync!UpsertPlaced(e, r).payload = IF RevOf[e] >= r.placement THEN e ELSE r.payload
<1>1. /\ RevOf[e] \in Nat
      /\ Sync!Greatest(r.last, RevOf[e]) \in Nat /\ Sync!Greatest(r.placement, RevOf[e]) \in Nat
  BY RowFields DEF Sync!SyncConstants, Sync!Greatest
<1>2. ~(r.terminal # Sync!Null /\ RevOf[e] <= r.terminal)
  BY <1>1, RowFields DEF Sync!Null
<1> QED BY <1>1, <1>2, RowFields DEF Sync!Rows, Sync!UpsertPlaced

\* publish_from_order_event leaves a row that summarises the outbox.
LEMMA PublishKeepsRow ==
  ASSUME Sync!SyncConstants, Sync!SyncInv, NEW p \in Publisher, Sync!Publish(p)
  PROVE  Sync!SyncInv'
<1> DEFINE e == publish[p]
<1>1. /\ e \in history /\ e \in Event /\ e # Nil /\ Sync!SyncEligible(e) /\ RevOf[e] \in Nat
      /\ outbox' = outbox \cup {e} /\ history' = history
      /\ publish' = [publish EXCEPT ![p] = Nil]
      /\ row' = IF row = Nil THEN Sync!FirstRow(e)
                ELSE IF Sync!Placed(e) THEN Sync!UpsertPlaced(e, row)
                ELSE Sync!UpsertTerminal(e, row)
  BY DEF Sync!Publish, Sync!SyncInv, Sync!TypeOK, Sync!RevisionsAgree, Sync!SyncConstants
<1> HIDE DEF e
<1>2. Sync!Terminal(e) <=> ~Sync!Placed(e)
  BY <1>1 DEF Sync!SyncEligible, Sync!Placed
<1>3. /\ outbox' \subseteq history' /\ history' \subseteq Event /\ outbox \subseteq Event
      /\ publish' \in [Publisher -> history' \cup {Nil}]
      /\ \A q \in Publisher : publish'[q] # Nil => Sync!SyncEligible(publish'[q])
  BY <1>1 DEF Sync!SyncInv, Sync!TypeOK, Sync!RevisionsAgree
<1>4. \A f \in outbox : RevOf[f] \in Nat
  BY <1>3 DEF Sync!SyncConstants
<1> SUFFICES /\ row' \in Sync!Rows /\ row'.last = Sync!Greatest(row'.terminal, row'.placement)
             /\ Sync!RowSummarisesOutbox'
  BY <1>3 DEF Sync!SyncInv, Sync!TypeOK, Sync!RevisionsAgree
<1>5. CASE row = Nil
  <2>1. row' = Sync!FirstRow(e) /\ outbox = {}
    BY <1>1, <1>5 DEF Sync!SyncInv, Sync!RowSummarisesOutbox
  <2>2. /\ row' \in Sync!Rows /\ row'.last = RevOf[e]
        /\ row'.terminal = (IF Sync!Terminal(e) THEN RevOf[e] ELSE -1)
        /\ row'.stoppedBy = (IF Sync!Terminal(e) THEN e ELSE Nil)
        /\ row'.placement = (IF Sync!Placed(e) THEN RevOf[e] ELSE -1)
        /\ row'.placedBy = (IF Sync!Placed(e) THEN e ELSE Nil)
        /\ row'.payload = e
    BY <1>1, <2>1 DEF Sync!FirstRow, Sync!Rows, Sync!Null
  <2>3. row' # Nil
    BY <2>2 DEF Sync!SyncConstants
  <2> QED BY <1>1, <1>2, <2>1, <2>2, <2>3 DEF Sync!RowSummarisesOutbox, Sync!Greatest, Sync!Null
<1> SUFFICES ASSUME row # Nil
             PROVE  /\ row' \in Sync!Rows /\ row'.last = Sync!Greatest(row'.terminal, row'.placement)
                    /\ Sync!RowSummarisesOutbox'
  BY <1>5
<1>6. /\ row \in Sync!Rows /\ row.last \in Nat /\ row.terminal \in Int /\ row.placement \in Int
      /\ row.last = Sync!Greatest(row.terminal, row.placement)
      /\ row.terminal \in Nat \cup {-1} /\ row.placement \in Nat \cup {-1}
  BY RowFields DEF Sync!SyncInv, Sync!TypeOK, Sync!RevisionsAgree
<1>7. /\ \A f \in outbox :
            /\ RevOf[f] <= row.last
            /\ Sync!Terminal(f) => RevOf[f] <= row.terminal
            /\ Sync!Placed(f) /\ RevOf[f] > row.placement
                 => row.terminal # -1 /\ RevOf[f] <= row.terminal
      /\ row.stoppedBy # Nil => row.stoppedBy \in outbox /\ RevOf[row.stoppedBy] = row.terminal
      /\ row.placedBy # Nil => row.placedBy \in outbox /\ RevOf[row.placedBy] = row.placement
      /\ row.payload \in outbox /\ RevOf[row.payload] = row.last
  BY DEF Sync!SyncInv, Sync!RowSummarisesOutbox, Sync!Null
<1>8. CASE ~Sync!Placed(e)
  <2>1. row' = Sync!UpsertTerminal(e, row)
    BY <1>1, <1>8
  <2>2. /\ row' \in Sync!Rows /\ row'.last = Sync!Greatest(row.last, RevOf[e])
        /\ row'.terminal = Sync!Greatest(row.terminal, RevOf[e])
        /\ row'.placement = row.placement /\ row'.placedBy = row.placedBy
        /\ row'.stoppedBy = (IF RevOf[e] >= row.terminal THEN e ELSE row.stoppedBy)
        /\ row'.payload = (IF RevOf[e] >= row.last THEN e ELSE row.payload)
    BY <1>1, <1>6, <2>1, UpsertedTerminal
  <2>3. row' # Nil
    BY <2>2 DEF Sync!SyncConstants
  <2>4. row'.last = Sync!Greatest(row'.terminal, row'.placement)
    BY <1>1, <1>6, <2>2 DEF Sync!Greatest
  <2>5. \A f \in outbox' :
          /\ RevOf[f] <= row'.last
          /\ Sync!Terminal(f) => RevOf[f] <= row'.terminal
          /\ Sync!Placed(f) /\ RevOf[f] > row'.placement
               => row'.terminal # -1 /\ RevOf[f] <= row'.terminal
    BY <1>1, <1>2, <1>4, <1>6, <1>7, <1>8, <2>2 DEF Sync!Greatest
  <2>6. /\ row'.stoppedBy # Nil => row'.stoppedBy \in outbox' /\ RevOf[row'.stoppedBy] = row'.terminal
        /\ row'.placedBy # Nil => row'.placedBy \in outbox' /\ RevOf[row'.placedBy] = row'.placement
        /\ row'.payload \in outbox' /\ RevOf[row'.payload] = row'.last
    BY <1>1, <1>6, <1>7, <2>2 DEF Sync!Greatest
  <2> QED BY <2>2, <2>3, <2>4, <2>5, <2>6 DEF Sync!RowSummarisesOutbox, Sync!Null
<1>9. CASE Sync!Placed(e) /\ row.terminal # -1 /\ RevOf[e] <= row.terminal
  <2>1. row' = row
    BY <1>1, <1>9 DEF Sync!UpsertPlaced, Sync!Null
  <2>2. RevOf[e] <= row.last
    BY <1>1, <1>6, <1>9 DEF Sync!Greatest
  <2> QED BY <1>1, <1>2, <1>6, <1>7, <1>9, <2>1, <2>2 DEF Sync!RowSummarisesOutbox, Sync!Null
<1>10. CASE Sync!Placed(e) /\ (row.terminal = -1 \/ RevOf[e] > row.terminal)
  <2>1. row' = Sync!UpsertPlaced(e, row)
    BY <1>1, <1>10
  <2>2. /\ row' \in Sync!Rows /\ row'.last = Sync!Greatest(row.last, RevOf[e])
        /\ row'.terminal = row.terminal /\ row'.stoppedBy = row.stoppedBy
        /\ row'.placement = Sync!Greatest(row.placement, RevOf[e])
        /\ row'.placedBy = (IF RevOf[e] >= row.placement THEN e ELSE row.placedBy)
        /\ row'.payload = (IF RevOf[e] >= row.placement THEN e ELSE row.payload)
    BY <1>1, <1>6, <1>10, <2>1, UpsertedPlaced DEF Sync!Null
  <2>3. row' # Nil
    BY <2>2 DEF Sync!SyncConstants
  <2>4. row'.last = Sync!Greatest(row'.terminal, row'.placement)
    BY <1>1, <1>6, <2>2 DEF Sync!Greatest
  <2>5. \A f \in outbox' :
          /\ RevOf[f] <= row'.last
          /\ Sync!Terminal(f) => RevOf[f] <= row'.terminal
          /\ Sync!Placed(f) /\ RevOf[f] > row'.placement
               => row'.terminal # -1 /\ RevOf[f] <= row'.terminal
    BY <1>1, <1>2, <1>4, <1>6, <1>7, <1>10, <2>2 DEF Sync!Greatest
  <2>6. /\ row'.stoppedBy # Nil => row'.stoppedBy \in outbox' /\ RevOf[row'.stoppedBy] = row'.terminal
        /\ row'.placedBy # Nil => row'.placedBy \in outbox' /\ RevOf[row'.placedBy] = row'.placement
        /\ row'.payload \in outbox' /\ RevOf[row'.payload] = row'.last
    BY <1>1, <1>6, <1>7, <1>10, <2>2 DEF Sync!Greatest
  <2> QED BY <2>2, <2>3, <2>4, <2>5, <2>6 DEF Sync!RowSummarisesOutbox, Sync!Null
<1> QED BY <1>1, <1>6, <1>8, <1>9, <1>10

\* Every step of the synchronisation keeps its invariant.
LEMMA SyncStep ==
  ASSUME Sync!SyncConstants, Sync!SyncInv, [Sync!Next]_(Sync!vars)
  PROVE  Sync!SyncInv'
<1> USE DEF Sync!SyncInv, Sync!TypeOK
<1>1. ASSUME NEW e \in Event, Sync!RecordEvent(e) PROVE Sync!SyncInv'
  BY <1>1 DEF Sync!RecordEvent, Sync!RevisionsAgree, Sync!RowSummarisesOutbox
<1>2. ASSUME NEW p \in Publisher, NEW e \in Event, Sync!ReadRow(p, e) PROVE Sync!SyncInv'
  BY <1>2 DEF Sync!ReadRow, Sync!RevisionsAgree, Sync!RowSummarisesOutbox
<1>3. ASSUME NEW p \in Publisher, Sync!Publish(p) PROVE Sync!SyncInv'
  BY <1>3, PublishKeepsRow
<1>4. ASSUME NEW p \in Publisher, Sync!Rollback(p) PROVE Sync!SyncInv'
  BY <1>4 DEF Sync!Rollback, Sync!RevisionsAgree, Sync!RowSummarisesOutbox
<1>5. CASE UNCHANGED Sync!vars
  BY <1>5 DEF Sync!vars, Sync!RevisionsAgree, Sync!RowSummarisesOutbox
<1> QED BY <1>1, <1>2, <1>3, <1>4, <1>5 DEF Sync!Next

\* The row agrees with the outbox in every state of the synchronisation.
THEOREM SyncInvariant == Sync!Spec => []Sync!SyncInv
<1> USE SyncAssumption
<1>1. Sync!Init => Sync!SyncInv
  BY DEF Sync!Init, Sync!SyncInv, Sync!TypeOK, Sync!RevisionsAgree, Sync!RowSummarisesOutbox
<1>2. Sync!SyncInv /\ [Sync!Next]_(Sync!vars) => Sync!SyncInv'
  BY SyncStep
<1> QED BY <1>1, <1>2, PTL DEF Sync!Spec

\* The tombstone holds in the row, however old the read that let a placement
\* through.
THEOREM TombstonesHold == Sync!Spec => Sync!TombstoneHolds
<1> USE SyncAssumption
<1> DEFINE Goal == row # Nil =>
             /\ row'.last >= row.last
             /\ row'.terminal >= row.terminal
             /\ row'.placement >= row.placement
             /\ row'.placement # row.placement /\ row.terminal # Sync!Null
                  => row'.placement > row.terminal
<1>1. ASSUME Sync!SyncInv, [Sync!Next]_(Sync!vars), row # Nil PROVE Goal
  <2>1. /\ row \in Sync!Rows /\ row.last \in Nat /\ row.terminal \in Int /\ row.placement \in Int
        /\ row.terminal \in Nat \cup {-1} /\ row.placement \in Nat \cup {-1}
    BY <1>1, RowFields DEF Sync!SyncInv, Sync!TypeOK
  <2>2. CASE row' = row
    BY <2>1, <2>2
  <2>3. ASSUME NEW p \in Publisher, Sync!Publish(p) PROVE Goal
    <3> DEFINE e == publish[p]
    <3>1. /\ e \in Event /\ RevOf[e] \in Nat
          /\ row' = IF Sync!Placed(e) THEN Sync!UpsertPlaced(e, row) ELSE Sync!UpsertTerminal(e, row)
      BY <1>1, <2>3 DEF Sync!Publish, Sync!SyncInv, Sync!TypeOK, Sync!SyncConstants
    <3> HIDE DEF e
    <3>2. CASE ~Sync!Placed(e)
      <4>1. /\ row'.last = Sync!Greatest(row.last, RevOf[e])
            /\ row'.terminal = Sync!Greatest(row.terminal, RevOf[e])
            /\ row'.placement = row.placement
        BY <2>1, <3>1, <3>2, UpsertedTerminal
      <4> QED BY <2>1, <3>1, <4>1 DEF Sync!Greatest
    <3>3. CASE Sync!Placed(e) /\ row.terminal # -1 /\ RevOf[e] <= row.terminal
      BY <2>2, <3>1, <3>3 DEF Sync!UpsertPlaced, Sync!Null
    <3>4. CASE Sync!Placed(e) /\ (row.terminal = -1 \/ RevOf[e] > row.terminal)
      <4>1. /\ row'.last = Sync!Greatest(row.last, RevOf[e])
            /\ row'.terminal = row.terminal
            /\ row'.placement = Sync!Greatest(row.placement, RevOf[e])
        BY <2>1, <3>1, <3>4, UpsertedPlaced DEF Sync!Null
      <4> QED BY <2>1, <3>1, <3>4, <4>1 DEF Sync!Greatest, Sync!Null
    <3> QED BY <2>1, <3>1, <3>2, <3>3, <3>4
  <2> QED BY <1>1, <2>2, <2>3 DEF Sync!Next, Sync!vars, Sync!RecordEvent, Sync!ReadRow, Sync!Rollback
<1>2. Sync!SyncInv /\ [Sync!Next]_(Sync!vars) => Goal
  BY <1>1
<1> QED BY <1>2, SyncInvariant, PTL DEF Sync!Spec, Sync!TombstoneHolds

-----------------------------------------------------------------------------
(***************************************************************************)
(* The pending entry monitor, composed with the synchronisation            *)
(***************************************************************************)
\* _persist_signal writes a record and its message together, or neither.
LEMMA SignalPersists ==
  ASSUME Sync!MonitorConstants, Sync!MonitorTypeOK, Sync!SignalAndMessageAgree,
         NEW c \in Sync!Cause, NEW q \in Sync!Evaluations, Sync!PersistSignal(c, q)
  PROVE  /\ signals' \in [Sync!Cause -> Sync!Contents \cup {Nil}]
         /\ Sync!SignalAndMessageAgree'
         /\ \A d \in Sync!Cause : signals[d] # Nil => signals'[d] # Nil
<1>1. Sync!Content(q) \in Sync!Contents /\ Sync!Content(q) # Nil
  BY DEF Sync!Content, Sync!Contents, Sync!Evaluations, Sync!MonitorConstants
<1>2. /\ signals[c] = Nil \/ signals[c] = Sync!Content(q)
      /\ signals' = [signals EXCEPT ![c] = Sync!Content(q)]
      /\ cancels' = cancels \cup {Sync!Message(c, Sync!Content(q))}
  BY DEF Sync!PersistSignal
<1>3. signals \in [Sync!Cause -> Sync!Contents \cup {Nil}]
  BY DEF Sync!MonitorTypeOK
<1>4. Sync!SignalAndMessageAgree'
  <2>1. {d \in Sync!Cause : signals'[d] # Nil} = {d \in Sync!Cause : signals[d] # Nil} \cup {c}
    BY <1>1, <1>2, <1>3
  <2>2. \A d \in Sync!Cause : signals[d] # Nil => signals'[d] = signals[d]
    BY <1>1, <1>2, <1>3
  <2>3. signals'[c] = Sync!Content(q)
    BY <1>2, <1>3
  <2> QED BY <1>2, <2>1, <2>2, <2>3 DEF Sync!SignalAndMessageAgree
<1> QED BY <1>1, <1>2, <1>3, <1>4

\* _existing_unavailable_result appends the message of the record again.
LEMMA RequirementJoins ==
  ASSUME Sync!MonitorTypeOK, Sync!SignalAndMessageAgree, NEW v \in Evaluator,
         Sync!JoinUnavailable(v)
  PROVE  cancels' = cancels /\ UNCHANGED signals
<1>1. Sync!Unavailable \in Sync!Cause
  BY DEF Sync!Cause
<1>2. Sync!Message(Sync!Unavailable, signals[Sync!Unavailable]) \in cancels
  BY <1>1 DEF Sync!JoinUnavailable, Sync!SignalAndMessageAgree
<1> QED BY <1>2 DEF Sync!JoinUnavailable

\* Every step of the monitor keeps its invariant.
LEMMA MonitorStep ==
  ASSUME Sync!SyncConstants, Sync!MonitorConstants, Sync!MonitorInv,
         [Sync!MonitorNext]_(Sync!allvars)
  PROVE  Sync!MonitorInv'
<1> USE DEF Sync!MonitorInv
<1> DEFINE Watch == Sync!MonitorTypeOK /\ Sync!SignalAndMessageAgree /\ Sync!JoinedIsNotChecked
<1>1. Sync!Unavailable \in Sync!Cause
  BY DEF Sync!Cause
<1>2. CASE Sync!Next /\ UNCHANGED Sync!mvars
  <2>1. Sync!SyncInv'
    BY <1>2, SyncStep
  <2> QED BY <1>2, <2>1 DEF Sync!mvars, Sync!MonitorTypeOK, Sync!SignalAndMessageAgree,
                            Sync!JoinedIsNotChecked
<1>3. ASSUME UNCHANGED Sync!vars PROVE Sync!SyncInv'
  BY <1>3, SyncStep
<1>4. ASSUME NEW v \in Evaluator, eval' = [eval EXCEPT ![v] = Nil], UNCHANGED <<frozen, signals, cancels>>
      PROVE  Watch'
  BY <1>4 DEF Sync!MonitorTypeOK, Sync!SignalAndMessageAgree, Sync!JoinedIsNotChecked
<1>5. ASSUME NEW s \in Observation, NEW p \in Sync!Placement, NEW t \in Sync!TerminalMessage,
             Sync!StopMonitor(s, p, t)
      PROVE  Sync!MonitorInv'
  BY <1>3, <1>5 DEF Sync!StopMonitor, Sync!MonitorTypeOK, Sync!SignalAndMessageAgree,
                    Sync!JoinedIsNotChecked
<1>6. ASSUME NEW s \in Observation, NEW p \in Sync!Placement, NEW t \in Sync!TerminalMessage,
             NEW v \in Evaluator, NEW own \in BOOLEAN, Sync!Begin(v, s, p, t, own)
      PROVE  Sync!MonitorInv'
  <2> DEFINE b == signals[Sync!Unavailable] # Nil
             q == [src |-> s, placement |-> p, mine |-> own, checked |-> FALSE, joined |-> b]
  <2>1. p \in Event \cup {Nil} /\ b \in BOOLEAN
    BY DEF Sync!Placement, Sync!SyncInv, Sync!TypeOK
  <2>2. eval' = [eval EXCEPT ![v] = q]
        /\ UNCHANGED <<Sync!vars, frozen, tombstone, ticks, signals, cancels>>
    BY <1>6 DEF Sync!Begin
  <2>3. q.joined = b /\ q.checked = FALSE
    OBVIOUS
  <2> HIDE DEF b
  <2>4. q \in Sync!Evaluations
    BY <2>1 DEF Sync!Evaluations
  <2> HIDE DEF q
  <2>5. Sync!MonitorTypeOK'
    BY <2>2, <2>4 DEF Sync!MonitorTypeOK
  <2>6. Sync!JoinedIsNotChecked'
    BY <2>2, <2>3, <2>4 DEF Sync!JoinedIsNotChecked, Sync!MonitorTypeOK, b
  <2> QED BY <1>3, <2>2, <2>5, <2>6 DEF Sync!SignalAndMessageAgree
<1>7. ASSUME NEW v \in Evaluator, eval[v] # Nil, NEW c \in Sync!Cause, Sync!PersistSignal(c, eval[v]),
             Sync!End(v), UNCHANGED <<Sync!vars, frozen>>
      PROVE  Sync!MonitorInv'
  <2>1. eval[v] \in Sync!Evaluations
    BY <1>7 DEF Sync!MonitorTypeOK
  <2>2. /\ signals' \in [Sync!Cause -> Sync!Contents \cup {Nil}]
        /\ Sync!SignalAndMessageAgree'
        /\ \A d \in Sync!Cause : signals[d] # Nil => signals'[d] # Nil
    BY <1>7, <2>1, SignalPersists
  <2>3. eval' = [eval EXCEPT ![v] = Nil]
    BY <1>7 DEF Sync!End
  <2>4. Sync!MonitorTypeOK'
    BY <1>7, <2>2, <2>3 DEF Sync!MonitorTypeOK
  <2>5. Sync!JoinedIsNotChecked'
    BY <1>1, <2>2, <2>3 DEF Sync!JoinedIsNotChecked, Sync!MonitorTypeOK
  <2> QED BY <1>3, <1>7, <2>2, <2>4, <2>5
<1>8. ASSUME NEW v \in Evaluator, Sync!JoinUnavailable(v) PROVE Sync!MonitorInv'
  <2>1. UNCHANGED <<Sync!vars, frozen, signals, cancels>> /\ eval' = [eval EXCEPT ![v] = Nil]
    BY <1>8, RequirementJoins DEF Sync!JoinUnavailable, Sync!End
  <2> QED BY <1>3, <1>4, <2>1
<1>9. ASSUME NEW v \in Evaluator, Sync!RetainUnbound(v) \/ Sync!KeepValid(v) \/ Sync!Abort(v)
      PROVE  Sync!MonitorInv'
  <2>1. UNCHANGED <<Sync!vars, frozen, signals, cancels>> /\ eval' = [eval EXCEPT ![v] = Nil]
    BY <1>9 DEF Sync!RetainUnbound, Sync!KeepValid, Sync!Abort, Sync!End
  <2> QED BY <1>3, <1>4, <2>1
<1>10. ASSUME NEW v \in Evaluator, Sync!Invalidate(v) PROVE Sync!MonitorInv'
  <2>1. PICK i \in DOMAIN Conditions : Sync!PersistSignal(Conditions[i], eval[v])
    BY <1>10 DEF Sync!Invalidate, Sync!FirstTrue
  <2>2. Conditions[i] \in Sync!Cause
    BY <2>1 DEF Sync!Cause, Sync!Condition
  <2>3. eval[v] # Nil
    BY <1>10 DEF Sync!Invalidate, Sync!Bound
  <2> QED BY <1>7, <1>10, <2>1, <2>2, <2>3 DEF Sync!Invalidate
<1>11. ASSUME NEW v \in Evaluator, Sync!CheckUnavailable(v) PROVE Sync!MonitorInv'
  <2>1. CASE Sync!JoinUnavailable(v)
    BY <1>8, <2>1
  <2>2. CASE ~Sync!JoinUnavailable(v)
    <3> DEFINE q == [eval[v] EXCEPT !.checked = TRUE]
    <3>1. /\ signals[Sync!Unavailable] = Nil /\ eval' = [eval EXCEPT ![v] = q] /\ eval[v] # Nil
          /\ UNCHANGED <<Sync!vars, frozen, tombstone, ticks, signals, cancels>>
      BY <1>11, <2>2 DEF Sync!CheckUnavailable, Sync!Bound
    <3>2. eval[v] \in Sync!Evaluations
      BY <3>1 DEF Sync!MonitorTypeOK
    <3>3. q \in Sync!Evaluations /\ q.joined = eval[v].joined
      BY <3>2 DEF Sync!Evaluations
    <3> HIDE DEF q
    <3>4. Sync!MonitorTypeOK'
      BY <3>1, <3>3 DEF Sync!MonitorTypeOK
    <3>5. Sync!JoinedIsNotChecked'
      BY <3>1, <3>3 DEF Sync!JoinedIsNotChecked, Sync!MonitorTypeOK
    <3> QED BY <1>3, <3>1, <3>4, <3>5 DEF Sync!SignalAndMessageAgree
  <2> QED BY <2>1, <2>2
<1>12. ASSUME NEW v \in Evaluator, Sync!RequireUnavailable(v) PROVE Sync!MonitorInv'
  BY <1>1, <1>7, <1>8, <1>12 DEF Sync!RequireUnavailable
<1>13. CASE UNCHANGED Sync!allvars
  BY <1>3, <1>13 DEF Sync!allvars, Sync!mvars, Sync!MonitorTypeOK, Sync!SignalAndMessageAgree,
                     Sync!JoinedIsNotChecked
<1> QED BY <1>2, <1>5, <1>6, <1>9, <1>10, <1>11, <1>12, <1>13 DEF Sync!MonitorNext

\* MonitorInv holds in every state of the monitor and the synchronisation.
THEOREM MonitorInvariant == Sync!MonitorSpec => []Sync!MonitorInv
<1> USE SyncAssumption, MonitorAssumption
<1>1. Sync!MonitorInit => Sync!MonitorInv
  BY DEF Sync!MonitorInit, Sync!Init, Sync!WatchInit, Sync!MonitorInv, Sync!SyncInv, Sync!TypeOK,
         Sync!RevisionsAgree, Sync!RowSummarisesOutbox, Sync!MonitorTypeOK,
         Sync!SignalAndMessageAgree, Sync!JoinedIsNotChecked
<1>2. Sync!MonitorInv /\ [Sync!MonitorNext]_(Sync!allvars) => Sync!MonitorInv'
  BY MonitorStep
<1> QED BY <1>1, <1>2, PTL DEF Sync!MonitorSpec

\* What Set and Lifecycle tell each other is what they recorded, for any
\* publishers, evaluators, evidence and frozen conditions.
THEOREM SetIsToldTheTruth == Sync!MonitorSpec => []SetIsTold
<1> USE SyncAssumption, MonitorAssumption
<1>1. Sync!MonitorInv => SetIsTold
  BY DEF Sync!MonitorInv, Sync!SyncInv, SetIsTold, Sync!SetIsTold
<1> QED BY <1>1, MonitorInvariant, PTL

\* Recovered evidence withdraws no requirement: an evaluation that began
\* after it was raised records nothing as valid.
THEOREM RequirementsSurvive == Sync!MonitorSpec => Sync!RequirementSurvivesRecovery
<1> USE SyncAssumption, MonitorAssumption
<1> DEFINE Valid(T) == {t \in T : t.kind = "valid"}
           Goal(v) == eval[v] # Nil /\ eval[v].joined /\ eval'[v] = Nil
                        => Valid(ticks') = Valid(ticks)
<1>1. ASSUME Sync!MonitorInv, [Sync!MonitorNext]_(Sync!allvars), NEW v \in Evaluator,
             eval[v] # Nil, eval[v].joined, eval'[v] = Nil
      PROVE  Valid(ticks') = Valid(ticks)
  <2>1. CASE UNCHANGED ticks
    BY <2>1
  <2>2. ASSUME NEW w \in Evaluator, Sync!KeepValid(w) PROVE FALSE
    <3>1. w = v
      BY <1>1, <2>2 DEF Sync!KeepValid, Sync!End, Sync!MonitorInv, Sync!MonitorTypeOK
    <3> QED BY <1>1, <2>2, <3>1 DEF Sync!KeepValid, Sync!MonitorInv, Sync!JoinedIsNotChecked
  <2>3. ASSUME NEW w \in Evaluator, Sync!RetainUnbound(w) PROVE Valid(ticks') = Valid(ticks)
    <3>1. PICK kind \in {"deferred", "activation-invalid"} : Sync!PutTick(kind, eval[w])
      BY <2>3 DEF Sync!RetainUnbound
    <3>2. PICK tick : tick.kind = kind /\ ticks' = ticks \cup {tick}
      BY <3>1 DEF Sync!PutTick
    <3> QED BY <3>1, <3>2
  <2> QED BY <1>1, <2>1, <2>2, <2>3 DEF Sync!MonitorNext, Sync!allvars, Sync!mvars, Sync!StopMonitor,
             Sync!Begin, Sync!Invalidate, Sync!CheckUnavailable, Sync!RequireUnavailable,
             Sync!JoinUnavailable, Sync!Abort
<1>2. Sync!MonitorInv /\ [Sync!MonitorNext]_(Sync!allvars) => \A v \in Evaluator : Goal(v)
  BY <1>1
<1> QED BY <1>2, MonitorInvariant, PTL DEF Sync!MonitorSpec, Sync!RequirementSurvivesRecovery
=============================================================================
