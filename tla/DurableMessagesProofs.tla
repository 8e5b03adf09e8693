------------------------ MODULE DurableMessagesProofs ------------------------
(***************************************************************************)
(* Proofs about the durable transport for any number of workers, messages, *)
(* consumers and faults.                                                   *)
(***************************************************************************)
EXTENDS DurableMessages, TLAPS

\* The cycle index stays inside Consumers when a cycle moves to the next one.
LEMMA NextTurnType ==
    ASSUME TypeOK, NEW w \in Worker
    PROVE  NextTurn(w) \in 1..Len(Consumers)
  BY ConstantsAssumption DEF NextTurn, TypeOK, ConstantsAssumption

\* Every step keeps every table column and every worker register in its type.
LEMMA TypeStep == TypeOK /\ [Next]_vars => TypeOK'
<1> SUFFICES ASSUME TypeOK, [Next]_vars PROVE TypeOK'
  OBVIOUS
<1> USE ConstantsAssumption DEF ConstantsAssumption, TypeOK, OutboxStatus, Control,
        outbox, owner, tx, cycle
<1>1. ASSUME NEW m \in Message, AppendOutbox(m) PROVE TypeOK'
  BY <1>1 DEF AppendOutbox
<1>2. ASSUME NEW m \in Message, BecomesDue(m) PROVE TypeOK'
  BY <1>2 DEF BecomesDue
<1>3. ASSUME NEW m \in Message, LeaseLapses(m) PROVE TypeOK'
  BY <1>3 DEF LeaseLapses
<1>4. ASSUME NEW w \in Worker, StartWorker(w) PROVE TypeOK'
  BY <1>4 DEF StartWorker
<1>5. ASSUME NEW w \in Worker, ClaimOutbox(w) PROVE TypeOK'
  <2> DEFINE c == Consumers[turn[w]]
             claimed == FirstByCreation(Eligible(c), ClaimLimitFor(c))
  <2>1. claimed \in SUBSET Message
    BY DEF FirstByCreation, Eligible
  <2>2. NextTurn(w) \in 1..Len(Consumers)
    BY NextTurnType
  <2> HIDE DEF claimed
  <2>3. /\ status'    = [m \in Message |-> IF m \in claimed THEN "IN_FLIGHT" ELSE status[m]]
        /\ lockedBy'  = [m \in Message |-> IF m \in claimed THEN w ELSE lockedBy[m]]
        /\ leaseLive' = [m \in Message |-> m \in claimed \/ leaseLive[m]]
        /\ batch'     = [batch EXCEPT ![w] = claimed]
        /\ pc'        = [pc EXCEPT ![w] = IF claimed = {} THEN "poll" ELSE "claimed"]
        /\ turn'      = [turn EXCEPT ![w] = IF claimed = {} THEN NextTurn(w) ELSE turn[w]]
        /\ UNCHANGED <<due, owner, tx, faults>>
    BY <1>5 DEF ClaimOutbox, claimed
  <2> QED
    BY <2>1, <2>2, <2>3
<1>6. ASSUME NEW w \in Worker, NEW m \in Message, BeginDispatch(w, m) PROVE TypeOK'
  BY <1>6 DEF BeginDispatch
<1>7. ASSUME NEW w \in Worker, RecordInbox(w) PROVE TypeOK'
  BY <1>7 DEF RecordInbox
<1>8. ASSUME NEW w \in Worker, RunHandler(w) PROVE TypeOK'
  BY <1>8 DEF RunHandler
<1>9. ASSUME NEW w \in Worker, Abandon(w), faults' \in 0..MaxFaults PROVE TypeOK'
  BY <1>9 DEF Abandon, EndTx
<1>10. ASSUME NEW w \in Worker, Ack(w) PROVE TypeOK'
  <2>1. NextTurn(w) \in 1..Len(Consumers)
    BY NextTurnType
  <2>2. effects' \in [Message -> Nat]
    <3>1. effects' = [effects EXCEPT ![cur[w]] =
                        IF replay[w] THEN effects[cur[w]] ELSE effects[cur[w]] + 1]
      BY <1>10 DEF Ack
    <3>2. CASE replay[w]
      BY <3>1, <3>2
    <3>3. CASE ~replay[w] /\ cur[w] \in Message
      <4>1. effects[cur[w]] + 1 \in Nat
        BY <3>3
      <4> QED
        BY <3>1, <3>3, <4>1
    <3>4. CASE cur[w] \notin Message
      BY <3>1, <3>4
    <3> QED
      BY <3>2, <3>3, <3>4
  <2>3. /\ inbox' \in [Message -> {"NONE", "PROCESSED"}]
        /\ status' \in [Message -> OutboxStatus]
        /\ leaseLive' \in [Message -> BOOLEAN]
        /\ lockedBy' \in [Message -> Worker \cup {NoWorker}]
        /\ due' \in [Message -> BOOLEAN]
    BY <1>10 DEF Ack
  <2>4. batch' \in [Worker -> SUBSET Message]
    BY <1>10 DEF Ack
  <2>5. pc' \in [Worker -> Control] /\ turn' \in [Worker -> 1..Len(Consumers)]
    BY <1>10, <2>1 DEF Ack
  <2>6. /\ cur' \in [Worker -> Message \cup {NoMessage}]
        /\ replay' \in [Worker -> BOOLEAN]
        /\ txLive' \in [Worker -> BOOLEAN]
        /\ guardOk' \in [Worker -> BOOLEAN]
        /\ faults' \in 0..MaxFaults
    BY <1>10 DEF Ack, EndTx
  <2> QED
    BY <2>2, <2>3, <2>4, <2>5, <2>6
<1>11. ASSUME NEW w \in Worker, RenewLost(w) PROVE TypeOK'
  BY <1>11 DEF RenewLost
<1>12. ASSUME NEW w \in Worker, Crash(w) PROVE TypeOK'
  BY <1>12, <1>9 DEF Crash
<1>13. ASSUME NEW w \in Worker, HandlerBlocked(w) \/ AckRefused(w) PROVE TypeOK'
  BY <1>13, <1>9 DEF HandlerBlocked, AckRefused
<1>14. CASE UNCHANGED vars
  BY <1>14 DEF vars
<1> QED
  BY <1>1, <1>2, <1>3, <1>4, <1>5, <1>6, <1>7, <1>8, <1>10, <1>11, <1>12, <1>13, <1>14
  DEF Next, WorkerStep

\* Type correctness of the outbox, inbox and worker state (durable_messages.py
\* tables and TargetTradingWorker), for every instance.
THEOREM TypeCorrect == Spec => []TypeOK
<1>1. Init => TypeOK
  BY ConstantsAssumption DEF ConstantsAssumption, Init, TypeOK, OutboxStatus, Control
<1> QED
  BY <1>1, TypeStep, PTL DEF Spec

-----------------------------------------------------------------------------
(* The inductive invariant, one step per action *)

\* No step outside a commit can break what the open transactions rely on, and
\* a commit publishes the effect, the inbox row and CONSUMED together.
LEMMA DispatchStep == TypeOK /\ DispatchInv /\ [Next]_vars => DispatchInv'
<1> SUFFICES ASSUME TypeOK, DispatchInv, [Next]_vars PROVE DispatchInv'
  OBVIOUS
<1> USE DEF TypeOK, OutboxStatus, Control, outbox, owner, tx, cycle,
            InTx, HoldsInboxRow, HandlerReady, DispatchInv, EffectMatchesInbox,
            HeldWereAppended, SeenStillTrue, ConsumedIsFinal, HandlerExclusion
<1>1. ASSUME NEW m \in Message, AppendOutbox(m) PROVE DispatchInv'
  BY <1>1 DEF AppendOutbox
<1>2. ASSUME NEW m \in Message, BecomesDue(m) PROVE DispatchInv'
  BY <1>2 DEF BecomesDue
<1>3. ASSUME NEW m \in Message, LeaseLapses(m) PROVE DispatchInv'
  BY <1>3 DEF LeaseLapses
<1>4. ASSUME NEW w \in Worker, StartWorker(w) PROVE DispatchInv'
  BY <1>4 DEF StartWorker
<1>5. ASSUME NEW w \in Worker, ClaimOutbox(w) PROVE DispatchInv'
  <2> DEFINE c == Consumers[turn[w]]
             claimed == FirstByCreation(Eligible(c), ClaimLimitFor(c))
  <2>1. claimed \subseteq Message
        /\ \A m \in claimed : status[m] \in {"PENDING", "IN_FLIGHT"}
    BY DEF FirstByCreation, Eligible
  <2> HIDE DEF claimed
  <2>2. /\ pc[w] = "poll"
        /\ status'    = [m \in Message |-> IF m \in claimed THEN "IN_FLIGHT" ELSE status[m]]
        /\ leaseLive' = [m \in Message |-> m \in claimed \/ leaseLive[m]]
        /\ batch'     = [batch EXCEPT ![w] = claimed]
        /\ pc'        = [pc EXCEPT ![w] = IF claimed = {} THEN "poll" ELSE "claimed"]
        /\ UNCHANGED <<due, owner, tx, faults>>
    BY <1>5 DEF ClaimOutbox, claimed
  <2>3. \A m \in Message : (status'[m] = "ABSENT" <=> status[m] = "ABSENT")
                           /\ (status'[m] = "CONSUMED" <=> status[m] = "CONSUMED")
    BY <2>1, <2>2
  <2>4. \A v \in Worker : pc'[v] \in {"inbox", "handler", "ack"} => v # w /\ pc'[v] = pc[v]
    BY <2>2
  <2>5. EffectMatchesInbox'
    BY <2>2
  <2>6. HeldWereAppended'
    BY <2>1, <2>2, <2>3, <2>4
  <2>7. \A v \in Worker : pc'[v] # "ack" => ~replay'[v]
    BY <2>2
  <2>8. SeenStillTrue'
    BY <2>2, <2>3, <2>4, <2>7, ConstantsAssumption DEF ConstantsAssumption
  <2>9. ConsumedIsFinal'
    BY <2>1, <2>2, <2>3
  <2>10. HandlerExclusion'
    BY <2>2, <2>4
  <2> QED
    BY <2>5, <2>6, <2>8, <2>9, <2>10
<1>6. ASSUME NEW w \in Worker, NEW m \in Message, BeginDispatch(w, m) PROVE DispatchInv'
  BY <1>6 DEF BeginDispatch
<1>7. ASSUME NEW w \in Worker, RecordInbox(w) PROVE DispatchInv'
  <2>1. /\ pc[w] = "inbox"
        /\ \A v \in Worker : ~HoldsInboxRow(v, cur[w])
        /\ cur[w] \in Message
        /\ replay' = [replay EXCEPT ![w] = inbox[cur[w]] = "PROCESSED"]
        /\ pc' = [pc EXCEPT ![w] = IF inbox[cur[w]] = "PROCESSED" THEN "ack" ELSE "handler"]
        /\ UNCHANGED <<status, inbox, effects, leaseLive, batch, cur>>
    BY <1>7 DEF RecordInbox
  <2>2. EffectMatchesInbox' /\ ConsumedIsFinal' /\ HeldWereAppended'
    BY <2>1
  <2>3. CASE inbox[cur[w]] = "PROCESSED"
    <3>1. replay'[w] /\ pc'[w] = "ack" /\ \A v \in Worker \ {w} : pc'[v] = pc[v] /\ replay'[v] = replay[v]
      BY <2>1, <2>3
    <3>2. SeenStillTrue'
      BY <2>1, <2>3, <3>1
    <3>3. HandlerExclusion'
      BY <2>1, <3>1
    <3> QED
      BY <2>2, <3>2, <3>3
  <2>4. CASE inbox[cur[w]] # "PROCESSED"
    <3>1. ~replay'[w] /\ pc'[w] = "handler" /\ \A v \in Worker \ {w} : pc'[v] = pc[v] /\ replay'[v] = replay[v]
      BY <2>1, <2>4
    <3>2. SeenStillTrue'
      BY <2>1, <2>4, <3>1
    <3>3. HandlerExclusion'
      BY <2>1, <3>1
    <3> QED
      BY <2>2, <3>2, <3>3
  <2> QED
    BY <2>3, <2>4
<1>8. ASSUME NEW w \in Worker, RunHandler(w) PROVE DispatchInv'
  BY <1>8 DEF RunHandler
<1>9. ASSUME NEW w \in Worker, Abandon(w) PROVE DispatchInv'
  BY <1>9 DEF Abandon, EndTx
<1>10. ASSUME NEW w \in Worker, Ack(w) PROVE DispatchInv'
  BY <1>10 DEF Ack, EndTx
<1>11. ASSUME NEW w \in Worker, RenewLost(w) PROVE DispatchInv'
  BY <1>11 DEF RenewLost
<1>12. CASE UNCHANGED vars
  BY <1>12 DEF vars
<1> QED
  BY <1>1, <1>2, <1>3, <1>4, <1>5, <1>6, <1>7, <1>8, <1>9, <1>10, <1>11, <1>12
  DEF Next, WorkerStep, HandlerBlocked, AckRefused, Crash

\* The inductive invariant holds in every reachable state.
THEOREM DispatchInvariant == Spec => [](TypeOK /\ DispatchInv)
<1>1. Init => TypeOK /\ DispatchInv
  BY ConstantsAssumption DEF ConstantsAssumption, Init, TypeOK, OutboxStatus, Control,
     DispatchInv, EffectMatchesInbox, HeldWereAppended, SeenStillTrue, ConsumedIsFinal,
     HandlerExclusion, HoldsInboxRow, InTx
<1> QED
  BY <1>1, TypeStep, DispatchStep, PTL DEF Spec

\* record_inbox and the single dispatch transaction make the owner effect
\* once-only, and CONSUMED proof of it, under any interleaving of claims, lapses,
\* crashes and replays.
THEOREM DeliveredExactlyOnce == Spec => []ExactlyOnce
<1>1. TypeOK /\ DispatchInv => ExactlyOnce
  <2> SUFFICES ASSUME TypeOK, DispatchInv, NEW m \in Message
               PROVE  effects[m] <= 1 /\ (status[m] = "CONSUMED" => effects[m] = 1)
    BY DEF ExactlyOnce
  <2>1. effects[m] = IF inbox[m] = "PROCESSED" THEN 1 ELSE 0
    BY DEF DispatchInv, EffectMatchesInbox
  <2>2. status[m] = "CONSUMED" => inbox[m] = "PROCESSED"
    BY DEF DispatchInv, ConsumedIsFinal
  <2> QED
    BY <2>1, <2>2, 0 <= 1
<1> QED
  BY <1>1, DispatchInvariant, PTL

\* The uncommitted inbox row serialises the handlers of a message.
THEOREM HandlersExclude == Spec => []HandlerExclusion
<1>1. DispatchInv => HandlerExclusion
  BY DEF DispatchInv
<1> QED
  BY <1>1, DispatchInvariant, PTL

\* mark_outbox_consumed_by_owner fences a research worker whose message was
\* reclaimed, and no step takes a message out of CONSUMED.
THEOREM ResearchFencing == Spec => Fencing
<1>1. ASSUME TypeOK, DispatchInv, [Next]_vars
      PROVE  [\A m \in Message :
         /\ status[m] # "CONSUMED" /\ status'[m] = "CONSUMED" /\ m \in Research =>
              \A w \in Worker : cur[w] = m /\ cur'[w] # m => lockedBy[m] = w
         /\ status[m] = "CONSUMED" => status'[m] = "CONSUMED" /\ ~leaseLive'[m]]_vars
  <2> SUFFICES ASSUME Next, NEW m \in Message
               PROVE  /\ status[m] # "CONSUMED" /\ status'[m] = "CONSUMED" /\ m \in Research =>
                            \A w \in Worker : cur[w] = m /\ cur'[w] # m => lockedBy[m] = w
                      /\ status[m] = "CONSUMED" => status'[m] = "CONSUMED" /\ ~leaseLive'[m]
    BY <1>1
  <2> DEFINE Goal == /\ status[m] # "CONSUMED" /\ status'[m] = "CONSUMED" /\ m \in Research =>
                            \A w \in Worker : cur[w] = m /\ cur'[w] # m => lockedBy[m] = w
                     /\ status[m] = "CONSUMED" => status'[m] = "CONSUMED" /\ ~leaseLive'[m]
  <2> USE <1>1 DEF TypeOK, OutboxStatus, outbox, owner, tx, cycle
  <2>1. status[m] = "CONSUMED" => ~leaseLive[m]
    BY DEF DispatchInv, ConsumedIsFinal
  <2>2. ASSUME NEW k \in Message, AppendOutbox(k) \/ BecomesDue(k) \/ LeaseLapses(k) PROVE Goal
    BY <2>1, <2>2 DEF AppendOutbox, BecomesDue, LeaseLapses
  <2>3. ASSUME NEW w \in Worker, ClaimOutbox(w) PROVE Goal
    <3>1. \A c, n : \A k \in FirstByCreation(Eligible(c), n) : status[k] # "CONSUMED"
      BY DEF FirstByCreation, Eligible
    <3> DEFINE S == FirstByCreation(Eligible(Consumers[turn[w]]), ClaimLimitFor(Consumers[turn[w]]))
    <3>2. \A k \in S : status[k] # "CONSUMED"
      BY <3>1
    <3>3. /\ status' = [k \in Message |-> IF k \in S THEN "IN_FLIGHT" ELSE status[k]]
          /\ leaseLive' = [k \in Message |-> k \in S \/ leaseLive[k]]
      BY <2>3 DEF ClaimOutbox
    <3> HIDE DEF S
    <3> QED
      BY <2>1, <3>2, <3>3
  <2>4. ASSUME NEW w \in Worker, Ack(w) PROVE Goal
    BY <2>1, <2>4 DEF Ack, EndTx, AckAllowed
  <2>5. CASE status' = status /\ leaseLive' = leaseLive
    BY <2>1, <2>5
  <2> QED
    BY <2>2, <2>3, <2>4, <2>5 DEF Next, WorkerStep, StartWorker, BeginDispatch, RecordInbox,
       RunHandler, HandlerBlocked, AckRefused, Abandon, RenewLost, Crash
<1> QED
  BY <1>1, DispatchInvariant, PTL DEF Spec, Fencing

-----------------------------------------------------------------------------
(* Refinement of OwnerDelivery *)

\* Outbox rows, leases, inbox rows and workers implement once-only delivery
\* after the dependencies: an append is a Send, a first commit a Deliver, and
\* every other step of the transport is invisible to the owners.
THEOREM TransportRefines == Spec => ImplementsDelivery
<1> USE DEF Delivery!vars, Delivery!Init, Delivery!Next, Delivery!Send, Delivery!Deliver
<1>1. Init => Delivery!Init
  BY DEF Init
<1>2. ASSUME TypeOK, DispatchInv, [Next]_vars
      PROVE  [Delivery!Next]_(Delivery!vars)
  <2> USE <1>2 DEF TypeOK, OutboxStatus, outbox, owner, tx, cycle
  <2>1. ASSUME NEW m \in Message, AppendOutbox(m) PROVE Delivery!Send(m)
    BY <2>1 DEF AppendOutbox
  <2>2. ASSUME NEW w \in Worker, Ack(w), ~replay[w] PROVE Delivery!Deliver(cur[w])
    <3>1. cur[w] \in Message /\ status[cur[w]] # "ABSENT" /\ HandlerReady(cur[w])
          /\ inbox[cur[w]] = "NONE"
      BY <2>2 DEF Ack, DispatchInv, HeldWereAppended, SeenStillTrue, InTx, HoldsInboxRow
    <3>2. effects[cur[w]] = 0
      BY <3>1 DEF DispatchInv, EffectMatchesInbox
    <3>3. \A m \in Message : effects'[m] = IF m = cur[w] THEN 1 ELSE effects[m]
      BY <2>2, <3>1, <3>2 DEF Ack
    <3>4. \A m \in Message : status'[m] # "ABSENT" <=> status[m] # "ABSENT"
      BY <2>2, <3>1 DEF Ack
    <3>5. DependsOn[cur[w]] \subseteq {m \in Message : status[m] # "ABSENT"}
      BY <3>1, ConstantsAssumption DEF HandlerReady, ConstantsAssumption
    <3> QED
      BY <3>1, <3>2, <3>3, <3>4, <3>5 DEF HandlerReady
  <2>3. CASE /\ \A m \in Message : status'[m] # "ABSENT" <=> status[m] # "ABSENT"
             /\ effects' = effects
    BY <2>3
  <2>4. ASSUME NEW w \in Worker, Ack(w), replay[w] PROVE UNCHANGED Delivery!vars
    <3>1. cur[w] \in Message /\ status[cur[w]] # "ABSENT"
      BY <2>4 DEF Ack, DispatchInv, HeldWereAppended, InTx
    <3>2. /\ \A m \in Message : effects'[m] = effects[m]
          /\ \A m \in Message : status'[m] # "ABSENT" <=> status[m] # "ABSENT"
      BY <2>4, <3>1 DEF Ack
    <3> QED
      BY <3>2
  <2>5. ASSUME NEW w \in Worker, ClaimOutbox(w)
        PROVE  /\ \A m \in Message : status'[m] # "ABSENT" <=> status[m] # "ABSENT"
               /\ effects' = effects
    <3>1. \A c, n : \A k \in FirstByCreation(Eligible(c), n) : status[k] # "ABSENT"
      BY DEF FirstByCreation, Eligible
    <3> DEFINE S == FirstByCreation(Eligible(Consumers[turn[w]]), ClaimLimitFor(Consumers[turn[w]]))
    <3>2. \A k \in S : status[k] # "ABSENT"
      BY <3>1
    <3>3. status' = [k \in Message |-> IF k \in S THEN "IN_FLIGHT" ELSE status[k]]
          /\ effects' = effects
      BY <2>5 DEF ClaimOutbox
    <3> HIDE DEF S
    <3> QED
      BY <3>2, <3>3
  <2>6. ASSUME NEW w \in Worker, Ack(w) PROVE [Delivery!Next]_(Delivery!vars)
    <3>1. cur[w] \in Message
      BY <2>6 DEF Ack, DispatchInv, HeldWereAppended, InTx
    <3>2. CASE replay[w]
      BY <2>4, <2>6, <3>2
    <3>3. CASE ~replay[w]
      <4>1. Delivery!Deliver(cur[w])
        BY <2>2, <2>6, <3>3
      <4>2. Delivery!Next
        BY <3>1, <4>1, Zenon
      <4> QED
        BY <4>2
    <3> QED
      BY <3>2, <3>3
  <2> QED
    BY <2>1, <2>3, <2>5, <2>6 DEF Next, vars, WorkerStep, BecomesDue, LeaseLapses,
       StartWorker, BeginDispatch, RecordInbox, RunHandler, HandlerBlocked, AckRefused,
       Abandon, RenewLost, Crash
<1> QED
  BY <1>1, <1>2, DispatchInvariant, PTL DEF Spec, ImplementsDelivery, Delivery!Spec
=============================================================================
