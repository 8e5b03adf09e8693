--------------------------- MODULE GovernanceProofs ---------------------------
(***************************************************************************)
(* Proofs about the control plane and the research ledgers: that an        *)
(* accepted close command is durable and driven until it has closed what   *)
(* it held (OperatorControl), that the versions of sets and rules agree in *)
(* both databases (TriggerRegistry), that a promotion is exact             *)
(* (ResearchPromotion), that a completed demo is final and a demo that is  *)
(* not over is driven (ResearchDemo), and that a run record has an         *)
(* execution behind it (ResearchRuns).                                     *)
(***************************************************************************)
EXTENDS MCGovernance, TLAPS

-----------------------------------------------------------------------------
(* Operator commands                                                       *)

\* Every step of the dashboard, the bridge and the workers keeps the invariant.
LEMMA OperatorStep ==
    ASSUME Operator!OperatorInv, [Operator!Next]_(Operator!controlVars)
    PROVE  Operator!OperatorInv'
<1> USE OperatorAssumption DEF Operator!OperatorConstants, Operator!OperatorInv, Operator!TypeOK,
        Operator!Id, Operator!Target, Operator!State, Operator!Form, Operator!Change,
        Operator!CommandRow, Operator!Job, Operator!Terminal
<1> USE DEF Operator!RequestIsDurable, Operator!JobIsSound, Operator!AcceptedIsDriven, Operator!HeldIsClosed
<1>1. ASSUME NEW w \in Client, NEW t \in Operator!Target, NEW key \in Key, NEW by \in Principal,
             Operator!Request(w, t, key, by)
      PROVE  Operator!OperatorInv'
  <2>1. UNCHANGED <<position, trading, command, queue, actions, worker>>
    BY <1>1 DEF Operator!Request, Operator!bookVars
  <2>2. /\ web' \in [Client -> Operator!Form \cup Operator!Change \cup {None}]
        /\ \A v \in Client : web'[v] # None /\ web'[v].step = "accepted" => web'[v] = web[v]
    BY <1>1 DEF Operator!Request
  <2> QED BY <2>1, <2>2
<1>2. ASSUME NEW w \in Client, NEW s \in Operator!State, Operator!ReadState(w, s)
      PROVE  Operator!OperatorInv'
  <2>1. UNCHANGED <<position, trading, command, queue, actions, worker>>
    BY <1>2 DEF Operator!ReadState, Operator!bookVars
  <2>2. /\ web' \in [Client -> Operator!Form \cup Operator!Change \cup {None}]
        /\ \A v \in Client : web'[v] # None /\ web'[v].step = "accepted" => web'[v] = web[v]
    BY <1>2 DEF Operator!ReadState
  <2> QED BY <2>1, <2>2
<1>3. ASSUME NEW w \in Client, Operator!RecordAudit(w) PROVE Operator!OperatorInv'
  <2>1. UNCHANGED <<position, trading, command, queue, actions, worker>>
    BY <1>3 DEF Operator!RecordAudit
  <2>2. /\ web' \in [Client -> Operator!Form \cup Operator!Change \cup {None}]
        /\ \A v \in Client : web'[v] # None /\ web'[v].step = "accepted" => web'[v] = web[v]
    BY <1>3, SMTT(40) DEF Operator!RecordAudit, Operator!Goto, Operator!EndRequest
  <2> QED BY <2>1, <2>2
<1>4. ASSUME NEW w \in Client, Operator!Submit(w) PROVE Operator!OperatorInv'
  <2> DEFINE i == <<web[w].target, web[w].key>>
             new == [status |-> "PENDING", held |-> Operator!OpenNow]
  <2>1. UNCHANGED <<position, trading, actions, worker>>
    BY <1>4 DEF Operator!Submit
  <2>2. web[w] \in Operator!Form /\ i \in Operator!Id
    BY <1>4 DEF Operator!Submit
  <2>3. /\ web' \in [Client -> Operator!Form \cup Operator!Change \cup {None}]
        /\ \A v \in Client \ {w} : web'[v] = web[v]
        /\ web'[w] # None /\ web'[w].target = web[w].target /\ web'[w].key = web[w].key
    BY <1>4, <2>2 DEF Operator!Submit, Operator!Goto
  <2>4. new \in Operator!CommandRow /\ \A p \in new.held : position[p] = "open"
    BY DEF Operator!OpenNow
  <2>5. /\ command' = IF command[i] # None THEN command ELSE [command EXCEPT ![i] = new]
        /\ queue' = IF queue[i] = "none" THEN [queue EXCEPT ![i] = "queued"] ELSE queue
    BY <1>4 DEF Operator!Submit
  <2> HIDE DEF i, new
  <2>6. /\ command' \in [Operator!Id -> Operator!CommandRow \cup {None}]
        /\ queue' \in [Operator!Id -> {"none", "queued", "consumed"}]
        /\ command'[i] # None /\ queue'[i] # "none"
        /\ \A j \in Operator!Id : /\ command[j] # None => command'[j] = command[j] /\ queue'[j] = queue[j]
                                  /\ command[j] = None => \/ command'[j] = None /\ queue'[j] = "none"
                                                          \/ command'[j] = new /\ queue'[j] = "queued"
    BY <2>2, <2>4, <2>5
  <2>7. Operator!RequestIsDurable'
    <3>1. command'[<<web'[w].target, web'[w].key>>] # None
      BY <2>3, <2>6 DEF i
    <3>2. \A v \in Client \ {w} : web'[v] # None /\ web'[v].step = "accepted"
             => command'[<<web'[v].target, web'[v].key>>] # None
      BY <2>3, <2>6
    <3>3. \A j \in Operator!Id : /\ queue'[j] # "none" <=> command'[j] # None
                                 /\ command'[j] # None => \A p \in command'[j].held : position'[p] # "none"
      BY <2>1, <2>4, <2>6
    <3> QED BY <3>1, <3>2, <3>3
  <2>8. Operator!JobIsSound' /\ Operator!AcceptedIsDriven'
    <3>1. new.status = "PENDING"
      BY DEF new
    <3> QED BY <2>1, <2>6, <3>1
  <2> QED BY <2>1, <2>3, <2>6, <2>7, <2>8
<1>5. ASSUME NEW w \in Client, Operator!SubmitFails(w) PROVE Operator!OperatorInv'
  <2>1. UNCHANGED <<position, trading, command, queue, actions, worker>>
    BY <1>5 DEF Operator!SubmitFails, Operator!bookVars
  <2>2. /\ web' \in [Client -> Operator!Form \cup Operator!Change \cup {None}]
        /\ \A v \in Client : web'[v] # None /\ web'[v].step = "accepted" => web'[v] = web[v]
    BY <1>5, SMTT(40) DEF Operator!SubmitFails, Operator!Goto
  <2> QED BY <2>1, <2>2
<1>6. ASSUME NEW w \in Client, Operator!LogAction(w) PROVE Operator!OperatorInv'
  <2>1. UNCHANGED <<position, trading, command, queue, worker>>
    BY <1>6 DEF Operator!LogAction
  <2>2. /\ web' \in [Client -> Operator!Form \cup Operator!Change \cup {None}]
        /\ \A v \in Client : web'[v] # None /\ web'[v].step = "accepted" => web'[v] = web[v]
    BY <1>6 DEF Operator!LogAction, Operator!EndRequest
  <2>3. web[w] \in Operator!Form /\ actions' = actions \cup {Operator!Reported(w)}
    BY <1>6 DEF Operator!LogAction
  <2>4. /\ Operator!Reported(w) \in [id : Operator!Id, result : {"accepted", "failed"}]
        /\ Operator!Reported(w).result = "accepted" => command[Operator!Reported(w).id] # None
    BY <1>6, <2>3 DEF Operator!LogAction, Operator!Reported
  <2> QED BY <2>1, <2>2, <2>3, <2>4
<1>7. ASSUME NEW w \in Client, Operator!WriteState(w) PROVE Operator!OperatorInv'
  <2>1. UNCHANGED <<position, command, queue, actions, worker>>
    BY <1>7 DEF Operator!WriteState
  <2>2. web[w] \in Operator!Change
    BY <1>7 DEF Operator!WriteState
  <2>3. /\ web' \in [Client -> Operator!Form \cup Operator!Change \cup {None}]
        /\ \A v \in Client : web'[v] # None /\ web'[v].step = "accepted" => web'[v] = web[v]
        /\ trading' \in Operator!State
    BY <1>7, <2>2 DEF Operator!WriteState, Operator!EndRequest
  <2> QED BY <2>1, <2>3
<1>8. ASSUME NEW w \in Client, Operator!WebDies(w) PROVE Operator!OperatorInv'
  <2>1. UNCHANGED <<position, trading, command, queue, actions, worker>>
    BY <1>8 DEF Operator!WebDies, Operator!bookVars
  <2>2. /\ web' \in [Client -> Operator!Form \cup Operator!Change \cup {None}]
        /\ \A v \in Client : web'[v] # None /\ web'[v].step = "accepted" => web'[v] = web[v]
    BY <1>8 DEF Operator!WebDies, Operator!EndRequest
  <2> QED BY <2>1, <2>2
<1>9. ASSUME NEW p \in Position, Operator!OpenPosition(p) PROVE Operator!OperatorInv'
  <2>1. UNCHANGED <<trading, command, queue, actions, web, worker>>
    BY <1>9 DEF Operator!OpenPosition
  <2>2. /\ position' \in [Position -> {"none", "open", "closed"}]
        /\ \A q \in Position : position[q] # "none" => position'[q] = position[q]
    BY <1>9 DEF Operator!OpenPosition
  <2> QED BY <2>1, <2>2
<1>10. ASSUME NEW k \in Worker, NEW i \in Operator!Id, Operator!Claim(k, i) PROVE Operator!OperatorInv'
  <2>1. UNCHANGED <<position, trading, command, queue, actions, web>> /\ command[i] # None
    BY <1>10 DEF Operator!Claim, Operator!bookVars
  <2>2. /\ worker' \in [Worker -> Operator!Job \cup {None}]
        /\ \A l \in Worker : \/ worker'[l] = worker[l]
                            \/ worker'[l] = [id |-> i, step |-> "dispatch", result |-> None]
    BY <1>10 DEF Operator!Claim
  <2> QED BY <2>1, <2>2
<1>11. ASSUME NEW k \in Worker, Operator!Dispatch(k) PROVE Operator!OperatorInv'
  <2>1. UNCHANGED <<position, trading, command, queue, actions, web>> /\ worker[k] # None
    BY <1>11 DEF Operator!Dispatch, Operator!bookVars
  <2>2. /\ worker' \in [Worker -> Operator!Job \cup {None}]
        /\ \A l \in Worker \ {k} : worker'[l] = worker[l]
        /\ worker'[k] # None /\ worker'[k].id = worker[k].id
        /\ \/ /\ command[worker[k].id].status \in Operator!Terminal
              /\ worker'[k].result = "replay"
           \/ worker'[k].step = "execute" /\ worker'[k].result = worker[k].result
    <3>1. worker[k] \in Operator!Job
      BY <2>1
    <3>2. CASE command[worker[k].id].status \in Operator!Terminal
      <4> DEFINE r == [worker[k] EXCEPT !.step = "commit", !.result = "replay"]
      <4>1. r \in Operator!Job /\ r.id = worker[k].id /\ r.result = "replay"
        BY <3>1
      <4>2. worker' = [worker EXCEPT ![k] = r]
        BY <1>11, <3>2 DEF Operator!Dispatch
      <4> HIDE DEF r
      <4> QED BY <3>1, <3>2, <4>1, <4>2
    <3>3. CASE command[worker[k].id].status \notin Operator!Terminal
      <4>1. worker' = [worker EXCEPT ![k] = [worker[k] EXCEPT !.step = "execute"]]
        BY <1>11, <3>3 DEF Operator!Dispatch
      <4> QED BY <3>1, <4>1
    <3> QED BY <3>2, <3>3
  <2> QED BY <2>1, <2>2
<1>12. ASSUME NEW k \in Worker, Operator!Execute(k) PROVE Operator!OperatorInv'
  <2> DEFINE i == worker[k].id
             targets == IF i[1] = All THEN Operator!OpenNow ELSE {i[1]} \cap Operator!OpenNow
  <2>1. UNCHANGED <<trading, command, queue, actions, web>> /\ worker[k] # None
    BY <1>12 DEF Operator!Execute
  <2>2. PICK done \in SUBSET targets :
            /\ position' = [p \in Position |-> IF p \in done THEN "closed" ELSE position[p]]
            /\ worker' = [worker EXCEPT ![k] =
                 IF done = targets /\ (i[1] # All => position[i[1]] # "none")
                 THEN [@ EXCEPT !.step = "commit", !.result = "SUCCEEDED"] ELSE None]
    BY <1>12 DEF Operator!Execute
  <2>3. /\ position' \in [Position -> {"none", "open", "closed"}]
        /\ \A p \in Position : /\ position[p] # "none" => position'[p] # "none"
                               /\ position[p] = "closed" => position'[p] = "closed"
    BY <2>2
  <2>4. worker[k] \in Operator!Job /\ i \in Operator!Id
    BY <2>1
  <2>5. /\ worker' \in [Worker -> Operator!Job \cup {None}]
        /\ \A l \in Worker \ {k} : worker'[l] = worker[l]
        /\ worker'[k] # None =>
             /\ worker'[k].id = i /\ worker'[k].step = "commit" /\ worker'[k].result = "SUCCEEDED"
             /\ done = targets /\ (i[1] # All => position[i[1]] # "none")
    <3> DEFINE r == [worker[k] EXCEPT !.step = "commit", !.result = "SUCCEEDED"]
               all == done = targets /\ (i[1] # All => position[i[1]] # "none")
    <3>1. r \in Operator!Job /\ r.id = i /\ r.step = "commit" /\ r.result = "SUCCEEDED"
      BY <2>4
    <3>2. worker' = [worker EXCEPT ![k] = IF all THEN r ELSE None]
      BY <2>2
    <3> HIDE DEF r, targets, i
    <3>3. worker \in [Worker -> Operator!Job \cup {None}]
      OBVIOUS
    <3>4. /\ worker' \in [Worker -> Operator!Job \cup {None}]
          /\ \A l \in Worker \ {k} : worker'[l] = worker[l]
          /\ worker'[k] = IF all THEN r ELSE None
      BY <3>1, <3>2, <3>3
    <3> QED BY <3>1, <3>4
  <2>6. ASSUME worker'[k] # None, NEW p \in command[i].held, i[1] \in {All, p}
        PROVE  position'[p] = "closed"
    <3>1. p \in Position /\ position[p] # "none" /\ command[i] # None
      BY <2>1, <2>4, <2>6
    <3>2. position[p] = "open" => p \in targets
      BY <2>6, <3>1 DEF Operator!OpenNow
    <3> QED BY <2>2, <2>5, <2>6, <3>1, <3>2
  <2> HIDE DEF i, targets
  <2>7. Operator!JobIsSound'
    <3>1. \A l \in Worker \ {k} : worker'[l] # None =>
             /\ command'[worker'[l].id] # None
             /\ worker'[l].step = "commit" => worker'[l].result # None
             /\ worker'[l].result = "replay" => command'[worker'[l].id].status \in Operator!Terminal
             /\ worker'[l].result = "SUCCEEDED" =>
                  \A p \in command'[worker'[l].id].held :
                      worker'[l].id[1] \in {All, p} => position'[p] = "closed"
      BY <2>1, <2>3, <2>5
    <3>2. worker'[k] # None => command'[i] # None
      BY <2>1 DEF i
    <3>3. worker'[k] # None =>
             /\ worker'[k].result = "SUCCEEDED"
             /\ \A p \in command'[worker'[k].id].held :
                   worker'[k].id[1] \in {All, p} => position'[p] = "closed"
      BY <2>1, <2>5, <2>6
    <3> QED BY <2>5, <3>1, <3>2, <3>3
  <2>8. Operator!RequestIsDurable' /\ Operator!AcceptedIsDriven'
    BY <2>1, <2>3
  <2> QED BY <2>1, <2>3, <2>5, <2>7, <2>8
<1>13. ASSUME NEW k \in Worker, Operator!Commit(k) PROVE Operator!OperatorInv'
  <2> DEFINE i == worker[k].id
  <2>1. UNCHANGED <<position, trading, actions, web>> /\ worker[k] \in Operator!Job /\ i \in Operator!Id
    BY <1>13 DEF Operator!Commit
  <2>2. /\ worker' \in [Worker -> Operator!Job \cup {None}]
        /\ \A l \in Worker : worker'[l] # None => worker'[l] = worker[l]
    BY <1>13 DEF Operator!Commit
  <2>3. CASE worker[k].result # "replay"
    <3>1. worker[k].result = "SUCCEEDED" /\ command[i] # None /\ Operator!HeldIsClosed(i)
      BY <1>13, <2>1, <2>3 DEF Operator!Commit
    <3>2. /\ queue' = [queue EXCEPT ![i] = "consumed"]
          /\ command' = [command EXCEPT ![i].status = "SUCCEEDED"]
      BY <1>13, <2>3, <3>1 DEF Operator!Commit
    <3> HIDE DEF i
    <3>3. /\ command' \in [Operator!Id -> Operator!CommandRow \cup {None}]
          /\ queue' \in [Operator!Id -> {"none", "queued", "consumed"}]
          /\ command'[i] # None /\ command'[i].status = "SUCCEEDED" /\ command'[i].held = command[i].held
          /\ queue'[i] = "consumed"
          /\ \A j \in Operator!Id \ {i} : command'[j] = command[j] /\ queue'[j] = queue[j]
      BY <2>1, <3>1, <3>2
    <3>4. \A j \in Operator!Id : /\ command[j] # None <=> command'[j] # None
                                 /\ command'[j] # None => command'[j].held = command[j].held
                                 /\ command'[j] # None /\ command[j].status = "SUCCEEDED" => command'[j].status = "SUCCEEDED"
      BY <3>1, <3>3
    <3>5. Operator!RequestIsDurable'
      BY <2>1, <2>2, <3>1, <3>3, <3>4
    <3>6. Operator!JobIsSound'
      BY <2>1, <2>2, <3>3, <3>4
    <3>7. Operator!AcceptedIsDriven'
      BY <2>1, <3>1, <3>3, <3>4
    <3> QED BY <2>1, <2>2, <3>3, <3>5, <3>6, <3>7
  <2>4. CASE worker[k].result = "replay"
    <3>1. /\ queue' = [queue EXCEPT ![i] = "consumed"] /\ command' = command
          /\ command[i] # None /\ command[i].status \in Operator!Terminal
      BY <1>13, <2>4 DEF Operator!Commit
    <3> HIDE DEF i
    <3> QED BY <2>1, <2>2, <3>1
  <2> QED BY <2>3, <2>4
<1>14. ASSUME NEW k \in Worker, Operator!WorkerDies(k) PROVE Operator!OperatorInv'
  <2>1. UNCHANGED <<position, trading, command, queue, actions, web>>
    BY <1>14 DEF Operator!WorkerDies, Operator!bookVars
  <2>2. /\ worker' \in [Worker -> Operator!Job \cup {None}]
        /\ \A l \in Worker : worker'[l] # None => worker'[l] = worker[l]
    BY <1>14 DEF Operator!WorkerDies
  <2> QED BY <2>1, <2>2
<1>15. CASE UNCHANGED Operator!controlVars
  BY <1>15 DEF Operator!controlVars, Operator!bookVars
<1> HIDE DEF Operator!OperatorInv, Operator!Id, Operator!Target, Operator!State
<1> QED
  BY <1>1, <1>2, <1>3, <1>4, <1>5, <1>6, <1>7, <1>8, <1>9, <1>10, <1>11, <1>12, <1>13, <1>14, <1>15
     DEF Operator!Next

\* The inductive invariant of the operator's commands: a job has its command
\* and replays or succeeds only as JobIsSound says.
THEOREM OperatorInvariant == Operator!Spec => []Operator!OperatorInv
<1> USE OperatorAssumption DEF Operator!OperatorConstants
<1>1. Operator!Init => Operator!OperatorInv
  BY DEF Operator!Init, Operator!OperatorInv, Operator!TypeOK, Operator!RequestIsDurable,
         Operator!JobIsSound, Operator!AcceptedIsDriven, Operator!State
<1>2. Operator!OperatorInv /\ [Operator!Next]_(Operator!controlVars) => Operator!OperatorInv'
  BY OperatorStep
<1> QED BY <1>1, <1>2, PTL DEF Operator!Spec

\* A close command that was accepted is durable, has its message until it is
\* terminal, and SUCCEEDED only once what it held is closed, for any number of
\* requests, workers, keys and positions.
THEOREM CommandsAreDriven == Operator!Spec => []AcceptedIsDriven
<1>1. Operator!OperatorInv => AcceptedIsDriven
  BY DEF Operator!OperatorInv, AcceptedIsDriven
<1> QED BY <1>1, OperatorInvariant, PTL

-----------------------------------------------------------------------------
(* Promotion                                                               *)

\* What leaves audit, governance, sets and rules alone keeps the invariant, if
\* it turns no decision to PROMOTION_REQUESTED and only ends a request or
\* begins one of the store.
LEMMA StoreStep ==
    ASSUME Promotion!PromotionInv, NEW c \in Client, NEW new,
           UNCHANGED <<promoted, governance, activeSet, liveRules>>,
           Promotion!TypeOK', req' = [req EXCEPT ![c] = new],
           new.op \notin {"request", "makeActive", "governed"},
           \A r \in ResearchId : entity'[r].decision = "PROMOTION_REQUESTED"
                                  => entity[r].decision = "PROMOTION_REQUESTED"
    PROVE  Promotion!PromotionInv'
<1> USE DEF Promotion!PromotionInv
<1>1. \A d \in Client : req'[d] = IF d = c THEN new ELSE req[d]
  BY DEF Promotion!TypeOK
<1>2. Promotion!CommandIsAudited'
  BY <1>1 DEF Promotion!CommandIsAudited
<1>3. Promotion!RequestedIsDurable'
  BY DEF Promotion!RequestedIsDurable
<1>4. Promotion!OneExactPair'
  BY DEF Promotion!OneExactPair, Promotion!ActiveSets
<1> QED BY <1>2, <1>3, <1>4

\* A request has the fields of its operation.
LEMMA RequestShape ==
    ASSUME Promotion!TypeOK, NEW c \in Client
    PROVE  /\ req[c].op \in {"request", "makeActive", "governed"} => req[c] \in Promotion!Command
           /\ req[c].op \in Promotion!StoreOps => req[c] \in Promotion!StoreRequest
<1>1. req[c] \in {Promotion!Free} \cup Promotion!StoreRequest \cup Promotion!Command
  BY DEF Promotion!TypeOK
<1>2. req[c] = Promotion!Free => req[c].op = "idle"
  BY DEF Promotion!Free
<1>3. req[c] \in Promotion!StoreRequest => req[c].op \in Promotion!StoreOps
  BY DEF Promotion!StoreRequest
<1>4. req[c] \in Promotion!Command => req[c].op \in {"request", "makeActive", "governed"}
  BY DEF Promotion!Command
<1> QED BY <1>1, <1>2, <1>3, <1>4 DEF Promotion!StoreOps

\* The row of a research after a selection, an archiving, a block and a
\* promotion.
LEMMA SelectedRow ==
    ASSUME NEW e \in Promotion!Entity
    PROVE  /\ [e EXCEPT !.selB = TRUE, !.status = "BACKTEST_READY"] \in Promotion!Entity
           /\ [e EXCEPT !.selB = TRUE, !.status = "BACKTEST_READY"].decision = e.decision
           /\ [e EXCEPT !.selD = TRUE, !.status = "DECISION_NEEDED"] \in Promotion!Entity
           /\ [e EXCEPT !.selD = TRUE, !.status = "DECISION_NEEDED"].decision = e.decision
BY DEF Promotion!Entity

LEMMA RefusedRow ==
    ASSUME NEW e \in Promotion!Entity
    PROVE  /\ [e EXCEPT !.status = "ARCHIVED", !.decision = "ARCHIVE"] \in Promotion!Entity
           /\ [e EXCEPT !.status = "ARCHIVED", !.decision = "ARCHIVE"].decision = "ARCHIVE"
           /\ [e EXCEPT !.decision = "MAKE_ACTIVE_BLOCKED"] \in Promotion!Entity
           /\ [e EXCEPT !.decision = "MAKE_ACTIVE_BLOCKED"].decision = "MAKE_ACTIVE_BLOCKED"
BY DEF Promotion!Entity

LEMMA DecidedRow ==
    ASSUME NEW e \in Promotion!Entity, NEW k \in PromotionKey,
           NEW d \in {"PROMOTION_REQUESTED", "MADE_ACTIVE"}
    PROVE  /\ [e EXCEPT !.status = "DECISION_NEEDED", !.decision = d, !.key = k] \in Promotion!Entity
           /\ [e EXCEPT !.status = "DECISION_NEEDED", !.decision = d, !.key = k].decision = d
BY DEF Promotion!Entity

\* Every step of the research store and of a promotion keeps the invariant.
LEMMA PromotionStep ==
    ASSUME Promotion!PromotionInv, [Promotion!Next]_(Promotion!vars)
    PROVE  Promotion!PromotionInv'
<1> USE PromotionAssumption DEF Promotion!PromotionConstants, Promotion!PromotionInv, Promotion!TypeOK
<1> USE DEF Promotion!researchTables, Promotion!Free, Promotion!StoreRequest, Promotion!Command
<1>1. ASSUME NEW c \in Client, NEW r \in ResearchId, NEW op \in Promotion!StoreOps,
             Promotion!CheckMutable(c, op, r)
      PROVE  Promotion!PromotionInv'
  <2>1. /\ UNCHANGED <<entity, promoted, governance, activeSet, liveRules>>
        /\ req' = [req EXCEPT ![c] = [op |-> op, r |-> r]] /\ count' = count + 1
    BY <1>1 DEF Promotion!CheckMutable
  <2>2. Promotion!TypeOK'
    BY <2>1
  <2>3. op \notin {"request", "makeActive", "governed"}
    BY DEF Promotion!StoreOps
  <2> QED BY <2>1, <2>2, <2>3, StoreStep
<1>2. ASSUME NEW c \in Client, Promotion!WriteRun(c) PROVE Promotion!PromotionInv'
  <2>1. /\ UNCHANGED <<promoted, governance, activeSet, liveRules, count>>
        /\ req' = [req EXCEPT ![c] = Promotion!Free]
        /\ req[c].op \in Promotion!StoreOps
    BY <1>2 DEF Promotion!WriteRun, Promotion!StoreOps
  <2>2. /\ entity' \in [ResearchId -> Promotion!Entity]
        /\ \A r \in ResearchId : entity'[r].decision = entity[r].decision
    <3> DEFINE r == req[c].r
    <3>1. r \in ResearchId
      BY <2>1, RequestShape
    <3>2. CASE req[c].op = "addBacktest"
      <4>1. PICK st \in {"COMPLETED", "FAILED"} : entity' = [entity EXCEPT ![r].status =
                      Promotion!Status(r, IF st = "COMPLETED" THEN "BACKTEST_READY" ELSE "FAILED")]
        BY <1>2, <3>2 DEF Promotion!WriteRun
      <4> QED BY <3>1, <4>1 DEF Promotion!Status, Promotion!Entity
    <3>3. CASE req[c].op \in {"addDemo", "stopDemo"}
      <4>1. entity' = [entity EXCEPT ![r].status =
                Promotion!Status(r, IF req[c].op = "addDemo" THEN "DEMO_RUNNING" ELSE "DEMO_STOPPED")]
        BY <1>2, <3>3 DEF Promotion!WriteRun
      <4> QED BY <3>1, <4>1 DEF Promotion!Status, Promotion!Entity
    <3>4. CASE req[c].op = "selectBacktest"
      <4> DEFINE e == [entity[r] EXCEPT !.selB = TRUE, !.status = "BACKTEST_READY"]
      <4>1. entity' = [entity EXCEPT ![r] = e]
        BY <1>2, <3>4 DEF Promotion!WriteRun
      <4>2. e \in Promotion!Entity /\ e.decision = entity[r].decision
        BY <3>1, SelectedRow
      <4> HIDE DEF e, r
      <4> QED BY <3>1, <4>1, <4>2
    <3>5. CASE req[c].op = "selectDemo"
      <4> DEFINE e == [entity[r] EXCEPT !.selD = TRUE, !.status = "DECISION_NEEDED"]
      <4>1. entity' = [entity EXCEPT ![r] = e]
        BY <1>2, <3>5 DEF Promotion!WriteRun
      <4>2. e \in Promotion!Entity /\ e.decision = entity[r].decision
        BY <3>1, SelectedRow
      <4> HIDE DEF e, r
      <4> QED BY <3>1, <4>1, <4>2
    <3> QED BY <1>2, <3>2, <3>3, <3>4, <3>5 DEF Promotion!WriteRun
  <2>3. Promotion!TypeOK'
    BY <2>1, <2>2
  <2> QED BY <2>1, <2>2, <2>3, StoreStep
<1>3. ASSUME NEW c \in Client, Promotion!RecordBlock(c) PROVE Promotion!PromotionInv'
  <2>1. /\ UNCHANGED <<promoted, governance, activeSet, liveRules, count>>
        /\ req' = [req EXCEPT ![c] = Promotion!Free]
        /\ req[c].op \in {"request", "makeActive", "governed"}
        /\ entity' = entity \/ entity' = [entity EXCEPT ![req[c].r].decision = "MAKE_ACTIVE_BLOCKED"]
    BY <1>3 DEF Promotion!RecordBlock
  <2>2. Promotion!TypeOK'
    <3>1. req[c].r \in ResearchId
      BY <2>1, RequestShape
    <3> DEFINE e == [entity[req[c].r] EXCEPT !.decision = "MAKE_ACTIVE_BLOCKED"]
    <3>2. entity' = entity \/ entity' = [entity EXCEPT ![req[c].r] = e]
      BY <2>1
    <3>3. e \in Promotion!Entity
      BY <3>1, RefusedRow
    <3> HIDE DEF e
    <3>4. entity' \in [ResearchId -> Promotion!Entity]
      BY <3>1, <3>2, <3>3
    <3> QED BY <2>1, <3>4
  <2>3. \A r \in ResearchId : entity'[r].decision = "PROMOTION_REQUESTED"
                               => entity[r].decision = "PROMOTION_REQUESTED"
    BY <2>1 DEF Promotion!Entity
  <2> QED BY <2>1, <2>2, <2>3, StoreStep
<1>4. ASSUME NEW r \in ResearchId, Promotion!ArchiveResearch(r) PROVE Promotion!PromotionInv'
  <2> DEFINE e == [entity[r] EXCEPT !.status = "ARCHIVED", !.decision = "ARCHIVE"]
  <2>1. /\ UNCHANGED <<promoted, governance, activeSet, liveRules, req>> /\ count' = count + 1
        /\ entity' = [entity EXCEPT ![r] = e]
    BY <1>4 DEF Promotion!ArchiveResearch
  <2>7. e \in Promotion!Entity /\ e.decision = "ARCHIVE"
    BY RefusedRow
  <2> HIDE DEF e
  <2>2. Promotion!TypeOK'
    BY <2>1, <2>7
  <2>3. \A q \in ResearchId : entity'[q].decision = "PROMOTION_REQUESTED"
                               => entity[q].decision = "PROMOTION_REQUESTED"
    BY <2>1, <2>7
  <2>4. Promotion!CommandIsAudited'
    BY <2>1 DEF Promotion!CommandIsAudited
  <2>5. Promotion!RequestedIsDurable'
    BY <2>1, <2>3 DEF Promotion!RequestedIsDurable
  <2>6. Promotion!OneExactPair'
    BY <2>1 DEF Promotion!OneExactPair, Promotion!ActiveSets
  <2> QED BY <2>2, <2>4, <2>5, <2>6
<1>5. ASSUME NEW c \in Client, NEW r \in ResearchId, NEW k \in PromotionKey, NEW p \in Promoter,
             NEW op \in {"request", "makeActive"}, Promotion!PromotionCommand(c, r, k, p, op)
      PROVE  Promotion!PromotionInv'
  <2> DEFINE new == [op |-> op, r |-> r, k |-> k, at |-> count]
  <2>1. /\ UNCHANGED <<entity, governance, activeSet, liveRules>> /\ count' = count + 1
        /\ req' = [req EXCEPT ![c] = new]
        /\ promoted[k] \in {None, [r |-> r, who |-> p]}
        /\ promoted' = [promoted EXCEPT ![k] = IF @ = None THEN [r |-> r, who |-> p] ELSE @]
    BY <1>5 DEF Promotion!PromotionCommand, Promotion!AuditAccepts
  <2>2. /\ [r |-> r, who |-> p] \in Promotion!AuditRow
        /\ promoted' \in [PromotionKey -> Promotion!AuditRow \cup {None}]
        /\ promoted'[k] # None /\ promoted'[k].r = r
        /\ \A l \in PromotionKey : promoted[l] # None => promoted'[l] = promoted[l]
    BY <2>1 DEF Promotion!AuditRow
  <2>3. new \in Promotion!Command /\ \A d \in Client : req'[d] = IF d = c THEN new ELSE req[d]
    BY <2>1
  <2>4. Promotion!TypeOK'
    BY <2>1, <2>2, <2>3
  <2>5. Promotion!CommandIsAudited'
    <3>1. \A d \in Client : req[d].op \in {"request", "makeActive", "governed"} => req[d].k \in PromotionKey
      BY RequestShape
    <3> QED BY <2>1, <2>2, <2>3, <3>1 DEF Promotion!CommandIsAudited
  <2>6. Promotion!RequestedIsDurable'
    BY <2>1, <2>2 DEF Promotion!RequestedIsDurable
  <2>7. Promotion!OneExactPair'
    BY <2>1 DEF Promotion!OneExactPair, Promotion!ActiveSets
  <2> QED BY <2>4, <2>5, <2>6, <2>7
<1>6. ASSUME NEW c \in Client, Promotion!RequestGovernance(c) PROVE Promotion!PromotionInv'
  <2> DEFINE q == req[c]
             payload == [r |-> q.r, at |-> q.at, previous |-> <<Promotion!ActiveSets, liveRules>>]
  <2>1. UNCHANGED <<entity, promoted, activeSet, liveRules, count>> /\ q \in Promotion!Command /\ q.op = "request"
    BY <1>6, RequestShape DEF Promotion!RequestGovernance
  <2>2. CASE governance[q.k] \in {None, payload}
    <3>1. /\ governance' = [governance EXCEPT ![q.k] = payload]
          /\ req' = [req EXCEPT ![c] = [q EXCEPT !.op = "governed"]]
      BY <1>6, <2>2 DEF Promotion!RequestGovernance
    <3>2. payload \in Promotion!Payload /\ payload.r = q.r
      BY <2>1 DEF Promotion!Payload, Promotion!ActiveSets
    <3>3. /\ [q EXCEPT !.op = "governed"] \in Promotion!Command
          /\ [q EXCEPT !.op = "governed"].op = "governed"
          /\ [q EXCEPT !.op = "governed"].k = q.k /\ [q EXCEPT !.op = "governed"].r = q.r
      BY <2>1
    <3> DEFINE new == [q EXCEPT !.op = "governed"]
    <3> HIDE DEF payload, new
    <3>4. /\ governance' \in [PromotionKey -> Promotion!Payload \cup {None}]
          /\ governance'[q.k] # None /\ governance'[q.k].r = q.r
          /\ \A l \in PromotionKey : governance[l] # None => governance'[l] = governance[l]
          /\ \A l \in PromotionKey \ {q.k} : governance'[l] = governance[l]
      BY <2>1, <2>2, <3>1, <3>2
    <3>5. \A d \in Client : req'[d] = IF d = c THEN new ELSE req[d]
      BY <3>1 DEF new
    <3>6. Promotion!TypeOK'
      BY <2>1, <3>1, <3>3, <3>4
    <3>7. promoted[q.k] # None /\ promoted[q.k].r = q.r /\ q.k \in PromotionKey
      BY <2>1 DEF Promotion!CommandIsAudited
    <3>8. Promotion!CommandIsAudited'
      <4>1. \A d \in Client : req[d].op \in {"request", "makeActive", "governed"} => req[d].k \in PromotionKey
        BY RequestShape
      <4>2. new.op = "governed" /\ new.k = q.k /\ new.r = q.r
        BY <3>3 DEF new
      <4> QED BY <2>1, <3>4, <3>5, <3>7, <4>1, <4>2 DEF Promotion!CommandIsAudited
    <3>9. Promotion!RequestedIsDurable'
      BY <2>1, <3>4, <3>7 DEF Promotion!RequestedIsDurable
    <3>10. Promotion!OneExactPair'
      BY <2>1 DEF Promotion!OneExactPair, Promotion!ActiveSets
    <3> QED BY <3>6, <3>8, <3>9, <3>10
  <2>3. CASE governance[q.k] \notin {None, payload}
    <3>1. UNCHANGED governance /\ req' = [req EXCEPT ![c] = Promotion!Free]
      BY <1>6, <2>3 DEF Promotion!RequestGovernance
    <3>2. Promotion!TypeOK'
      BY <2>1, <3>1
    <3> QED BY <2>1, <3>1, <3>2, StoreStep
  <2> QED BY <2>2, <2>3
<1>7. ASSUME NEW c \in Client, Promotion!RecordRequested(c) PROVE Promotion!PromotionInv'
  <2> DEFINE r == req[c].r
             e == [entity[r] EXCEPT !.status = "DECISION_NEEDED", !.decision = "PROMOTION_REQUESTED",
                                    !.key = req[c].k]
  <2>1. /\ UNCHANGED <<promoted, governance, activeSet, liveRules, count>>
        /\ req[c] \in Promotion!Command /\ req[c].op = "governed"
        /\ req' = [req EXCEPT ![c] = Promotion!Free]
        /\ entity' = [entity EXCEPT ![r] = e]
    BY <1>7, RequestShape DEF Promotion!RecordRequested
  <2>2. governance[req[c].k] # None /\ governance[req[c].k].r = r
    BY <2>1 DEF Promotion!CommandIsAudited
  <2>3. r \in ResearchId /\ req[c].k \in PromotionKey
    BY <2>1
  <2>9. e \in Promotion!Entity
    BY <2>3, DecidedRow
  <2> HIDE DEF e
  <2>4. Promotion!TypeOK'
    BY <2>1, <2>9
  <2>5. \A d \in Client : req'[d] = IF d = c THEN Promotion!Free ELSE req[d]
    BY <2>1
  <2>6. Promotion!CommandIsAudited'
    BY <2>1, <2>5 DEF Promotion!CommandIsAudited
  <2>7. Promotion!RequestedIsDurable'
    <3>1. \A s \in ResearchId : s # r => entity'[s] = entity[s]
      BY <2>1
    <3> QED BY <2>1, <2>2, <2>3, <3>1 DEF Promotion!RequestedIsDurable
  <2>8. Promotion!OneExactPair'
    BY <2>1 DEF Promotion!OneExactPair, Promotion!ActiveSets
  <2> QED BY <2>4, <2>6, <2>7, <2>8
<1>8. ASSUME NEW c \in Client, Promotion!MakeActive(c) PROVE Promotion!PromotionInv'
  <2> DEFINE r == req[c].r
             e == [entity[r] EXCEPT !.status = "DECISION_NEEDED", !.decision = "MADE_ACTIVE",
                                    !.key = req[c].k]
  <2>1. /\ UNCHANGED <<promoted, governance, count>>
        /\ req[c] \in Promotion!Command
        /\ req' = [req EXCEPT ![c] = Promotion!Free]
    BY <1>8, RequestShape DEF Promotion!MakeActive
  <2>2. CASE UNCHANGED <<entity, activeSet, liveRules>>
    <3>1. Promotion!TypeOK'
      BY <2>1, <2>2
    <3> QED BY <2>1, <2>2, <3>1, StoreStep
  <2>3. CASE Promotion!Activate(r) /\ entity' = [entity EXCEPT ![r] = e]
    <3>1. r \in ResearchId /\ req[c].k \in PromotionKey
      BY <2>1
    <3>2. /\ activeSet' = [s \in Promotion!PinnedSet |->
                              IF s = SetOf[r] THEN "ACTIVE"
                              ELSE IF activeSet[s] = "ACTIVE" THEN "ARCHIVE" ELSE activeSet[s]]
          /\ liveRules' = RulesOf[r]
      BY <2>3 DEF Promotion!Activate
    <3>3. SetOf[r] \in Promotion!PinnedSet /\ RulesOf[r] \in Promotion!RulesVersion
      BY <3>1
    <3>10. e \in Promotion!Entity /\ e.decision = "MADE_ACTIVE"
      BY <3>1, DecidedRow
    <3> HIDE DEF e
    <3>4. Promotion!TypeOK'
      BY <2>1, <2>3, <3>2, <3>3, <3>10
    <3>5. Promotion!CommandIsAudited'
      BY <2>1 DEF Promotion!CommandIsAudited
    <3>6. \A s \in ResearchId : entity'[s].decision = "PROMOTION_REQUESTED"
                                => entity[s].decision = "PROMOTION_REQUESTED"
      BY <2>3, <3>10
    <3>7. Promotion!RequestedIsDurable'
      BY <2>1, <3>6 DEF Promotion!RequestedIsDurable
    <3>8. Promotion!ActiveSets' = {SetOf[r]}
      BY <3>2, <3>3 DEF Promotion!ActiveSets
    <3>9. Promotion!OneExactPair'
      BY <3>1, <3>2, <3>8 DEF Promotion!OneExactPair
    <3> QED BY <3>4, <3>5, <3>7, <3>9
  <2>4. CASE ~UNCHANGED <<entity, activeSet, liveRules>>
    <3>1. /\ Promotion!Activate(r)
          /\ entity' = [entity EXCEPT ![r].status = "DECISION_NEEDED", ![r].decision = "MADE_ACTIVE",
                                      ![r].key = req[c].k]
      BY <1>8, <2>4 DEF Promotion!MakeActive
    <3> QED BY <2>3, <3>1
  <2> QED BY <2>2, <2>4
<1>9. ASSUME NEW c \in Client, Promotion!Crash(c) PROVE Promotion!PromotionInv'
  <2>1. /\ UNCHANGED <<entity, promoted, governance, activeSet, liveRules, count>>
        /\ req' = [req EXCEPT ![c] = Promotion!Free]
    BY <1>9 DEF Promotion!Crash
  <2>2. Promotion!TypeOK'
    BY <2>1
  <2> QED BY <2>1, <2>2, StoreStep
<1>10. CASE UNCHANGED Promotion!vars
  BY <1>10 DEF Promotion!vars, Promotion!CommandIsAudited, Promotion!RequestedIsDurable,
               Promotion!OneExactPair, Promotion!ActiveSets
<1> HIDE DEF Promotion!PromotionInv
<1> QED BY <1>1, <1>2, <1>3, <1>4, <1>5, <1>6, <1>7, <1>8, <1>9, <1>10 DEF Promotion!Next

\* The inductive invariant of promotions: CommandIsAudited carries the research
\* of an audited key to the governance request and to the decision.
THEOREM PromotionInvariant == Promotion!Spec => []Promotion!PromotionInv
<1> USE PromotionAssumption DEF Promotion!PromotionConstants
<1>1. Promotion!Init => Promotion!PromotionInv
  <2> SUFFICES ASSUME Promotion!Init PROVE Promotion!PromotionInv
    OBVIOUS
  <2> USE DEF Promotion!Init
  <2>1. Promotion!TypeOK
    BY DEF Promotion!TypeOK, Promotion!Entity, Promotion!RulesVersion
  <2>2. Promotion!CommandIsAudited /\ Promotion!RequestedIsDurable
    BY DEF Promotion!CommandIsAudited, Promotion!RequestedIsDurable, Promotion!Free
  <2>3. Promotion!OneExactPair
    BY DEF Promotion!OneExactPair, Promotion!ActiveSets, Promotion!PinnedSet
  <2> QED BY <2>1, <2>2, <2>3 DEF Promotion!PromotionInv
<1>2. Promotion!PromotionInv /\ [Promotion!Next]_(Promotion!vars) => Promotion!PromotionInv'
  BY PromotionStep
<1> QED BY <1>1, <1>2, PTL DEF Promotion!Spec

\* Whatever commands race and whoever dies between the databases, a recorded
\* promotion request is in the governance store under its audited key, and the
\* active set and the live rules are the exact pair of one research.
THEOREM PromotionsAreExact == Promotion!Spec => []PromotionIsExact
<1>1. Promotion!PromotionInv => PromotionIsExact
  BY DEF Promotion!PromotionInv, PromotionIsExact
<1> QED BY <1>1, PromotionInvariant, PTL

-----------------------------------------------------------------------------
(* The registry of rules and sets                                          *)

\* An operation has the fields of its step.
LEMMA OperationShape ==
    ASSUME Registry!RegistryTypeOK, NEW p \in Actor, proc[p] # None
    PROVE  /\ proc[p].step = "rule" => proc[p] \in Registry!RuleOp
           /\ proc[p].step \in {"set", "commit"} => proc[p] \in Registry!SetOp
           /\ proc[p].step = "move" => proc[p] \in Registry!MoveOp
BY DEF Registry!RegistryTypeOK, Registry!RuleOp, Registry!SetOp, Registry!MoveOp

\* An operation that begins on what it has read, or ends, leaves the tables as
\* they are.
LEMMA OperationStep ==
    ASSUME Registry!RegistryInv, NEW p \in Actor, NEW new,
           UNCHANGED <<sets, exact>>, proc' = [proc EXCEPT ![p] = new],
           rules' \in [Rule -> Body \cup {None}], \A r \in Rule : rules[r] # None => rules'[r] # None,
           \/ new = None
           \/ new \in Registry!RuleOp \cup Registry!SetOp \cup Registry!MoveOp,
           new # None =>
             /\ new.step = "set" => Registry!MembersDefined(new.of)
             /\ new.step # "commit"
             /\ new.step = "move" => \A s \in new.archives \cup {new.of} : Registry!SetDefined(s),
           \A q \in Actor \ {p} : lock = q => lock' = q
    PROVE  Registry!RegistryInv'
<1> USE RegistryAssumption DEF Registry!RegistryConstants, Registry!RegistryInv
<1>1. \A q \in Actor : proc'[q] = IF q = p THEN new ELSE proc[q]
  BY DEF Registry!RegistryTypeOK
<1>2. Registry!RegistryTypeOK'
  BY DEF Registry!RegistryTypeOK
<1>3. Registry!ActiveSets' = Registry!ActiveSets
  BY DEF Registry!ActiveSets, Registry!SetDefined
<1>4. \A s \in SetVersion : /\ Registry!MembersDefined(s) => (Registry!MembersDefined(s))'
                            /\ Registry!SetDefined(s) <=> (Registry!SetDefined(s))'
  BY DEF Registry!MembersDefined, Registry!RuleDefined, Registry!SetDefined
<1>5. Registry!RegistryHolds'
  BY <1>3, <1>4 DEF Registry!RegistryHolds
<1>6. Registry!OperationIsSound'
  <2> SUFFICES ASSUME NEW q \in Actor, proc'[q] # None
               PROVE  /\ proc'[q].step \in {"set", "commit"} => (Registry!MembersDefined(proc[q].of))'
                      /\ proc'[q].step = "commit" =>
                           /\ lock' = q /\ ~(Registry!SetDefined(proc[q].of))' /\ exact'[proc'[q].of] = proc'[q].body
                           /\ proc'[q].status = "ACTIVE" => Registry!ActiveSets' = {}
                      /\ proc'[q].step = "move" =>
                           \A s \in proc'[q].archives \cup {proc'[q].of} : (sets[s] # None)'
    BY DEF Registry!OperationIsSound, Registry!SetDefined
  <2>1. CASE q = p
    BY <1>1, <2>1 DEF Registry!MembersDefined, Registry!RuleDefined, Registry!SetDefined,
        Registry!SetOp, Registry!RuleOp, Registry!MoveOp
  <2>2. CASE q # p
    <3>1. proc'[q] = proc[q] /\ proc[q] # None
      BY <1>1, <2>2
    <3>2. proc[q].step \in {"set", "commit"} => proc[q].of \in SetVersion
      BY <3>1, OperationShape DEF Registry!SetOp
    <3> QED BY <1>3, <1>4, <2>2, <3>1, <3>2
            DEF Registry!OperationIsSound, Registry!MembersDefined, Registry!RuleDefined, Registry!SetDefined
  <2> QED BY <2>1, <2>2
<1> QED BY <1>2, <1>5, <1>6

\* Every step of the registry keeps the invariant.
LEMMA RegistryStep ==
    ASSUME Registry!RegistryInv, [Registry!RegistryNext]_(Registry!registryVars)
    PROVE  Registry!RegistryInv'
<1> USE RegistryAssumption DEF Registry!RegistryConstants
<1> USE DEF Registry!sqlite, Registry!postgres, Registry!Begin, Registry!Done, Registry!Doing
<1>t. Registry!RegistryTypeOK /\ Registry!OperationIsSound /\ Registry!RegistryHolds
  BY DEF Registry!RegistryInv
<1>a. rules \in [Rule -> Body \cup {None}]
  BY <1>t DEF Registry!RegistryTypeOK
<1>1. ASSUME NEW p \in Actor, NEW r \in Rule, NEW b \in Body, Registry!ReadRule(p, r, b)
      PROVE  Registry!RegistryInv'
  <2> DEFINE new == [step |-> "rule", of |-> r, body |-> b]
  <2>1. UNCHANGED <<sets, exact, rules, lock>> /\ proc' = [proc EXCEPT ![p] = new]
    BY <1>1 DEF Registry!ReadRule
  <2>2. new \in Registry!RuleOp /\ new.step = "rule"
    BY DEF Registry!RuleOp
  <2> HIDE DEF new
  <2> QED BY <1>a, <2>1, <2>2, OperationStep
<1>2. ASSUME NEW p \in Actor, Registry!InsertRule(p) PROVE Registry!RegistryInv'
  <2>1. /\ UNCHANGED <<sets, exact, lock>> /\ proc' = [proc EXCEPT ![p] = None]
        /\ proc[p] # None /\ proc[p].step = "rule"
        /\ rules' = [rules EXCEPT ![proc[p].of] = IF @ = None THEN proc[p].body ELSE @]
    BY <1>2 DEF Registry!InsertRule
  <2>2. proc[p] \in Registry!RuleOp
    BY <1>t, <2>1, OperationShape
  <2>3. rules' \in [Rule -> Body \cup {None}] /\ \A r \in Rule : rules[r] # None => rules'[r] # None
    BY <1>a, <2>1, <2>2 DEF Registry!RuleOp
  <2> QED BY <2>1, <2>3, OperationStep
<1>3. ASSUME NEW p \in Actor, NEW r \in Rule, NEW b \in Body, Registry!SavePgRule(p, r, b)
      PROVE  Registry!RegistryInv'
  BY <1>3, <1>t DEF Registry!SavePgRule, Registry!RegistryInv, Registry!RegistryTypeOK,
     Registry!OperationIsSound, Registry!RegistryHolds, Registry!MembersDefined, Registry!RuleDefined,
     Registry!SetDefined, Registry!ActiveSets
<1>4. ASSUME NEW p \in Actor, NEW s \in SetVersion, NEW b \in Body, Registry!SaveResearchSet(p, s, b)
      PROVE  Registry!RegistryInv'
  BY <1>4, <1>t DEF Registry!SaveResearchSet, Registry!RegistryInv, Registry!RegistryTypeOK,
     Registry!OperationIsSound, Registry!RegistryHolds, Registry!MembersDefined, Registry!RuleDefined,
     Registry!SetDefined, Registry!ActiveSets
<1>5. ASSUME NEW p \in Actor, NEW s \in SetVersion, NEW b \in Body, NEW st \in Registry!Status,
             Registry!ReadSet(p, s, b, st)
      PROVE  Registry!RegistryInv'
  <2> DEFINE new == [step |-> "set", of |-> s, body |-> b, status |-> st]
  <2>1. /\ UNCHANGED <<sets, exact, rules, lock>> /\ proc' = [proc EXCEPT ![p] = new]
        /\ Registry!MembersDefined(s)
    BY <1>5 DEF Registry!ReadSet
  <2>2. new \in Registry!SetOp /\ new.step = "set" /\ new.of = s
    BY DEF Registry!SetOp
  <2> HIDE DEF new
  <2> QED BY <1>a, <2>1, <2>2, OperationStep
<1>6. ASSUME NEW p \in Actor, NEW s \in SetVersion, NEW st \in Registry!Status,
             Registry!ReadTransition(p, s, st)
      PROVE  Registry!RegistryInv'
  <2> DEFINE archives == IF st = "ACTIVE" THEN Registry!ActiveSets \ {s} ELSE {}
             new == [step |-> "move", of |-> s, status |-> st, archives |-> archives]
  <2>1. /\ UNCHANGED <<sets, exact, rules, lock>> /\ proc' = [proc EXCEPT ![p] = new]
        /\ Registry!SetDefined(s)
    BY <1>6 DEF Registry!ReadTransition
  <2>2. archives \subseteq SetVersion /\ \A t \in archives : Registry!SetDefined(t)
    BY DEF Registry!ActiveSets
  <2> HIDE DEF archives
  <2>3. /\ new \in Registry!MoveOp /\ new.step = "move"
        /\ \A t \in new.archives \cup {new.of} : Registry!SetDefined(t)
    BY <2>1, <2>2 DEF Registry!MoveOp
  <2> HIDE DEF new
  <2> QED BY <1>a, <2>1, <2>3, OperationStep
<1>7. ASSUME NEW p \in Actor, Registry!InsertSet(p) PROVE Registry!RegistryInv'
  <2> DEFINE s == proc[p].of
             ok == /\ ~Registry!SetDefined(s) /\ Registry!Accepts(s, proc[p].body)
                   /\ proc[p].status = "ACTIVE" => Registry!UniqueActive(s, {})
  <2>1. /\ UNCHANGED <<sets, rules>> /\ lock = None
        /\ proc[p] # None /\ proc[p].step = "set"
    BY <1>7 DEF Registry!InsertSet
  <2>2. proc[p] \in Registry!SetOp /\ s \in SetVersion /\ proc[p].body \in Body
    BY <1>t, <2>1, OperationShape DEF Registry!SetOp
  <2>3. CASE ~ok
    <3>1. UNCHANGED <<exact, lock>> /\ proc' = [proc EXCEPT ![p] = None]
      BY <1>7, <2>3 DEF Registry!InsertSet
    <3> QED BY <1>a, <2>1, <3>1, OperationStep
  <2>4. CASE ok
    <3> DEFINE new == [proc[p] EXCEPT !.step = "commit"]
    <3>1. /\ lock' = p /\ exact' = [exact EXCEPT ![s] = proc[p].body]
          /\ proc' = [proc EXCEPT ![p] = new]
      BY <1>7, <2>4 DEF Registry!InsertSet
    <3>2. /\ new \in Registry!SetOp /\ new # None /\ new.step = "commit" /\ new.of = s
          /\ new.body = proc[p].body /\ new.status = proc[p].status
      BY <2>2 DEF Registry!SetOp
    <3> HIDE DEF new
    <3>3. \A q \in Actor : proc'[q] = IF q = p THEN new ELSE proc[q]
      BY <1>t, <3>1 DEF Registry!RegistryTypeOK
    <3>4. /\ exact' \in [SetVersion -> Body \cup {None}] /\ exact'[s] = proc[p].body
          /\ \A t \in SetVersion \ {s} : exact'[t] = exact[t]
      BY <1>t, <2>2, <3>1 DEF Registry!RegistryTypeOK
    <3>5. Registry!RegistryTypeOK'
      BY <1>t, <2>1, <3>1, <3>2, <3>4 DEF Registry!RegistryTypeOK
    <3>6. Registry!ActiveSets' = Registry!ActiveSets /\ ~Registry!SetDefined(s)
      BY <2>1, <2>4 DEF Registry!ActiveSets, Registry!SetDefined
    <3>7. Registry!RegistryHolds'
      <4>1. \A t \in SetVersion : Registry!SetDefined(t) => t # s
        BY <3>6
      <4> QED BY <1>t, <2>1, <3>4, <3>6, <4>1
              DEF Registry!RegistryHolds, Registry!SetDefined, Registry!MembersDefined, Registry!RuleDefined
    <3>8. new.status = "ACTIVE" => Registry!ActiveSets = {}
      BY <2>4, <3>2, <3>6 DEF Registry!UniqueActive, Registry!ActiveSets
    <3>9. \A r \in Members[s] : rules'[r] # None
      BY <1>t, <2>1 DEF Registry!OperationIsSound, Registry!MembersDefined, Registry!RuleDefined
    <3>10. Registry!OperationIsSound'
      <4> SUFFICES ASSUME NEW q \in Actor, proc'[q] # None
                   PROVE  /\ proc'[q].step \in {"set", "commit"} => \A r \in Members[proc'[q].of] : rules'[r] # None
                          /\ proc'[q].step = "commit" =>
                               /\ lock' = q /\ sets'[proc'[q].of] = None /\ exact'[proc'[q].of] = proc'[q].body
                               /\ proc'[q].status = "ACTIVE" => Registry!ActiveSets' = {}
                          /\ proc'[q].step = "move" =>
                               \A t \in proc'[q].archives \cup {proc'[q].of} : sets'[t] # None
        BY DEF Registry!OperationIsSound, Registry!SetDefined, Registry!MembersDefined, Registry!RuleDefined
      <4>1. CASE q = p
        BY <2>1, <3>1, <3>2, <3>3, <3>4, <3>6, <3>8, <3>9, <4>1 DEF Registry!SetDefined
      <4>2. CASE q # p
        <5>1. proc'[q] = proc[q] /\ proc[q].step # "commit"
          BY <1>t, <2>1, <3>3, <4>2 DEF Registry!OperationIsSound
        <5> QED BY <1>t, <2>1, <5>1
                DEF Registry!OperationIsSound, Registry!SetDefined, Registry!MembersDefined, Registry!RuleDefined
      <4> QED BY <4>1, <4>2
    <3> QED BY <3>5, <3>7, <3>10 DEF Registry!RegistryInv
  <2> QED BY <2>3, <2>4
<1>8. ASSUME NEW p \in Actor, Registry!CommitSet(p) PROVE Registry!RegistryInv'
  <2> DEFINE s == proc[p].of
             new == Registry!SetRow(proc[p].body, proc[p].status)
  <2>1. /\ UNCHANGED <<exact, rules>> /\ lock' = None
        /\ proc[p] # None /\ proc[p].step = "commit"
        /\ sets' = [sets EXCEPT ![s] = new] /\ proc' = [proc EXCEPT ![p] = None]
    BY <1>8 DEF Registry!CommitSet
  <2>2. proc[p] \in Registry!SetOp /\ s \in SetVersion
    BY <1>t, <2>1, OperationShape DEF Registry!SetOp
  <2>3. /\ new \in Registry!SetRows /\ new # None
        /\ new.body = proc[p].body /\ new.status = proc[p].status
    BY <2>2 DEF Registry!SetOp, Registry!SetRows, Registry!SetRow
  <2>4. /\ Registry!MembersDefined(s) /\ lock = p /\ sets[s] = None /\ exact[s] = proc[p].body
        /\ proc[p].status = "ACTIVE" => Registry!ActiveSets = {}
    BY <1>t, <2>1 DEF Registry!OperationIsSound, Registry!SetDefined
  <2> HIDE DEF new
  <2>5. /\ sets' \in [SetVersion -> Registry!SetRows \cup {None}] /\ sets'[s] = new
        /\ \A t \in SetVersion \ {s} : sets'[t] = sets[t]
    BY <1>t, <2>1, <2>2, <2>3 DEF Registry!RegistryTypeOK
  <2>6. Registry!RegistryTypeOK'
    BY <1>t, <2>1, <2>5 DEF Registry!RegistryTypeOK
  <2>7. Registry!ActiveSets' = Registry!ActiveSets \/ Registry!ActiveSets' = {s}
    <3>1. CASE proc[p].status = "ACTIVE"
      BY <2>2, <2>3, <2>4, <2>5, <3>1 DEF Registry!ActiveSets, Registry!SetDefined
    <3>2. CASE proc[p].status # "ACTIVE"
      BY <2>2, <2>3, <2>4, <2>5, <3>2 DEF Registry!ActiveSets, Registry!SetDefined
    <3> QED BY <3>1, <3>2
  <2>8. Registry!RegistryHolds'
    <3>1. \A t, u \in Registry!ActiveSets' : t = u
      BY <1>t, <2>7 DEF Registry!RegistryHolds
    <3>2. \A t \in SetVersion : sets'[t] # None =>
             exact'[t] = sets'[t].body /\ \A r \in Members[t] : rules'[r] # None
      BY <1>t, <2>1, <2>3, <2>4, <2>5 DEF Registry!RegistryHolds, Registry!SetDefined, Registry!MembersDefined,
          Registry!RuleDefined
    <3> QED BY <3>1, <3>2 DEF Registry!RegistryHolds, Registry!SetDefined, Registry!MembersDefined, Registry!RuleDefined
  <2>9. Registry!OperationIsSound'
    <3>1. \A q \in Actor : proc'[q] # None => proc'[q] = proc[q] /\ q # p
      BY <1>t, <2>1 DEF Registry!RegistryTypeOK
    <3>2. \A q \in Actor : proc'[q] # None => proc[q].step # "commit"
      BY <1>t, <2>4, <3>1 DEF Registry!OperationIsSound
    <3>3. \A t \in SetVersion : sets[t] # None => sets'[t] # None
      BY <2>3, <2>5
    <3>4. \A q \in Actor : proc'[q] # None /\ proc'[q].step = "move" => proc'[q] \in Registry!MoveOp
      BY <1>t, <3>1, OperationShape
    <3> QED BY <1>t, <2>1, <3>1, <3>2, <3>3, <3>4
            DEF Registry!OperationIsSound, Registry!SetDefined, Registry!MembersDefined, Registry!RuleDefined,
                Registry!MoveOp
  <2> QED BY <2>6, <2>8, <2>9 DEF Registry!RegistryInv
<1>9. ASSUME NEW p \in Actor, Registry!WriteTransition(p) PROVE Registry!RegistryInv'
  <2>1. /\ UNCHANGED <<exact, rules, lock>> /\ lock = None
        /\ proc[p] # None /\ proc[p].step = "move" /\ proc' = [proc EXCEPT ![p] = None]
    BY <1>9 DEF Registry!WriteTransition
  <2>2. CASE UNCHANGED sets
    BY <1>a, <2>1, <2>2, OperationStep
  <2>3. CASE sets' # sets
    <3> DEFINE s == proc[p].of
               archives == proc[p].archives
               status == proc[p].status
    <3>1. sets' = Registry!Moved(p) /\ (status = "ACTIVE" => Registry!UniqueActive(s, archives))
      BY <1>9, <2>3 DEF Registry!WriteTransition
    <3>2. proc[p] \in Registry!MoveOp
      BY <1>t, <2>1, OperationShape
    <3>3. s \in SetVersion /\ archives \subseteq SetVersion /\ status \in Registry!Status
      BY <3>2 DEF Registry!MoveOp
    <3>4. \A t \in archives \cup {s} : sets[t] \in Registry!SetRows
      BY <1>t, <2>1, <3>3 DEF Registry!OperationIsSound, Registry!SetDefined, Registry!RegistryTypeOK
    <3>5. sets' = [t \in SetVersion |-> IF t = s THEN Registry!SetRow(sets[t].body, status)
                                       ELSE IF t \in archives THEN Registry!SetRow(sets[t].body, "ARCHIVE")
                                       ELSE sets[t]]
      BY <3>1 DEF Registry!Moved
    <3> HIDE DEF s, archives, status
    <3>6. \A t \in SetVersion :
             /\ sets'[t] \in Registry!SetRows \cup {None}
             /\ sets'[t] = None <=> sets[t] = None
             /\ sets[t] # None => sets'[t].body = sets[t].body
             /\ t = s => sets'[t].status = status
             /\ t # s /\ t \in archives => sets'[t].status = "ARCHIVE"
             /\ t # s /\ t \notin archives => sets'[t] = sets[t]
      <4> SUFFICES ASSUME NEW t \in SetVersion
                   PROVE  /\ sets'[t] \in Registry!SetRows \cup {None}
                          /\ sets'[t] = None <=> sets[t] = None
                          /\ sets[t] # None => sets'[t].body = sets[t].body
                          /\ t = s => sets'[t].status = status
                          /\ t # s /\ t \in archives => sets'[t].status = "ARCHIVE"
                          /\ t # s /\ t \notin archives => sets'[t] = sets[t]
        OBVIOUS
      <4>1. sets[t] \in Registry!SetRows \cup {None}
        BY <1>t DEF Registry!RegistryTypeOK
      <4>2. CASE t = s
        BY <3>3, <3>4, <3>5, <4>2 DEF Registry!SetRow, Registry!SetRows
      <4>3. CASE t # s /\ t \in archives
        BY <3>3, <3>4, <3>5, <4>3 DEF Registry!SetRow, Registry!SetRows, Registry!Status
      <4>4. CASE t # s /\ t \notin archives
        BY <3>5, <4>1, <4>4
      <4> QED BY <4>2, <4>3, <4>4
    <3>7. Registry!RegistryTypeOK'
      BY <1>t, <2>1, <3>5, <3>6 DEF Registry!RegistryTypeOK
    <3>8. \A t, u \in Registry!ActiveSets' : t = u
      <4>1. CASE status = "ACTIVE"
        BY <3>1, <3>6, <4>1 DEF Registry!ActiveSets, Registry!SetDefined, Registry!UniqueActive
      <4>2. CASE status # "ACTIVE"
        <5>1. Registry!ActiveSets' \subseteq Registry!ActiveSets
          BY <3>6, <4>2 DEF Registry!ActiveSets, Registry!SetDefined
        <5> QED BY <1>t, <5>1 DEF Registry!RegistryHolds
      <4> QED BY <4>1, <4>2
    <3>9. Registry!RegistryHolds'
      <4>1. \A t \in SetVersion : sets'[t] # None =>
               exact'[t] = sets'[t].body /\ \A r \in Members[t] : rules'[r] # None
        BY <1>t, <2>1, <3>6 DEF Registry!RegistryHolds, Registry!SetDefined, Registry!MembersDefined,
            Registry!RuleDefined
      <4> QED BY <3>8, <4>1 DEF Registry!RegistryHolds, Registry!SetDefined, Registry!MembersDefined, Registry!RuleDefined
    <3>10. Registry!OperationIsSound'
      <4>1. \A q \in Actor : proc'[q] # None => proc'[q] = proc[q] /\ proc[q].step # "commit"
        BY <1>t, <2>1 DEF Registry!RegistryTypeOK, Registry!OperationIsSound
      <4>2. \A q \in Actor : proc'[q] # None /\ proc'[q].step = "move" => proc'[q] \in Registry!MoveOp
        BY <1>t, <4>1, OperationShape
      <4> QED BY <1>t, <2>1, <3>6, <4>1, <4>2
              DEF Registry!OperationIsSound, Registry!SetDefined, Registry!MembersDefined, Registry!RuleDefined,
                  Registry!MoveOp
    <3> QED BY <3>7, <3>9, <3>10 DEF Registry!RegistryInv
  <2> QED BY <2>2, <2>3
<1>10. ASSUME NEW p \in Actor, Registry!Crash(p) PROVE Registry!RegistryInv'
  <2>1. /\ UNCHANGED <<sets, exact, rules>> /\ proc' = [proc EXCEPT ![p] = None]
        /\ \A q \in Actor \ {p} : lock = q => lock' = q
    BY <1>10 DEF Registry!Crash
  <2> QED BY <1>a, <2>1, OperationStep
<1>11. CASE UNCHANGED Registry!registryVars
  BY <1>11, <1>t DEF Registry!registryVars, Registry!RegistryInv, Registry!RegistryTypeOK,
     Registry!OperationIsSound, Registry!RegistryHolds, Registry!MembersDefined, Registry!RuleDefined,
     Registry!SetDefined, Registry!ActiveSets
<1> QED
  BY <1>1, <1>2, <1>3, <1>4, <1>5, <1>6, <1>7, <1>8, <1>9, <1>10, <1>11
     DEF Registry!RegistryNext, Registry!OfferRule, Registry!OfferSet

\* The inductive invariant of the registry: OperationIsSound says what survives
\* between the reads of an operation and its writes.
THEOREM RegistryInvariant == Registry!RegistrySpec => []Registry!RegistryInv
<1> USE RegistryAssumption DEF Registry!RegistryConstants
<1>1. Registry!RegistryInit => Registry!RegistryInv
  BY DEF Registry!RegistryInit, Registry!RegistryInv, Registry!RegistryTypeOK, Registry!OperationIsSound,
         Registry!RegistryHolds, Registry!ActiveSets, Registry!SetDefined
<1>2. Registry!RegistryInv /\ [Registry!RegistryNext]_(Registry!registryVars) => Registry!RegistryInv'
  BY RegistryStep
<1> QED BY <1>1, <1>2, PTL DEF Registry!RegistrySpec

-----------------------------------------------------------------------------
(* The versions of the trading rules                                       *)

\* The newest of the versions 1 .. n is n.
LEMMA NewestVersion == ASSUME NEW n \in Nat \ {0} PROVE Registry!Max(1 .. n) = n
<1>1. n \in 1 .. n /\ \A m \in 1 .. n : n >= m
  OBVIOUS
<1>2. \A x \in 1 .. n : (\A m \in 1 .. n : x >= m) => x = n
  BY <1>1
<1> QED BY <1>1, <1>2 DEF Registry!Max

\* An edit that goes on before its transaction, or ends, leaves the versions and
\* the copies as they are.
LEMMA EditStep ==
    ASSUME Registry!RulesInv, NEW e \in Actor, NEW new \in Registry!EditRow \cup {None},
           UNCHANGED <<versions, current, copies>>, editor' = [editor EXCEPT ![e] = new],
           tries' \in Nat,
           new # None => /\ new.step # "commit"
                         /\ new.step = "insert" => new.number \in 1 .. current + 1,
           \A f \in Actor \ {e} : rulesLock = f => rulesLock' = f
    PROVE  Registry!RulesInv'
<1> USE RegistryAssumption DEF Registry!RegistryConstants, Registry!RulesInv
<1>1. \A f \in Actor : editor'[f] = IF f = e THEN new ELSE editor[f]
  BY DEF Registry!RulesTypeOK
<1>2. Registry!RulesTypeOK'
  BY DEF Registry!RulesTypeOK
<1>3. Registry!PointerIsNewest'
  BY DEF Registry!PointerIsNewest
<1>4. Registry!EditIsSound'
  BY <1>1 DEF Registry!EditIsSound, Registry!CopyAccepted, Registry!Version
<1> QED BY <1>2, <1>3, <1>4

\* An edit that has taken its number.
LEMMA NumberedRow ==
    ASSUME NEW edit \in Registry!EditRow, NEW n \in Nat
    PROVE  /\ [edit EXCEPT !.step = "insert", !.number = n] \in Registry!EditRow
           /\ [edit EXCEPT !.step = "insert", !.number = n].step = "insert"
           /\ [edit EXCEPT !.step = "insert", !.number = n].number = n
<1> DEFINE mid == [edit EXCEPT !.step = "insert"]
<1>1. mid \in Registry!EditRow /\ mid.step = "insert"
  BY DEF Registry!EditRow
<1>2. [edit EXCEPT !.step = "insert", !.number = n] = [mid EXCEPT !.number = n]
  BY DEF Registry!EditRow
<1> HIDE DEF mid
<1>3. [mid EXCEPT !.number = n] \in Registry!EditRow
  BY <1>1 DEF Registry!EditRow
<1>4. [mid EXCEPT !.number = n].step = "insert" /\ [mid EXCEPT !.number = n].number = n
  BY <1>1 DEF Registry!EditRow
<1> QED BY <1>2, <1>3, <1>4

\* Every step of an edit keeps the invariant.
LEMMA RulesStep ==
    ASSUME Registry!RulesInv, [Registry!RulesNext]_(Registry!rulesVars)
    PROVE  Registry!RulesInv'
<1> USE RegistryAssumption DEF Registry!RegistryConstants, Registry!EditAt, Registry!EndEdit, Registry!EditGoto
<1>t. Registry!RulesTypeOK /\ Registry!EditIsSound /\ Registry!PointerIsNewest
  BY DEF Registry!RulesInv
<1>a. /\ current \in Nat \ {0} /\ tries \in Nat /\ versions \in [1 .. current -> Registry!VersionRow]
      /\ editor \in [Actor -> Registry!EditRow \cup {None}]
  BY <1>t DEF Registry!RulesTypeOK
<1>1. ASSUME NEW e \in Actor, Registry!Show(e) PROVE Registry!RulesInv'
  <2> DEFINE new == [step |-> "shown", from |-> current, draft |-> {}, at |-> tries + 1, number |-> 0]
  <2>1. /\ UNCHANGED <<versions, current, copies, rulesLock>> /\ editor' = [editor EXCEPT ![e] = new]
        /\ tries' \in Nat
    BY <1>1, <1>a DEF Registry!Show
  <2>2. new \in Registry!EditRow /\ new.step = "shown"
    BY <1>a DEF Registry!EditRow
  <2> HIDE DEF new
  <2> QED BY <2>1, <2>2, EditStep
<1>2. ASSUME NEW e \in Actor, NEW c \in Edit, Registry!Submit(e, c) PROVE Registry!RulesInv'
  <2> DEFINE draft == Registry!Apply(Registry!CurrentDraft, c)
             new == [editor[e] EXCEPT !.step = "check", !.draft = draft]
  <2>1. /\ UNCHANGED <<versions, current, copies, rulesLock>> /\ tries' \in Nat
        /\ editor' = [editor EXCEPT ![e] = new] \/ editor' = [editor EXCEPT ![e] = None]
        /\ editor[e] # None
    BY <1>2, <1>a DEF Registry!Submit
  <2>2. draft \in SUBSET Edit /\ editor[e] \in Registry!EditRow
    BY <1>a, <2>1 DEF Registry!Apply, Registry!CurrentDraft, Registry!VersionRow
  <2> HIDE DEF draft
  <2>3. new \in Registry!EditRow /\ new.step = "check"
    BY <2>2 DEF Registry!EditRow
  <2> HIDE DEF new
  <2> QED BY <2>1, <2>3, EditStep
<1>3. ASSUME NEW e \in Actor, Registry!CheckCurrent(e) PROVE Registry!RulesInv'
  <2> DEFINE new == [editor[e] EXCEPT !.step = "number"]
  <2>1. /\ UNCHANGED <<versions, current, copies, rulesLock>> /\ tries' \in Nat
        /\ editor' = [editor EXCEPT ![e] = new] \/ editor' = [editor EXCEPT ![e] = None]
        /\ editor[e] # None
    BY <1>3, <1>a DEF Registry!CheckCurrent
  <2>2. new \in Registry!EditRow /\ new.step = "number"
    BY <1>a, <2>1 DEF Registry!EditRow
  <2> HIDE DEF new
  <2> QED BY <2>1, <2>2, EditStep
<1>4. ASSUME NEW e \in Actor, Registry!TakeNumber(e) PROVE Registry!RulesInv'
  <2> DEFINE new == [editor[e] EXCEPT !.step = "insert", !.number = current + 1]
  <2>1. Registry!Max(DOMAIN versions) = current
    BY <1>a, NewestVersion
  <2>2. /\ UNCHANGED <<versions, current, copies, rulesLock>> /\ tries' \in Nat
        /\ editor' = [editor EXCEPT ![e] = new]
        /\ editor[e] # None
    BY <1>4, <1>a, <2>1 DEF Registry!TakeNumber
  <2>3. new \in Registry!EditRow /\ new.step = "insert" /\ new.number = current + 1
    <3>1. editor[e] \in Registry!EditRow /\ current + 1 \in Nat
      BY <1>a, <2>2
    <3> QED BY <3>1, NumberedRow
  <2>4. current + 1 \in 1 .. current + 1
    BY <1>a
  <2> HIDE DEF new
  <2> QED BY <2>2, <2>3, <2>4, EditStep
<1>5. ASSUME NEW e \in Actor, Registry!InsertVersion(e) PROVE Registry!RulesInv'
  <2> DEFINE r == Registry!Record(editor[e].number, Registry!Version(e))
             ok == Registry!FreeNumber(editor[e].number) /\ Registry!CopyAccepted(r)
  <2>1. /\ UNCHANGED <<versions, current, tries>> /\ rulesLock = None
        /\ editor[e] # None /\ editor[e].step = "insert"
    BY <1>5 DEF Registry!InsertVersion
  <2>2. CASE ~ok
    <3>1. UNCHANGED <<copies, rulesLock>> /\ editor' = [editor EXCEPT ![e] = None]
      BY <1>5, <2>2 DEF Registry!InsertVersion
    <3> QED BY <1>a, <2>1, <3>1, EditStep
  <2>3. CASE ok
    <3> DEFINE new == [editor[e] EXCEPT !.step = "commit"]
    <3>1. rulesLock' = e /\ copies' = copies \cup {r} /\ editor' = [editor EXCEPT ![e] = new]
      BY <1>5, <2>3 DEF Registry!InsertVersion
    <3>2. editor[e].number = current + 1
      BY <1>t, <1>a, <2>1, <2>3 DEF Registry!EditIsSound, Registry!FreeNumber
    <3>3. /\ new \in Registry!EditRow /\ new.step = "commit" /\ new.number = editor[e].number
          /\ new.draft = editor[e].draft /\ new.from = editor[e].from /\ new.at = editor[e].at
      BY <1>a, <2>1 DEF Registry!EditRow
    <3> HIDE DEF new
    <3>4. \A f \in Actor : editor'[f] = IF f = e THEN new ELSE editor[f]
      BY <1>a, <3>1
    <3>5. Registry!RulesTypeOK'
      BY <1>t, <2>1, <3>1, <3>3 DEF Registry!RulesTypeOK
    <3>6. r.number = current + 1
      BY <3>2 DEF Registry!Record
    <3>7. (Registry!Record(editor[e].number, Registry!Version(e)))' = r
      BY <3>3, <3>4 DEF Registry!Record, Registry!Version
    <3>8. Registry!CopyAccepted(r)
      BY <2>3
    <3>p. \A c \in copies : c.number = r.number /\ c.draft = r.draft => c = r
      BY <3>8 DEF Registry!CopyAccepted
    <3> HIDE DEF r
    <3>9. Registry!EditIsSound'
      <4> SUFFICES ASSUME NEW f \in Actor, editor'[f] # None
                   PROVE  /\ editor'[f].step \in {"insert", "commit"} => editor'[f].number \in 1 .. current' + 1
                          /\ editor'[f].step = "commit" =>
                               /\ rulesLock' = f /\ editor'[f].number = current' + 1
                               /\ (Registry!Record(editor[f].number, Registry!Version(f)))' \in copies'
                               /\ \A c \in copies' :
                                    /\ c.number = (Registry!Record(editor[f].number, Registry!Version(f)))'.number
                                    /\ c.draft = (Registry!Record(editor[f].number, Registry!Version(f)))'.draft
                                    => c = (Registry!Record(editor[f].number, Registry!Version(f)))'
        BY DEF Registry!EditIsSound, Registry!CopyAccepted
      <4>1. CASE f = e
        <5>1. editor'[f].number = current' + 1 /\ current' + 1 \in 1 .. current' + 1
          BY <1>a, <2>1, <3>2, <3>3, <3>4, <4>1
        <5> QED BY <3>1, <3>7, <3>p, <4>1, <5>1
      <4>2. CASE f # e
        <5>1. editor'[f] = editor[f]
          BY <3>4, <4>2
        <5>2. editor[f].step # "commit"
          BY <1>t, <2>1, <5>1 DEF Registry!EditIsSound
        <5> QED BY <1>t, <2>1, <5>1, <5>2 DEF Registry!EditIsSound
      <4> QED BY <4>1, <4>2
    <3>10. Registry!PointerIsNewest'
      <4>1. \A n \in 1 .. current : n # r.number
        BY <1>a, <3>6
      <4>2. \A n \in DOMAIN versions :
              /\ Registry!Record(n, versions[n]) \in copies'
              /\ {c \in copies' : c.number = n /\ c.draft = versions[n].draft} = {Registry!Record(n, versions[n])}
        BY <1>t, <3>1, <4>1 DEF Registry!PointerIsNewest
      <4> QED BY <1>t, <2>1, <4>2 DEF Registry!PointerIsNewest
    <3> QED BY <3>5, <3>9, <3>10 DEF Registry!RulesInv
  <2> QED BY <2>2, <2>3
<1>6. ASSUME NEW e \in Actor, Registry!CommitVersion(e) PROVE Registry!RulesInv'
  <2> DEFINE n == editor[e].number
             v == Registry!Version(e)
  <2>1. /\ UNCHANGED <<copies, tries>> /\ editor[e] # None /\ editor[e].step = "commit"
        /\ versions' = [m \in DOMAIN versions \cup {n} |-> IF m = n THEN v ELSE versions[m]]
        /\ current' = n /\ editor' = [editor EXCEPT ![e] = None]
    BY <1>6 DEF Registry!CommitVersion
  <2>2. /\ rulesLock = e /\ n = current + 1 /\ Registry!Record(n, v) \in copies
        /\ Registry!CopyAccepted(Registry!Record(n, v))
    BY <1>t, <2>1 DEF Registry!EditIsSound
  <2>3. v \in Registry!VersionRow
    BY <1>a, <2>1 DEF Registry!Version, Registry!VersionRow, Registry!EditRow
  <2>4. {c \in copies : c.number = n /\ c.draft = v.draft} = {Registry!Record(n, v)}
    BY <2>2, <2>3 DEF Registry!CopyAccepted, Registry!Record, Registry!VersionRow
  <2> HIDE DEF n, v
  <2>5. DOMAIN versions \cup {n} = 1 .. n /\ DOMAIN versions = 1 .. current /\ n \notin 1 .. current
    BY <1>a, <2>2
  <2>6. /\ versions' \in [1 .. n -> Registry!VersionRow] /\ versions'[n] = v
        /\ \A m \in 1 .. current : versions'[m] = versions[m] /\ m # n
    BY <1>a, <2>1, <2>3, <2>5
  <2>7. Registry!RulesTypeOK'
    <3>1. n \in Nat \ {0}
      BY <1>a, <2>2
    <3> QED BY <1>a, <2>1, <2>6, <3>1 DEF Registry!RulesTypeOK
  <2>8. Registry!PointerIsNewest'
    <3>1. \A m \in 1 .. n :
             /\ Registry!Record(m, versions'[m]) \in copies
             /\ {c \in copies : c.number = m /\ c.draft = versions'[m].draft} = {Registry!Record(m, versions'[m])}
      <4> SUFFICES ASSUME NEW m \in 1 .. n
                   PROVE  /\ Registry!Record(m, versions'[m]) \in copies
                          /\ {c \in copies : c.number = m /\ c.draft = versions'[m].draft}
                                = {Registry!Record(m, versions'[m])}
        OBVIOUS
      <4>1. CASE m = n
        BY <2>2, <2>4, <2>6, <4>1
      <4>2. CASE m # n
        <5>1. m \in DOMAIN versions /\ versions'[m] = versions[m]
          BY <2>5, <2>6, <4>2
        <5> QED BY <1>t, <5>1 DEF Registry!PointerIsNewest
      <4> QED BY <4>1, <4>2
    <3>2. DOMAIN versions' = 1 .. n
      BY <2>6
    <3> QED BY <2>1, <3>1, <3>2 DEF Registry!PointerIsNewest, Registry!Record
  <2>9. Registry!EditIsSound'
    <3>1. \A f \in Actor : editor'[f] # None =>
             editor'[f] = editor[f] /\ editor[f].step # "commit" /\ editor[f] \in Registry!EditRow
      BY <1>t, <1>a, <2>1, <2>2 DEF Registry!EditIsSound
    <3>2. \A f \in Actor : editor'[f] # None /\ editor'[f].step = "insert" => editor'[f].number \in 1 .. current' + 1
      <4>1. 1 .. current + 1 \subseteq 1 .. current' + 1
        BY <1>a, <2>1, <2>2
      <4> QED BY <1>t, <3>1, <4>1 DEF Registry!EditIsSound
    <3> QED BY <3>1, <3>2 DEF Registry!EditIsSound
  <2> QED BY <2>7, <2>8, <2>9 DEF Registry!RulesInv
<1>7. ASSUME NEW e \in Actor, Registry!Die(e) PROVE Registry!RulesInv'
  <2>1. /\ UNCHANGED <<versions, current, copies, tries>> /\ editor' = [editor EXCEPT ![e] = None]
        /\ \A f \in Actor \ {e} : rulesLock = f => rulesLock' = f
    BY <1>7 DEF Registry!Die
  <2> QED BY <1>a, <2>1, EditStep
<1>8. CASE UNCHANGED Registry!rulesVars
  BY <1>8, <1>t DEF Registry!rulesVars, Registry!RulesInv, Registry!RulesTypeOK, Registry!EditIsSound,
     Registry!PointerIsNewest, Registry!CopyAccepted, Registry!Version
<1> QED BY <1>1, <1>2, <1>3, <1>4, <1>5, <1>6, <1>7, <1>8 DEF Registry!RulesNext

\* The inductive invariant of the rules' versions: EditIsSound says what the
\* write lock protects between the insertion and the commit.
THEOREM RulesInvariant == Registry!RulesSpec => []Registry!RulesInv
<1> USE RegistryAssumption DEF Registry!RegistryConstants
<1>1. Registry!RulesInit => Registry!RulesInv
  <2> SUFFICES ASSUME Registry!RulesInit PROVE Registry!RulesInv
    OBVIOUS
  <2>1. /\ versions = [n \in {1} |-> Registry!InitialVersion] /\ current = 1
        /\ copies = {Registry!Record(1, Registry!InitialVersion)}
        /\ editor = [e \in Actor |-> None] /\ tries = 0
    BY DEF Registry!RulesInit
  <2>2. 1 .. 1 = {1} /\ DOMAIN versions = {1} /\ versions[1] = Registry!InitialVersion
    BY <2>1
  <2>3. Registry!InitialVersion \in Registry!VersionRow
    BY DEF Registry!VersionRow, Registry!InitialVersion
  <2>4. Registry!RulesTypeOK
    BY <2>1, <2>2, <2>3 DEF Registry!RulesTypeOK
  <2>5. Registry!EditIsSound
    BY <2>1 DEF Registry!EditIsSound
  <2>6. /\ Registry!Record(1, Registry!InitialVersion).number = 1
        /\ Registry!Record(1, Registry!InitialVersion).draft = Registry!InitialVersion.draft
    BY DEF Registry!Record
  <2>7. Registry!PointerIsNewest
    BY <2>1, <2>2, <2>6 DEF Registry!PointerIsNewest
  <2> QED BY <2>4, <2>5, <2>7 DEF Registry!RulesInv
<1>2. Registry!RulesInv /\ [Registry!RulesNext]_(Registry!rulesVars) => Registry!RulesInv'
  BY RulesStep
<1> QED BY <1>1, <1>2, PTL DEF Registry!RulesSpec

\* Whatever registrations, promotions and edits race and whoever dies between
\* the two databases: one ACTIVE set at most, every set with its exact copy and
\* its defined members; the versions of the rules without a gap, the pointer at
\* the newest, and each with the only copy of its identity.
THEOREM VersionsAreKept == Registry!RegistrySpec /\ Registry!RulesSpec => []VersionsHold
<1>1. Registry!RegistryInv /\ Registry!RulesInv => VersionsHold
  BY DEF Registry!RegistryInv, Registry!RulesInv, VersionsHold
<1> QED BY <1>1, RegistryInvariant, RulesInvariant, PTL

-----------------------------------------------------------------------------
(* The execution of a demo                                                 *)

\* A dispatch has the fields of its step.
LEMMA DispatchShape ==
    ASSUME Execution!TypeOK, NEW w \in Worker
    PROVE  /\ disp[w].pc = "claimed" => disp[w] \in Execution!Claimed
           /\ disp[w].pc = "read" => disp[w] \in Execution!Read
           /\ disp[w].pc = "marked" => disp[w] \in Execution!Marked
           /\ disp[w].pc = "cycled" => disp[w] \in Execution!Cycled
           /\ disp[w].pc \in {"idle", "claimed", "read", "marked", "cycled"}
BY DEF Execution!TypeOK, Execution!NoDispatch, Execution!Claimed, Execution!Read, Execution!Marked,
       Execution!Cycled

\* What a dispatch has to be for the invariant, in the record and the clock of
\* a state.
LEMMA DispatchStep ==
    ASSUME Execution!DemoInv, NEW w \in Worker, NEW new,
           UNCHANGED <<rec, clock>>, disp' = [disp EXCEPT ![w] = new],
           messages \cup consumed \subseteq (messages \cup consumed)',
           \A m \in (messages \cup consumed)' : m \in messages \cup consumed,
           Execution!DemoIsDriven', UNCHANGED recovery,
           \/ new = Execution!NoDispatch
           \/ new \in Execution!Claimed
           \/ new \in Execution!Read /\ new.base = rec /\ ~Execution!Terminal(rec)
           \/ /\ new \in Execution!Marked \cup Execution!Cycled
              /\ IF new.held
                 THEN /\ ~Execution!Terminal(rec) /\ new.mine.rev > rec.rev
                      /\ new.pc = "marked" => ~Execution!Terminal(new.mine)
                      /\ Execution!OnTime(new.mine) /\ new.mine.st # "PENDING"
                      /\ \A v \in Worker \ {w} : ~Execution!Holds(v)
                 ELSE Execution!Terminal(rec) /\ Execution!Terminal(new.mine)
    PROVE  Execution!DemoInv'
<1> USE DemoAssumption DEF Execution!DemoConstants
<1>t. /\ Execution!TypeOK /\ Execution!DispatchIsSound /\ Execution!ElapsedIsObserved
      /\ Execution!MessagesAreOfThePast
  BY DEF Execution!DemoInv
<1>1. \A v \in Worker : disp'[v] = IF v = w THEN new ELSE disp[v]
  BY <1>t DEF Execution!TypeOK
<1>2. (messages \cup consumed)' = messages \cup consumed
  OBVIOUS
<1>3. Execution!TypeOK'
  <2>1. /\ Execution!Claimed' = Execution!Claimed /\ Execution!Read' = Execution!Read
        /\ Execution!Marked' = Execution!Marked /\ Execution!Cycled' = Execution!Cycled
    BY <1>2 DEF Execution!Claimed, Execution!Read, Execution!Marked, Execution!Cycled
  <2>2. new \in {Execution!NoDispatch} \cup Execution!Claimed \cup Execution!Read
                  \cup Execution!Marked \cup Execution!Cycled
    OBVIOUS
  <2>3. disp' \in [Worker -> {Execution!NoDispatch} \cup Execution!Claimed \cup Execution!Read
                               \cup Execution!Marked \cup Execution!Cycled]
    BY <1>t, <2>2 DEF Execution!TypeOK
  <2> QED BY <1>t, <1>2, <2>1, <2>3 DEF Execution!TypeOK
<1>4. Execution!MessagesAreOfThePast'
  BY <1>t, <1>2 DEF Execution!MessagesAreOfThePast
<1>5. /\ new.pc \in {"idle", "claimed", "read", "marked", "cycled"}
      /\ new.pc = "read" => new.base = rec /\ ~Execution!Terminal(rec)
      /\ new.pc \in {"marked", "cycled"} =>
           IF new.held
           THEN /\ ~Execution!Terminal(rec) /\ new.mine.rev > rec.rev
                /\ new.pc = "marked" => ~Execution!Terminal(new.mine)
                /\ Execution!OnTime(new.mine) /\ new.mine.st # "PENDING"
                /\ \A v \in Worker \ {w} : ~Execution!Holds(v)
           ELSE Execution!Terminal(rec) /\ Execution!Terminal(new.mine)
  BY DEF Execution!NoDispatch, Execution!Claimed, Execution!Read, Execution!Marked, Execution!Cycled
<1>6. \A v \in Worker : Execution!Holds(v)' <=>
         IF v = w THEN new.pc \in {"marked", "cycled"} /\ new.held ELSE Execution!Holds(v)
  BY <1>1 DEF Execution!Holds
<1>7. Execution!DispatchIsSound'
  <2>1. \A u, v \in Worker : Execution!Holds(u)' /\ Execution!Holds(v)' => u = v
    BY <1>t, <1>5, <1>6 DEF Execution!DispatchIsSound
  <2>2. ASSUME NEW v \in Worker
        PROVE  /\ disp'[v].pc = "read" =>
                    /\ ~Execution!Terminal(disp'[v].base) /\ disp'[v].base.rev <= rec'.rev
                    /\ disp'[v].base.rev = rec'.rev => disp'[v].base = rec'
               /\ disp'[v].pc \in {"marked", "cycled"} =>
                    IF disp'[v].held THEN ~Execution!Terminal(rec') /\ disp'[v].mine.rev > rec'.rev
                    ELSE Execution!Terminal(rec') /\ Execution!Terminal(disp'[v].mine)
               /\ disp'[v].pc = "marked" /\ disp'[v].held => ~Execution!Terminal(disp'[v].mine)
    <3>1. CASE v = w
      <4>1. rec.rev <= rec.rev
        BY <1>t DEF Execution!TypeOK, Execution!Rec
      <4> QED BY <1>1, <1>5, <3>1, <4>1
    <3>2. CASE v # w
      BY <1>t, <1>1, <3>2 DEF Execution!DispatchIsSound
    <3> QED BY <3>1, <3>2
  <2> QED BY <2>1, <2>2 DEF Execution!DispatchIsSound, Execution!Terminal
<1>8. Execution!ElapsedIsObserved'
  <2>1. Execution!OnTime(rec)' /\ \A r : Execution!OnTime(r)' <=> Execution!OnTime(r)
    BY <1>t DEF Execution!ElapsedIsObserved, Execution!OnTime, Execution!Terminal
  <2>2. ASSUME NEW v \in Worker
        PROVE  /\ disp'[v].pc = "read" => Execution!OnTime(disp'[v].base)
               /\ Execution!Holds(v)' => Execution!OnTime(disp'[v].mine) /\ disp'[v].mine.st # "PENDING"
    BY <1>t, <1>1, <1>5, <1>6 DEF Execution!ElapsedIsObserved
  <2>3. \A v \in Worker :
          /\ disp'[v].pc = "read" => Execution!OnTime(disp[v].base)'
          /\ Execution!Holds(v)' => Execution!OnTime(disp[v].mine)' /\ disp'[v].mine.st # "PENDING"
    BY <2>2 DEF Execution!OnTime, Execution!Terminal
  <2> QED BY <2>1, <2>3 DEF Execution!ElapsedIsObserved
<1> QED BY <1>3, <1>4, <1>7, <1>8 DEF Execution!DemoInv

\* Merged progress is a record of the same status and revision that counts the
\* duration as elapsed only once it was observed.
LEMMA ProgressIsObserved ==
    ASSUME NEW r \in Execution!Rec, clock \in 0..MaxTime, Execution!OnTime(r), r.st # "PENDING"
    PROVE  LET p == Execution!MonotonicProgress(r, clock) IN
           /\ p \in Execution!Rec /\ p.rev = r.rev /\ p.st = r.st /\ p.started = r.started
           /\ p.elapsed => clock >= r.started + Duration
<1> USE DemoAssumption DEF Execution!DemoConstants
<1> DEFINE Due == clock >= r.started + Duration
           p == [r EXCEPT !.seen = clock, !.elapsed = r.elapsed \/ Due]
<1>0. Due \in BOOLEAN /\ (r.elapsed => Due)
  BY DEF Execution!OnTime
<1>2. Execution!MonotonicProgress(r, clock) = IF clock <= r.seen THEN r ELSE p
  BY DEF Execution!MonotonicProgress
<1> HIDE DEF Due
<1>1. /\ p \in Execution!Rec /\ p.rev = r.rev /\ p.st = r.st /\ p.started = r.started
      /\ p.elapsed <=> r.elapsed \/ Due
  BY <1>0 DEF Execution!Rec
<1> HIDE DEF p
<1>3. Due => clock >= r.started + Duration
  BY DEF Due
<1> QED BY <1>0, <1>1, <1>2, <1>3

\* A record with a new revision, one with a new status, and one with a start.
LEMMA RevisedRecord ==
    ASSUME NEW r \in Execution!Rec, NEW n \in Nat, NEW q, q = [r EXCEPT !.rev = n]
    PROVE  /\ q \in Execution!Rec /\ q.rev = n /\ q.st = r.st /\ q.started = r.started
           /\ q.elapsed = r.elapsed
BY DEF Execution!Rec

LEMMA WrittenRecord ==
    ASSUME NEW r \in Execution!Rec, NEW st \in {"RUNNING", "COMPLETED"}, NEW q,
           q = [r EXCEPT !.st = st]
    PROVE  /\ q \in Execution!Rec /\ q.rev = r.rev /\ q.st = st /\ q.started = r.started
           /\ q.elapsed = r.elapsed
BY DEF Execution!Rec

LEMMA StartedRecord ==
    ASSUME NEW r \in Execution!Rec, NEW t \in 0..MaxTime, NEW q, q = [r EXCEPT !.started = t]
    PROVE  q \in Execution!Rec /\ q.rev = r.rev /\ q.st = r.st /\ q.started = t /\ q.elapsed = r.elapsed
BY DEF Execution!Rec

\* Every step of the workers, of a recovery and of the market keeps the
\* invariant, leaves a completed record as it is and completes one only once the
\* duration was observed.
LEMMA DemoStep ==
    ASSUME Execution!DemoInv, [Execution!Next]_(Execution!vars)
    PROVE  /\ Execution!DemoInv'
           /\ Execution!Terminal(rec) => rec' = rec
           /\ ~Execution!Terminal(rec) /\ Execution!Terminal(rec') => clock >= rec'.started + Duration
<1> USE DemoAssumption DEF Execution!DemoConstants
<1>t. /\ Execution!TypeOK /\ Execution!DispatchIsSound /\ Execution!ElapsedIsObserved
      /\ Execution!MessagesAreOfThePast /\ Execution!DemoIsDriven
  BY DEF Execution!DemoInv
<1>r. rec \in Execution!Rec /\ clock \in 0..MaxTime /\ rec.rev \in Nat
  BY <1>t DEF Execution!TypeOK, Execution!Rec
<1> DEFINE Goal == /\ Execution!DemoInv'
                   /\ Execution!Terminal(rec) => rec' = rec
                   /\ ~Execution!Terminal(rec) /\ Execution!Terminal(rec') => clock >= rec'.started + Duration
<1>1. ASSUME NEW w \in Worker, Execution!Claim(w) PROVE Goal
  <2>1. PICK m \in messages : disp' = [disp EXCEPT ![w] = [pc |-> "claimed", msg |-> m]]
    BY <1>1 DEF Execution!Claim
  <2>2. UNCHANGED <<rec, messages, consumed, clock, recovery>>
    BY <1>1 DEF Execution!Claim
  <2>3. [pc |-> "claimed", msg |-> m] \in Execution!Claimed
    BY DEF Execution!Claimed
  <2>4. Execution!DemoIsDriven'
    BY <1>t, <2>2 DEF Execution!DemoIsDriven
  <2>5. Execution!DemoInv'
    BY <2>1, <2>2, <2>3, <2>4, DispatchStep
  <2> QED BY <2>2, <2>5
<1>2. ASSUME NEW w \in Worker, Execution!ReadRecord(w) PROVE Goal
  <2>1. UNCHANGED <<rec, clock, recovery>> /\ disp[w] \in Execution!Claimed
    BY <1>2, <1>t, DispatchShape DEF Execution!ReadRecord
  <2>2. disp[w].msg \in messages \cup consumed
    BY <2>1 DEF Execution!Claimed
  <2>3. CASE Execution!Terminal(rec)
    <3>1. /\ messages' = (messages \ {disp[w].msg}) \cup ({} \ consumed)
          /\ consumed' = consumed \cup {disp[w].msg}
          /\ disp' = [disp EXCEPT ![w] = Execution!NoDispatch]
      BY <1>2, <2>3 DEF Execution!ReadRecord, Execution!Consume
    <3>2. messages' \cup consumed' = messages \cup consumed
      BY <2>2, <3>1
    <3>3. Execution!DemoIsDriven'
      BY <2>1, <2>3 DEF Execution!DemoIsDriven, Execution!Terminal
    <3>4. Execution!DemoInv'
      BY <2>1, <3>1, <3>2, <3>3, DispatchStep
    <3> QED BY <2>1, <3>4
  <2>4. CASE ~Execution!Terminal(rec)
    <3> DEFINE new == [pc |-> "read", msg |-> disp[w].msg, base |-> rec]
    <3>1. UNCHANGED <<messages, consumed>> /\ disp' = [disp EXCEPT ![w] = new]
      BY <1>2, <2>4 DEF Execution!ReadRecord
    <3>2. new \in Execution!Read /\ new.base = rec
      BY <1>r, <2>2 DEF Execution!Read
    <3>3. Execution!DemoIsDriven'
      BY <1>t, <2>1, <3>1 DEF Execution!DemoIsDriven, Execution!Terminal
    <3> HIDE DEF new
    <3>4. Execution!DemoInv'
      BY <2>1, <2>4, <3>1, <3>2, <3>3, DispatchStep
    <3> QED BY <2>1, <3>4
  <2> QED BY <2>3, <2>4
<1>3. ASSUME NEW w \in Worker, Execution!MarkRunning(w) PROVE Goal
  <2> DEFINE base == disp[w].base
             kept == rec.rev # base.rev /\ Execution!Terminal(rec)
             mine == IF kept THEN rec ELSE [base EXCEPT !.st = "RUNNING", !.rev = rec.rev + 1,
                                               !.started = Execution!StartedAt(base)]
             new == [pc |-> "marked", msg |-> disp[w].msg, held |-> ~kept, mine |-> mine]
  <2>1. /\ UNCHANGED <<rec, messages, consumed, clock, recovery>> /\ disp' = [disp EXCEPT ![w] = new]
        /\ disp[w].pc = "read" /\ disp[w] \in Execution!Read
        /\ \A v \in Worker : ~Execution!Holds(v)
    BY <1>3, <1>t, DispatchShape DEF Execution!MarkRunning, Execution!Locked, Execution!Holds
  <2>2. /\ base \in Execution!Rec /\ disp[w].msg \in messages \cup consumed
        /\ ~Execution!Terminal(base) /\ (base.rev = rec.rev => base = rec)
        /\ Execution!OnTime(base)
    BY <1>t, <2>1 DEF Execution!Read, Execution!DispatchIsSound, Execution!ElapsedIsObserved
  <2> HIDE DEF base
  <2>3. /\ mine \in Execution!Rec
        /\ ~kept => /\ ~Execution!Terminal(rec) /\ mine.rev > rec.rev /\ ~Execution!Terminal(mine)
                    /\ Execution!OnTime(mine) /\ mine.st # "PENDING"
        /\ kept => Execution!Terminal(rec) /\ Execution!Terminal(mine)
    <3>1. CASE kept
      BY <1>r, <3>1
    <3>2. CASE ~kept
      <4>1. ~Execution!Terminal(rec)
        BY <2>2, <3>2
      <4>2. /\ mine \in Execution!Rec /\ mine.st = "RUNNING" /\ mine.rev = rec.rev + 1
            /\ mine.elapsed = base.elapsed /\ mine.started = Execution!StartedAt(base)
        <5> DEFINE k == rec.rev + 1
                   b == Execution!StartedAt(base)
        <5>0. k \in Nat /\ b \in 0..MaxTime
          BY <1>r, <2>2 DEF Execution!StartedAt, Execution!Rec
        <5>1. mine = [base EXCEPT !.st = "RUNNING", !.rev = k, !.started = b]
          BY <3>2
        <5> HIDE DEF mine, kept, k, b
        <5> DEFINE p == [base EXCEPT !.st = "RUNNING"]
                   q == [p EXCEPT !.rev = k]
        <5>2. mine = [q EXCEPT !.started = b]
          BY <2>2, <5>1 DEF Execution!Rec
        <5>3. p \in Execution!Rec /\ p.st = "RUNNING" /\ p.elapsed = base.elapsed
          BY <2>2, WrittenRecord
        <5> HIDE DEF p
        <5>4. q \in Execution!Rec /\ q.st = "RUNNING" /\ q.rev = k /\ q.elapsed = base.elapsed
          BY <5>0, <5>3, RevisedRecord
        <5> HIDE DEF q
        <5>5. /\ mine \in Execution!Rec /\ mine.st = "RUNNING" /\ mine.rev = k
              /\ mine.elapsed = base.elapsed /\ mine.started = b
          BY <5>0, <5>2, <5>4, StartedRecord
        <5> QED BY <5>5 DEF k, b
      <4> HIDE DEF mine, kept
      <4>3. mine.rev > rec.rev
        BY <1>r, <4>2
      <4>4. Execution!OnTime(mine)
        BY <2>2, <4>2 DEF Execution!OnTime, Execution!Terminal, Execution!StartedAt
      <4> QED BY <2>2, <3>2, <4>1, <4>2, <4>3, <4>4 DEF Execution!Terminal
    <3> QED BY <3>1, <3>2
  <2> HIDE DEF mine
  <2>4. /\ new \in Execution!Marked /\ new.held = ~kept /\ new.mine = mine /\ new.pc = "marked"
    BY <2>2, <2>3 DEF Execution!Marked
  <2>5. Execution!DemoIsDriven'
    BY <1>t, <2>1 DEF Execution!DemoIsDriven, Execution!Terminal
  <2> HIDE DEF new, kept
  <2>6. Execution!DemoInv'
    BY <2>1, <2>3, <2>4, <2>5, DispatchStep
  <2> QED BY <2>1, <2>6
<1>4. ASSUME NEW w \in Worker, Execution!Cycle(w) PROVE Goal
  <2> DEFINE d == disp[w]
             next == Execution!MonotonicProgress(d.mine, clock)
             Mine(o) == IF ~d.held \/ o = "wait" THEN d.mine
                        ELSE IF o = "progress" THEN [next EXCEPT !.rev = @ + 1]
                        ELSE [d.mine EXCEPT !.st = "COMPLETED", !.rev = @ + 1]
             New(o) == [pc |-> "cycled", msg |-> d.msg, held |-> d.held, outcome |-> o, mine |-> Mine(o)]
  <2>1. /\ UNCHANGED <<rec, messages, consumed, clock, recovery>>
        /\ d.pc = "marked" /\ d \in Execution!Marked
    BY <1>4, <1>t, DispatchShape DEF Execution!Cycle
  <2>2. PICK o \in {"wait", "progress", "terminal"} :
            (o = "terminal" => next.elapsed) /\ disp' = [disp EXCEPT ![w] = New(o)]
    BY <1>4, ZenonT(60) DEF Execution!Cycle
  <2>3. /\ d.mine \in Execution!Rec /\ d.held \in BOOLEAN /\ d.msg \in messages \cup consumed
        /\ d.held => /\ ~Execution!Terminal(rec) /\ d.mine.rev > rec.rev /\ ~Execution!Terminal(d.mine)
                     /\ Execution!OnTime(d.mine) /\ d.mine.st # "PENDING"
        /\ ~d.held => Execution!Terminal(rec) /\ Execution!Terminal(d.mine)
    BY <1>t, <2>1 DEF Execution!Marked, Execution!DispatchIsSound, Execution!ElapsedIsObserved, Execution!Holds
  <2>4. d.held =>
          /\ next \in Execution!Rec /\ next.rev = d.mine.rev /\ next.st = d.mine.st
          /\ next.started = d.mine.started /\ (next.elapsed => clock >= d.mine.started + Duration)
    BY <1>r, <2>3, ProgressIsObserved
  <2>5. d.held => \A v \in Worker \ {w} : ~Execution!Holds(v)
    BY <1>t, <2>1 DEF Execution!DispatchIsSound, Execution!Holds
  <2> DEFINE m == Mine(o)
  <2>6. /\ m \in Execution!Rec
        /\ d.held => /\ m.rev > rec.rev
                     /\ Execution!OnTime(m) /\ m.st # "PENDING"
        /\ ~d.held => m = d.mine
    <3> HIDE DEF d, next
    <3>1. CASE ~d.held
      <4>1. m = d.mine
        BY <3>1
      <4> HIDE DEF m
      <4> QED BY <2>3, <3>1, <4>1
    <3>2. CASE d.held /\ o = "terminal"
      <4>1. m = [d.mine EXCEPT !.st = "COMPLETED", !.rev = d.mine.rev + 1]
        BY <3>2
      <4> HIDE DEF m
      <4>3. d.mine.rev \in Nat
        BY <2>3 DEF Execution!Rec
      <4>2. m \in Execution!Rec /\ m.rev = d.mine.rev + 1 /\ m.st = "COMPLETED" /\ m.started = d.mine.started
        <5> DEFINE k == d.mine.rev + 1
        <5>1. k \in Nat /\ m = [d.mine EXCEPT !.st = "COMPLETED", !.rev = k]
          BY <4>1, <4>3
        <5> HIDE DEF k
        <5> DEFINE p == [d.mine EXCEPT !.st = "COMPLETED"]
        <5>2. m = [p EXCEPT !.rev = k]
          BY <2>3, <5>1 DEF Execution!Rec
        <5>3. p \in Execution!Rec /\ p.st = "COMPLETED" /\ p.started = d.mine.started
          BY <2>3, WrittenRecord
        <5> HIDE DEF p
        <5>4. m \in Execution!Rec /\ m.rev = k /\ m.st = p.st /\ m.started = p.started
          <6>1. k \in Nat
            BY <5>1
          <6>2. p \in Execution!Rec
            BY <5>3
          <6> QED BY <5>2, <6>1, <6>2, RevisedRecord
        <5>5. m.st = "COMPLETED" /\ m.started = d.mine.started
          BY <5>3, <5>4
        <5> QED BY <5>4, <5>5 DEF k
      <4>4. clock >= d.mine.started + Duration
        BY <2>2, <2>4, <3>2
      <4>5. Execution!OnTime(m) /\ m.st # "PENDING"
        BY <4>2, <4>4 DEF Execution!OnTime
      <4>6. m.rev > rec.rev
        BY <1>r, <2>3, <3>2, <4>2, <4>3
      <4> QED BY <3>2, <4>2, <4>5, <4>6
    <3>3. CASE d.held /\ o = "progress"
      <4>1. m = [next EXCEPT !.rev = next.rev + 1]
        BY <3>3
      <4> HIDE DEF m
      <4>3. next.rev \in Nat
        BY <2>4, <3>3 DEF Execution!Rec
      <4>2. /\ m \in Execution!Rec /\ m.rev = next.rev + 1 /\ m.st = next.st /\ m.elapsed = next.elapsed
            /\ m.started = next.started
        <5> DEFINE k == next.rev + 1
        <5>1. k \in Nat /\ m = [next EXCEPT !.rev = k]
          BY <4>1, <4>3
        <5> HIDE DEF k
        <5>2. /\ m \in Execution!Rec /\ m.rev = k /\ m.st = next.st /\ m.elapsed = next.elapsed
              /\ m.started = next.started
          BY <2>4, <3>3, <5>1, RevisedRecord
        <5> QED BY <5>2 DEF k
      <4>4. m.rev > rec.rev
        BY <1>r, <2>3, <2>4, <3>3, <4>2, <4>3
      <4>6. ~Execution!Terminal(m) /\ m.st # "PENDING"
        BY <2>3, <2>4, <3>3, <4>2 DEF Execution!Terminal
      <4>5. Execution!OnTime(m)
        BY <2>4, <3>3, <4>2, <4>6 DEF Execution!OnTime
      <4> QED BY <3>3, <4>2, <4>4, <4>5, <4>6
    <3>4. CASE d.held /\ o = "wait"
      <4>1. m = d.mine
        BY <3>4
      <4> HIDE DEF m
      <4> QED BY <2>3, <3>4, <4>1
    <3> QED BY <2>3, <3>1, <3>2, <3>3, <3>4
  <2> HIDE DEF Mine
  <2>7. New(o) \in Execution!Cycled /\ New(o).held = d.held /\ New(o).mine = m /\ New(o).pc = "cycled"
    BY <2>3, <2>6 DEF Execution!Cycled
  <2>8. Execution!DemoIsDriven'
    BY <1>t, <2>1 DEF Execution!DemoIsDriven, Execution!Terminal
  <2> DEFINE new == New(o)
  <2>9. disp' = [disp EXCEPT ![w] = new] /\ new \in Execution!Cycled /\ new.held = d.held /\ new.mine = m
        /\ new.pc = "cycled"
    BY <2>2, <2>7
  <2> HIDE DEF new, New, m, d
  <2>10. Execution!DemoInv'
    BY <2>1, <2>3, <2>5, <2>6, <2>8, <2>9, DispatchStep
  <2> QED BY <2>1, <2>10
<1>6. ASSUME NEW w \in Worker, Execution!Rollback(w) PROVE Goal
  <2>1. UNCHANGED <<rec, messages, consumed, clock, recovery>> /\ disp' = [disp EXCEPT ![w] = Execution!NoDispatch]
    BY <1>6 DEF Execution!Rollback
  <2>2. Execution!DemoIsDriven'
    BY <1>t, <2>1 DEF Execution!DemoIsDriven, Execution!Terminal
  <2>3. Execution!DemoInv'
    BY <2>1, <2>2, DispatchStep
  <2> QED BY <2>1, <2>3
<1>5. ASSUME NEW w \in Worker, Execution!Commit(w) PROVE Goal
  <2> DEFINE d == disp[w]
             more == IF Execution!Terminal(d.mine) THEN {} ELSE {Execution!Recheck(d.mine.rev)}
  <2>1. /\ UNCHANGED <<clock, recovery>> /\ d.pc = "cycled" /\ d \in Execution!Cycled
        /\ rec' = (IF d.held THEN d.mine ELSE rec)
        /\ messages' = (messages \ {d.msg}) \cup (more \ consumed)
        /\ consumed' = consumed \cup {d.msg}
        /\ disp' = [disp EXCEPT ![w] = Execution!NoDispatch]
    BY <1>5, <1>t, DispatchShape DEF Execution!Commit, Execution!Consume
  <2>2. /\ d.mine \in Execution!Rec /\ d.held \in BOOLEAN /\ d.msg \in messages \cup consumed
        /\ d.mine.rev \in Nat
        /\ d.held => ~Execution!Terminal(rec) /\ d.mine.rev > rec.rev
        /\ d.held => Execution!OnTime(d.mine)
        /\ ~d.held => Execution!Terminal(rec) /\ Execution!Terminal(d.mine)
    BY <1>t, <2>1 DEF Execution!Cycled, Execution!DispatchIsSound, Execution!ElapsedIsObserved, Execution!Holds,
       Execution!Rec
  <2>3. CASE ~d.held
    <3>1. rec' = rec /\ messages' \cup consumed' = messages \cup consumed
      BY <2>1, <2>2, <2>3
    <3>2. Execution!DemoIsDriven'
      BY <2>2, <2>3, <3>1 DEF Execution!DemoIsDriven, Execution!Terminal
    <3>3. Execution!DemoInv'
      BY <2>1, <3>1, <3>2, DispatchStep
    <3> QED BY <3>1, <3>3
  <2>4. CASE d.held
    <3>1. rec' = d.mine /\ ~Execution!Terminal(rec) /\ rec'.rev > rec.rev /\ rec'.rev \in Nat /\ rec' \in Execution!Rec
      BY <2>1, <2>2, <2>4
    <3>2. \A v \in Worker : disp'[v] = IF v = w THEN Execution!NoDispatch ELSE disp[v]
      BY <1>t, <2>1 DEF Execution!TypeOK
    <3>3. \A v \in Worker \ {w} : disp[v].pc \notin {"marked", "cycled"}
      BY <1>t, <2>1, <2>4, <3>1 DEF Execution!DispatchIsSound, Execution!Holds
    <3>4. \A v \in Worker : disp'[v].pc \notin {"marked", "cycled"}
      BY <3>2, <3>3 DEF Execution!NoDispatch
    <3>5. \A v \in Worker : disp'[v].pc = "read" => disp'[v] = disp[v] /\ disp[v].pc = "read"
      BY <3>2 DEF Execution!NoDispatch
    <3>6. /\ messages \cup consumed \subseteq messages' \cup consumed'
          /\ messages' \cup consumed' \subseteq messages \cup consumed \cup {Execution!Recheck(rec'.rev)}
      BY <2>1, <2>2, <3>1
    <3>7. Execution!Recheck(rec'.rev).rev = rec'.rev
      BY DEF Execution!Recheck
    <3>8. \A m \in messages' \cup consumed' : m.rev \in Nat /\ m.rev <= rec'.rev
      BY <1>t, <1>r, <3>1, <3>6, <3>7 DEF Execution!TypeOK, Execution!MessagesAreOfThePast
    <3>9. Execution!MessagesAreOfThePast'
      <4>1. \A r \in recovery : r.rev \in Nat /\ r.rev <= rec.rev
        BY <1>t DEF Execution!TypeOK, Execution!MessagesAreOfThePast, Execution!Rec
      <4> QED BY <1>r, <2>1, <3>1, <3>8, <4>1 DEF Execution!MessagesAreOfThePast
    <3>10. Execution!TypeOK'
      <4>1. /\ Execution!Claimed \subseteq Execution!Claimed' /\ Execution!Read \subseteq Execution!Read'
            /\ Execution!Marked \subseteq Execution!Marked' /\ Execution!Cycled \subseteq Execution!Cycled'
        BY <3>6 DEF Execution!Claimed, Execution!Read, Execution!Marked, Execution!Cycled
      <4>2. disp' \in [Worker -> {Execution!NoDispatch} \cup Execution!Claimed' \cup Execution!Read'
                               \cup Execution!Marked' \cup Execution!Cycled']
        BY <1>t, <2>1, <4>1 DEF Execution!TypeOK
      <4> QED BY <1>t, <1>r, <2>1, <3>1, <3>8, <4>2 DEF Execution!TypeOK
    <3>11. Execution!DispatchIsSound'
      <4>1. \A v \in Worker : disp[v].pc = "read" =>
              disp[v].base.rev \in Nat /\ ~Execution!Terminal(disp[v].base) /\ disp[v].base.rev <= rec.rev
        BY <1>t, DispatchShape DEF Execution!DispatchIsSound, Execution!Read, Execution!Rec
      <4>2. \A v \in Worker : disp'[v].pc = "read" =>
              disp'[v].base.rev < rec'.rev /\ ~Execution!Terminal(disp'[v].base) /\ disp'[v].base.rev \in Nat
        BY <1>r, <3>1, <3>5, <4>1
      <4> QED BY <3>1, <3>4, <4>2 DEF Execution!DispatchIsSound, Execution!Holds, Execution!Terminal
    <3>12. Execution!ElapsedIsObserved'
      <4>1. Execution!OnTime(rec)'
        BY <2>1, <2>2, <2>4, <3>1 DEF Execution!OnTime, Execution!Terminal
      <4>2. \A v \in Worker : disp'[v].pc = "read" => Execution!OnTime(disp[v].base)'
        BY <1>t, <2>1, <3>5 DEF Execution!ElapsedIsObserved, Execution!OnTime, Execution!Terminal
      <4> QED BY <3>4, <4>1, <4>2 DEF Execution!ElapsedIsObserved, Execution!Holds
    <3>13. Execution!DemoIsDriven'
      <4>1. CASE Execution!Terminal(d.mine)
        BY <3>1, <4>1 DEF Execution!DemoIsDriven, Execution!Terminal
      <4>2. CASE ~Execution!Terminal(d.mine)
        <5>1. \A m \in consumed : m.rev # rec'.rev
          BY <1>t, <1>r, <3>1 DEF Execution!TypeOK, Execution!MessagesAreOfThePast
        <5>2. Execution!Recheck(rec'.rev) \notin consumed
          BY <3>7, <5>1
        <5>3. Execution!Recheck(rec'.rev) \in messages'
          BY <2>1, <3>1, <4>2, <5>2
        <5> QED BY <5>3 DEF Execution!DemoIsDriven
      <4> QED BY <4>1, <4>2
    <3>14. Execution!Terminal(rec') => clock >= rec'.started + Duration
      BY <2>2, <2>4, <3>1 DEF Execution!OnTime, Execution!Terminal
    <3> QED BY <3>1, <3>9, <3>10, <3>11, <3>12, <3>13, <3>14 DEF Execution!DemoInv
  <2> QED BY <2>2, <2>3, <2>4
<1>7. CASE Execution!ListResumeCandidates
  <2>1. UNCHANGED <<rec, messages, consumed, disp, clock>> /\ recovery' = {rec}
    BY <1>7 DEF Execution!ListResumeCandidates
  <2>2. Execution!TypeOK'
    BY <1>t, <1>r, <2>1 DEF Execution!TypeOK, Execution!Claimed, Execution!Read, Execution!Marked,
       Execution!Cycled
  <2>3. Execution!MessagesAreOfThePast'
    BY <1>t, <1>r, <2>1 DEF Execution!MessagesAreOfThePast
  <2>4. Execution!DispatchIsSound' /\ Execution!ElapsedIsObserved' /\ Execution!DemoIsDriven'
    BY <1>t, <2>1 DEF Execution!DispatchIsSound, Execution!ElapsedIsObserved, Execution!DemoIsDriven,
       Execution!Holds, Execution!OnTime, Execution!Terminal
  <2> QED BY <2>1, <2>2, <2>3, <2>4 DEF Execution!DemoInv
<1>8. CASE Execution!EnqueueStartupRecovery
  <2>1. UNCHANGED <<rec, consumed, disp, clock>> /\ recovery' = {}
    BY <1>8 DEF Execution!EnqueueStartupRecovery
  <2>0. PICK r \in recovery : \E n : messages' \in {messages, messages \cup {Execution!Recovery(r.rev, n)}}
    BY <1>8 DEF Execution!EnqueueStartupRecovery
  <2>2. PICK n : messages' \in {messages, messages \cup {Execution!Recovery(r.rev, n)}}
    BY <2>0
  <2>3. r.rev \in Nat /\ r.rev <= rec.rev /\ Execution!Recovery(r.rev, n).rev = r.rev
    BY <1>t DEF Execution!TypeOK, Execution!MessagesAreOfThePast, Execution!Rec, Execution!Recovery
  <2>4. \A m \in messages' \cup consumed' : m.rev \in Nat /\ m.rev <= rec'.rev
    BY <1>t, <2>1, <2>2, <2>3 DEF Execution!TypeOK, Execution!MessagesAreOfThePast
  <2>5. messages \subseteq messages' /\ messages \cup consumed \subseteq messages' \cup consumed'
    BY <2>1, <2>2
  <2>6. Execution!TypeOK'
    <3>1. /\ Execution!Claimed \subseteq Execution!Claimed' /\ Execution!Read \subseteq Execution!Read'
          /\ Execution!Marked \subseteq Execution!Marked' /\ Execution!Cycled \subseteq Execution!Cycled'
      BY <2>5 DEF Execution!Claimed, Execution!Read, Execution!Marked, Execution!Cycled
    <3>2. disp' \in [Worker -> {Execution!NoDispatch} \cup Execution!Claimed' \cup Execution!Read'
                             \cup Execution!Marked' \cup Execution!Cycled']
      BY <1>t, <2>1, <3>1 DEF Execution!TypeOK
    <3> QED BY <1>t, <1>r, <2>1, <2>4, <3>2 DEF Execution!TypeOK
  <2>7. Execution!MessagesAreOfThePast'
    BY <2>1, <2>4 DEF Execution!MessagesAreOfThePast
  <2>8. Execution!DispatchIsSound' /\ Execution!ElapsedIsObserved'
    BY <1>t, <2>1 DEF Execution!DispatchIsSound, Execution!ElapsedIsObserved, Execution!Holds,
       Execution!OnTime, Execution!Terminal
  <2>9. Execution!DemoIsDriven'
    BY <1>t, <2>1, <2>5 DEF Execution!DemoIsDriven, Execution!Terminal
  <2> QED BY <2>1, <2>6, <2>7, <2>8, <2>9 DEF Execution!DemoInv
<1>9. CASE Execution!Tick
  <2>1. /\ UNCHANGED <<rec, messages, consumed, disp, recovery>>
        /\ clock' = clock + 1 /\ clock < MaxTime
    BY <1>9 DEF Execution!Tick
  <2>2. clock' \in 0..MaxTime /\ \A t \in 0..MaxTime : clock >= t + Duration => clock' >= t + Duration
    BY <1>r, <2>1
  <2>3. Execution!TypeOK'
    BY <1>t, <2>1, <2>2 DEF Execution!TypeOK, Execution!Claimed, Execution!Read, Execution!Marked,
       Execution!Cycled
  <2>4. Execution!DispatchIsSound' /\ Execution!MessagesAreOfThePast' /\ Execution!DemoIsDriven'
    BY <1>t, <2>1 DEF Execution!DispatchIsSound, Execution!MessagesAreOfThePast, Execution!DemoIsDriven,
       Execution!Holds, Execution!Terminal
  <2>5. Execution!ElapsedIsObserved'
    <3>1. \A r \in Execution!Rec : Execution!OnTime(r) =>
            /\ r.elapsed \/ Execution!Terminal(r) => clock' >= r.started + Duration
            /\ r.st = "PENDING" => ~r.elapsed
      BY <2>2 DEF Execution!OnTime, Execution!Rec
    <3>2. Execution!OnTime(rec)'
      BY <1>t, <1>r, <2>1, <3>1 DEF Execution!ElapsedIsObserved, Execution!OnTime, Execution!Terminal
    <3>3. ASSUME NEW v \in Worker
          PROVE  /\ disp'[v].pc = "read" => Execution!OnTime(disp[v].base)'
                 /\ Execution!Holds(v)' => Execution!OnTime(disp[v].mine)' /\ disp'[v].mine.st # "PENDING"
      <4>1. /\ disp[v].pc = "read" => disp[v].base \in Execution!Rec /\ Execution!OnTime(disp[v].base)
            /\ Execution!Holds(v) => /\ disp[v].mine \in Execution!Rec /\ Execution!OnTime(disp[v].mine)
                                     /\ disp[v].mine.st # "PENDING"
        BY <1>t, DispatchShape DEF Execution!ElapsedIsObserved, Execution!Holds, Execution!Read, Execution!Marked,
           Execution!Cycled
      <4>2. disp'[v] = disp[v] /\ (Execution!Holds(v)' <=> Execution!Holds(v))
        BY <2>1 DEF Execution!Holds
      <4> QED BY <3>1, <4>1, <4>2 DEF Execution!OnTime, Execution!Terminal
    <3> QED BY <3>2, <3>3 DEF Execution!ElapsedIsObserved
  <2> QED BY <2>1, <2>3, <2>4, <2>5 DEF Execution!DemoInv
<1>10. CASE UNCHANGED Execution!vars
  <2>1. UNCHANGED <<rec, messages, consumed, disp, clock, recovery>>
    BY <1>10 DEF Execution!vars
  <2>2. Execution!TypeOK'
    BY <1>t, <2>1 DEF Execution!TypeOK, Execution!Claimed, Execution!Read, Execution!Marked, Execution!Cycled
  <2>3. /\ Execution!DispatchIsSound' /\ Execution!ElapsedIsObserved' /\ Execution!MessagesAreOfThePast'
        /\ Execution!DemoIsDriven'
    BY <1>t, <2>1 DEF Execution!DispatchIsSound, Execution!ElapsedIsObserved, Execution!MessagesAreOfThePast,
       Execution!DemoIsDriven, Execution!Holds, Execution!OnTime, Execution!Terminal
  <2> QED BY <2>1, <2>2, <2>3 DEF Execution!DemoInv
<1> QED BY <1>1, <1>2, <1>3, <1>4, <1>5, <1>6, <1>7, <1>8, <1>9, <1>10 DEF Execution!Next

\* The invariant of the demo: one dispatch at a time holds the row, with a later
\* revision of a record that is not over, and no message is of a revision that is
\* still to be written.
THEOREM DemoInvariant == Execution!Spec => []Execution!DemoInv
<1>1. Execution!Init => Execution!DemoInv
  <2> SUFFICES ASSUME Execution!Init PROVE Execution!DemoInv
    OBVIOUS
  <2> USE DemoAssumption DEF Execution!DemoConstants
  <2>1. /\ rec \in Execution!Rec /\ rec.st = "PENDING" /\ rec.rev = 1 /\ rec.elapsed = FALSE
        /\ clock = 0 /\ recovery = {} /\ messages = {Execution!Start} /\ consumed = {}
        /\ Execution!Start.rev = 0
    BY DEF Execution!Init, Execution!Rec, Execution!Start
  <2>2. disp \in [Worker -> {Execution!NoDispatch}] /\ \A w \in Worker : disp[w].pc = "idle"
    BY DEF Execution!Init, Execution!NoDispatch
  <2>3. Execution!TypeOK
    BY <2>1, <2>2 DEF Execution!TypeOK
  <2>4. Execution!DispatchIsSound
    BY <2>2 DEF Execution!DispatchIsSound, Execution!Holds
  <2>5. Execution!ElapsedIsObserved
    BY <2>1, <2>2 DEF Execution!ElapsedIsObserved, Execution!Holds, Execution!OnTime, Execution!Terminal
  <2>6. Execution!MessagesAreOfThePast /\ Execution!DemoIsDriven
    BY <2>1 DEF Execution!MessagesAreOfThePast, Execution!DemoIsDriven
  <2> QED BY <2>3, <2>4, <2>5, <2>6 DEF Execution!DemoInv
<1>2. Execution!DemoInv /\ [Execution!Next]_(Execution!vars) => Execution!DemoInv'
  BY DemoStep
<1> QED BY <1>1, <1>2, PTL DEF Execution!Spec

\* A completed demo has observed its whole duration and its record is never
\* written again, not even by a dispatch that read it before the completion
\* (mark_running, _monotonic_progress).
THEOREM CompletedStays == Execution!Spec => CompletedIsFinal
<1> DEFINE Kept == /\ Execution!Terminal(rec) => rec' = rec
                   /\ (~Execution!Terminal(rec) /\ Execution!Terminal(rec')) => clock >= rec'.started + Duration
<1>1. Execution!DemoInv /\ [Execution!Next]_(Execution!vars) => [Kept]_(Execution!vars)
  BY DemoStep DEF Execution!Terminal
<1>2. Execution!Spec => [][Kept]_(Execution!vars)
  BY <1>1, DemoInvariant, PTL DEF Execution!Spec
<1> QED BY <1>2 DEF CompletedIsFinal, Execution!CompletedIsFinal

(***************************************************************************)
(* The run records of the demos                                            *)

\* A session that has begun, moved on or ended.
LEMMA SessionStep ==
    ASSUME Runs!RunsInv, NEW s \in Runs!Session, NEW new, sess' = [sess EXCEPT ![s] = new],
           dm' \in [Demo -> Runs!RunFlags], ex' \in [Demo -> Runs!ExecutionStatus],
           \A d \in Demo : ex[d] # "NONE" => ex'[d] # "NONE",
           \A d \in Demo : dm'[d].st \in {"PENDING", "RUNNING", "STOPPED"} => ex'[d] # "NONE",
           new.op \in {"handoff", "recordDemo", "blockedDemo", "stopDemo"} => new.id \in Demo,
           new.op \in {"recordDemo", "stopDemo"} => ex'[new.id] # "NONE",
           new.op = "blockedDemo" => new.arg = "BLOCKED",
           new.op = "selectDemo" =>
             /\ new.runs \in [Demo -> Runs!RunFlags]
             /\ \A d \in Demo : new.runs[d].st \in {"PENDING", "RUNNING", "STOPPED"} => ex'[d] # "NONE"
    PROVE  Runs!RunsInv'
<1>1. \A u \in Runs!Session : sess'[u] = IF u = s THEN new ELSE sess[u]
  BY DEF Runs!RunsInv
<1>2. DOMAIN sess' = Runs!Session
  BY DEF Runs!RunsInv
<1>3. Runs!SessionIsBacked'
  <2>1. ASSUME NEW u \in Runs!Session
        PROVE  /\ sess'[u].op \in {"handoff", "recordDemo", "blockedDemo", "stopDemo"} => sess'[u].id \in Demo
               /\ sess'[u].op \in {"recordDemo", "stopDemo"} => ex'[sess'[u].id] # "NONE"
               /\ sess'[u].op = "blockedDemo" => sess'[u].arg = "BLOCKED"
               /\ sess'[u].op = "selectDemo" =>
                    /\ sess'[u].runs \in [Demo -> Runs!RunFlags]
                    /\ \A d \in Demo :
                         sess'[u].runs[d].st \in {"PENDING", "RUNNING", "STOPPED"} => ex'[d] # "NONE"
    <3>1. CASE u = s
      BY <1>1, <3>1
    <3>2. CASE u # s
      <4>1. sess'[u] = sess[u]
        BY <1>1, <3>2
      <4>2. /\ sess[u].op \in {"handoff", "recordDemo", "blockedDemo", "stopDemo"} => sess[u].id \in Demo
            /\ sess[u].op \in {"recordDemo", "stopDemo"} => ex[sess[u].id] # "NONE"
            /\ sess[u].op = "blockedDemo" => sess[u].arg = "BLOCKED"
            /\ sess[u].op = "selectDemo" =>
                 /\ sess[u].runs \in [Demo -> Runs!RunFlags]
                 /\ \A d \in Demo :
                      sess[u].runs[d].st \in {"PENDING", "RUNNING", "STOPPED"} => ex[d] # "NONE"
        BY DEF Runs!RunsInv, Runs!SessionIsBacked
      <4> QED BY <4>1, <4>2
    <3> QED BY <3>1, <3>2
  <2> QED BY <2>1 DEF Runs!SessionIsBacked, Runs!Session
<1>4. Runs!ExecutionBacked'
  BY DEF Runs!ExecutionBacked
<1> QED BY <1>2, <1>3, <1>4 DEF Runs!RunsInv, Runs!Session, Runs!RunFlags, Runs!ExecutionStatus,
           Runs!BacktestStatus, Runs!DemoStatus

\* A session that is closed, once it has written the run records dm'.
LEMMA ClosedSession ==
    ASSUME Runs!RunsInv, NEW s \in Runs!Session, Runs!Close(s), UNCHANGED ex,
           dm' \in [Demo -> Runs!RunFlags],
           \A d \in Demo : dm'[d].st \in {"PENDING", "RUNNING", "STOPPED"} => ex[d] # "NONE"
    PROVE  Runs!RunsInv'
<1>1. sess' = [sess EXCEPT ![s] = Runs!Idle] /\ Runs!Idle.op = "idle"
  BY DEF Runs!Close, Runs!Idle
<1>2. ex' \in [Demo -> Runs!ExecutionStatus] /\ ex' = ex
  BY DEF Runs!RunsInv
<1> HIDE DEF Runs!Idle
<1> QED BY <1>1, <1>2, SessionStep

\* What a list of the runs shows as started has an execution.
LEMMA ListedIsBacked ==
    ASSUME Runs!RunsInv, NEW d \in Demo
    PROVE  LET r == [dm[d] EXCEPT !.st = Runs!ListedDemo(d)] IN
           r \in Runs!RunFlags /\ (r.st \in {"PENDING", "RUNNING", "STOPPED"} => ex[d] # "NONE")
<1> DEFINE l == Runs!ListedDemo(d)
           r == [dm[d] EXCEPT !.st = l]
<1>1. dm[d] \in Runs!RunFlags /\ ex[d] \in Runs!ExecutionStatus
      /\ (dm[d].st \in {"PENDING", "RUNNING", "STOPPED"} => ex[d] # "NONE")
  BY DEF Runs!RunsInv, Runs!ExecutionBacked
<1>2. /\ l \in Runs!BacktestStatus \cup Runs!DemoStatus
      /\ l \in {"PENDING", "RUNNING", "STOPPED"} => ex[d] # "NONE"
  BY <1>1 DEF Runs!ListedDemo, Runs!DemoStatusFromExecution, Runs!RunFlags, Runs!ExecutionStatus,
     Runs!BacktestStatus, Runs!DemoStatus
<1> HIDE DEF l
<1>3. r \in Runs!RunFlags /\ r.st = l
  BY <1>1, <1>2 DEF Runs!RunFlags
<1> QED BY <1>2, <1>3 DEF l

\* A session that begins.
LEMMA BegunSession ==
    ASSUME Runs!RunsInv, NEW s \in Runs!Session, NEW op, NEW id, NEW arg, Runs!BeginOp(s, op, id, arg),
           op # "recordDemo",
           op \in {"handoff", "blockedDemo", "stopDemo"} => id \in Demo,
           op = "stopDemo" => ex[id] # "NONE",
           op = "blockedDemo" => arg = "BLOCKED"
    PROVE  Runs!RunsInv'
<1> DEFINE listed == [d \in Demo |-> [dm[d] EXCEPT !.st = Runs!ListedDemo(d)]]
           list == CASE op = "selectBacktest" -> bt
                     [] op = "selectDemo" -> listed
                     [] OTHER -> <<>>
           new == [op |-> op, id |-> id, arg |-> arg, row |-> row, runs |-> list]
<1>1. sess' = [sess EXCEPT ![s] = new] /\ UNCHANGED <<dm, ex>>
  BY DEF Runs!BeginOp
<1>2. /\ listed \in [Demo -> Runs!RunFlags]
      /\ \A d \in Demo : listed[d].st \in {"PENDING", "RUNNING", "STOPPED"} => ex[d] # "NONE"
  BY ListedIsBacked
<1> HIDE DEF listed
<1>3. op = "selectDemo" => list = listed
  OBVIOUS
<1> HIDE DEF list
<1>4. new.op = op /\ new.id = id /\ new.arg = arg /\ new.runs = list
  OBVIOUS
<1> HIDE DEF new
<1>5. /\ dm' \in [Demo -> Runs!RunFlags] /\ ex' \in [Demo -> Runs!ExecutionStatus] /\ dm' = dm /\ ex' = ex
      /\ \A d \in Demo : dm[d].st \in {"PENDING", "RUNNING", "STOPPED"} => ex[d] # "NONE"
  BY <1>1 DEF Runs!RunsInv, Runs!ExecutionBacked
<1> QED BY <1>1, <1>2, <1>3, <1>4, <1>5, SessionStep

\* Every step of a session, a worker and an execution keeps the invariant.
LEMMA RunsStep ==
    ASSUME Runs!RunsInv, [Runs!Next]_(Runs!vars)
    PROVE  Runs!RunsInv'
<1>t. /\ dm \in [Demo -> Runs!RunFlags] /\ ex \in [Demo -> Runs!ExecutionStatus] /\ DOMAIN sess = Runs!Session
      /\ Runs!SessionIsBacked
      /\ \A d \in Demo : dm[d].st \in {"PENDING", "RUNNING", "STOPPED"} => ex[d] # "NONE"
  BY DEF Runs!RunsInv, Runs!ExecutionBacked
<1>s. Client \subseteq Runs!Session /\ Worker \subseteq Runs!Session
  BY DEF Runs!Session
<1>1. ASSUME NEW s \in Client, NEW b \in Backtest,
             Runs!BeginBacktest(s, b) \/ Runs!BlockedBacktest(s, b) \/ Runs!BeginSelectBacktest(s, b)
      PROVE  Runs!RunsInv'
  <2>1. PICK op \in {"backtest", "selectBacktest"}, arg \in {"RUNNING", "FAILED", ""} : Runs!BeginOp(s, op, b, arg)
    BY <1>1 DEF Runs!BeginBacktest, Runs!BlockedBacktest, Runs!BeginSelectBacktest, Runs!NewBacktest
  <2> QED BY <1>s, <2>1, BegunSession
<1>2. ASSUME NEW s \in Client, NEW d \in Demo,
             Runs!BeginDemo(s, d) \/ Runs!BlockedDemo(s, d) \/ Runs!BeginStopDemo(s, d) \/ Runs!BeginSelectDemo(s, d)
      PROVE  Runs!RunsInv'
  <2>1. CASE Runs!BeginDemo(s, d)
    BY <1>s, <2>1, BegunSession DEF Runs!BeginDemo, Runs!NewDemo
  <2>2. CASE Runs!BlockedDemo(s, d)
    BY <1>s, <2>2, BegunSession DEF Runs!BlockedDemo, Runs!NewDemo
  <2>3. CASE Runs!BeginStopDemo(s, d)
    BY <1>t, <1>s, <2>3, BegunSession DEF Runs!BeginStopDemo
  <2>4. CASE Runs!BeginSelectDemo(s, d)
    BY <1>s, <2>4, BegunSession DEF Runs!BeginSelectDemo
  <2> QED BY <1>2, <2>1, <2>2, <2>3, <2>4
<1>3. ASSUME NEW s \in Client, Runs!BeginDecision(s) PROVE Runs!RunsInv'
  <2>1. PICK op \in {"archive", "block"} : Runs!BeginOp(s, op, None, "")
    BY <1>3 DEF Runs!BeginDecision
  <2> QED BY <1>s, <2>1, BegunSession
<1>4. ASSUME NEW s \in Runs!Session, UNCHANGED <<dm, ex>>, Runs!Close(s) PROVE Runs!RunsInv'
  BY <1>t, <1>4, ClosedSession
<1>5. ASSUME NEW s \in Client, Runs!CommitHandoff(s) PROVE Runs!RunsInv'
  <2> DEFINE t == sess[s]
             new == [op |-> "recordDemo", id |-> t.id, arg |-> t.arg, row |-> row, runs |-> t.runs]
  <2>1. /\ t.op = "handoff" /\ ex' = [ex EXCEPT ![t.id] = "PENDING"] /\ dm' = dm
        /\ sess' = [sess EXCEPT ![s] = new]
    BY <1>5 DEF Runs!CommitHandoff
  <2>2. t.id \in Demo
    BY <1>t, <1>s, <2>1 DEF Runs!SessionIsBacked
  <2>3. /\ ex' \in [Demo -> Runs!ExecutionStatus] /\ ex'[t.id] # "NONE"
        /\ \A d \in Demo : ex[d] # "NONE" => ex'[d] # "NONE"
    BY <1>t, <2>1, <2>2 DEF Runs!ExecutionStatus
  <2>4. new.op = "recordDemo" /\ new.id = t.id
    OBVIOUS
  <2> HIDE DEF new, t
  <2> QED BY <1>t, <1>s, <2>1, <2>2, <2>3, <2>4, SessionStep
<1>6. ASSUME NEW s \in Client, Runs!CommitRecordDemo(s) PROVE Runs!RunsInv'
  <2> DEFINE t == sess[s]
             st == IF t.op = "recordDemo" THEN "RUNNING" ELSE t.arg
             r == Runs!DemoRunRecord(st)
  <2>1. /\ t.op \in {"recordDemo", "blockedDemo"} /\ dm' = [dm EXCEPT ![t.id] = r] /\ ex' = ex
        /\ Runs!Close(s)
    BY <1>6 DEF Runs!CommitRecordDemo
  <2>2. /\ t.id \in Demo /\ st \in {"RUNNING", "BLOCKED"}
        /\ st = "RUNNING" => ex[t.id] # "NONE"
    BY <1>t, <1>s, <2>1 DEF Runs!SessionIsBacked
  <2>3. r \in Runs!RunFlags /\ r.st = st
    BY <2>2 DEF Runs!DemoRunRecord, Runs!RunFlags, Runs!DemoStatus
  <2> HIDE DEF r, st
  <2>4. dm' \in [Demo -> Runs!RunFlags] /\ \A d \in Demo : dm'[d] = IF d = t.id THEN r ELSE dm[d]
    BY <1>t, <2>1, <2>2, <2>3
  <2> QED BY <1>t, <1>s, <2>1, <2>2, <2>3, <2>4, ClosedSession
<1>7. ASSUME NEW s \in Client, Runs!CommitStopDemo(s) PROVE Runs!RunsInv'
  <2> DEFINE t == sess[s]
             r == [dm[t.id] EXCEPT !.st = "STOPPED"]
  <2>1. /\ t.op = "stopDemo" /\ dm' = [dm EXCEPT ![t.id] = r] /\ ex' = ex /\ Runs!Close(s)
    BY <1>7 DEF Runs!CommitStopDemo
  <2>2. t.id \in Demo /\ ex[t.id] # "NONE"
    BY <1>t, <1>s, <2>1 DEF Runs!SessionIsBacked
  <2>3. r \in Runs!RunFlags
    BY <1>t, <2>2 DEF Runs!RunFlags, Runs!DemoStatus
  <2> HIDE DEF r
  <2>4. dm' \in [Demo -> Runs!RunFlags] /\ \A d \in Demo : dm'[d] = IF d = t.id THEN r ELSE dm[d]
    BY <1>t, <2>1, <2>2, <2>3
  <2> QED BY <1>t, <1>s, <2>1, <2>2, <2>4, ClosedSession
<1>8. ASSUME NEW s \in Client, Runs!CommitSelectDemo(s) PROVE Runs!RunsInv'
  <2> DEFINE t == sess[s]
             Written(d) == [t.runs[d] EXCEPT !.sel = (d = t.id)]
             listed == {d \in Demo : t.runs[d].st # "NONE"}
  <2>1. /\ t.op = "selectDemo" /\ ex' = ex /\ Runs!Close(s)
        /\ \/ dm' = [d \in Demo |-> IF d \in listed THEN Written(d) ELSE dm[d]]
           \/ dm' = dm
    BY <1>8 DEF Runs!CommitSelectDemo
  <2>2. /\ t.runs \in [Demo -> Runs!RunFlags]
        /\ \A d \in Demo : t.runs[d].st \in {"PENDING", "RUNNING", "STOPPED"} => ex[d] # "NONE"
    BY <1>t, <1>s, <2>1 DEF Runs!SessionIsBacked
  <2>3. \A d \in Demo : Written(d) \in Runs!RunFlags /\ Written(d).st = t.runs[d].st
    BY <2>2 DEF Runs!RunFlags
  <2> HIDE DEF Written, t
  <2>4. CASE dm' = dm
    BY <1>t, <1>s, <2>1, <2>4, ClosedSession
  <2>5. CASE dm' = [d \in Demo |-> IF d \in listed THEN Written(d) ELSE dm[d]]
    <3>1. /\ dm' \in [Demo -> Runs!RunFlags]
          /\ \A d \in Demo : dm'[d].st \in {"PENDING", "RUNNING", "STOPPED"} => ex[d] # "NONE"
      BY <1>t, <2>2, <2>3, <2>5
    <3> QED BY <1>s, <2>1, <3>1, ClosedSession
  <2> QED BY <2>1, <2>4, <2>5
<1>9. ASSUME NEW w \in Worker, Runs!FinishBacktest(w) PROVE Runs!RunsInv'
  <2>1. PICK st : Runs!BeginOp(w, "update", job[w].b, st)
    BY <1>9 DEF Runs!FinishBacktest
  <2> QED BY <1>s, <2>1, BegunSession
<1>10. ASSUME NEW d \in Demo, Runs!RunDemo(d) PROVE Runs!RunsInv'
  <2>1. /\ dm' = dm /\ sess' = sess
        /\ \E e \in {"RUNNING", "COMPLETED"} : ex' = [ex EXCEPT ![d] = e]
    BY <1>10 DEF Runs!RunDemo
  <2>2. /\ ex' \in [Demo -> Runs!ExecutionStatus]
        /\ \A c \in Demo : ex[c] # "NONE" => ex'[c] # "NONE"
    BY <1>t, <2>1 DEF Runs!ExecutionStatus
  <2>3. Runs!SessionIsBacked'
    BY <1>t, <2>1, <2>2 DEF Runs!SessionIsBacked, Runs!Session, Runs!RunFlags, Runs!BacktestStatus, Runs!DemoStatus
  <2>4. Runs!ExecutionBacked'
    BY <1>t, <2>1, <2>2 DEF Runs!ExecutionBacked
  <2> QED BY <1>t, <2>1, <2>2, <2>3, <2>4 DEF Runs!RunsInv, Runs!Session, Runs!RunFlags, Runs!BacktestStatus,
           Runs!DemoStatus, Runs!ExecutionStatus
<1>11. ASSUME UNCHANGED <<dm, ex, sess>> PROVE Runs!RunsInv'
  BY <1>t, <1>11 DEF Runs!RunsInv, Runs!SessionIsBacked, Runs!ExecutionBacked, Runs!Session, Runs!RunFlags,
     Runs!BacktestStatus, Runs!DemoStatus, Runs!ExecutionStatus
<1>12. ASSUME NEW s \in Client, Runs!OperatorStep(s) PROVE Runs!RunsInv'
  <2>1. CASE Runs!CommitBacktest(s) \/ Runs!CommitSelectBacktest(s) \/ Runs!CommitDecision(s) \/ Runs!Abort(s)
    <3>1. UNCHANGED <<dm, ex>> /\ Runs!Close(s)
      BY <2>1 DEF Runs!CommitBacktest, Runs!CommitSelectBacktest, Runs!CommitDecision, Runs!Abort
    <3> QED BY <1>s, <1>4, <3>1
  <2> QED BY <1>1, <1>2, <1>3, <1>5, <1>6, <1>7, <1>8, <1>12, <2>1 DEF Runs!OperatorStep
<1>13. ASSUME NEW w \in Worker, Runs!WorkerStep(w) PROVE Runs!RunsInv'
  <2>1. CASE (\E b \in Backtest : Runs!ClaimBacktest(w, b)) \/ Runs!AckBacktest(w)
    <3>1. UNCHANGED <<dm, ex, sess>>
      BY <2>1 DEF Runs!ClaimBacktest, Runs!AckBacktest
    <3> QED BY <1>11, <3>1
  <2>2. CASE Runs!CommitUpdateBacktest(w) \/ Runs!WorkerCrash(w)
    <3>1. UNCHANGED <<dm, ex>> /\ Runs!Close(w)
      BY <2>2 DEF Runs!CommitUpdateBacktest, Runs!WorkerCrash, Runs!Close
    <3> QED BY <1>s, <1>4, <3>1
  <2> QED BY <1>9, <1>13, <2>1, <2>2 DEF Runs!WorkerStep
<1>14. CASE UNCHANGED Runs!vars
  BY <1>11, <1>14 DEF Runs!vars
<1> QED BY <1>10, <1>12, <1>13, <1>14 DEF Runs!Next

\* The invariant of the run records: an open transaction that will record, stop
\* or write back a started demo has an execution to show for it.
THEOREM RunsInvariant == Runs!Spec => []Runs!RunsInv
<1>1. Runs!Init => Runs!RunsInv
  BY DEF Runs!Init, Runs!RunsInv, Runs!SessionIsBacked, Runs!ExecutionBacked, Runs!Idle, Runs!DemoRunRecord,
     Runs!RunFlags, Runs!BacktestStatus, Runs!DemoStatus, Runs!ExecutionStatus
<1>2. Runs!RunsInv /\ [Runs!Next]_(Runs!vars) => Runs!RunsInv'
  BY RunsStep
<1> QED BY <1>1, <1>2, PTL DEF Runs!Spec

\* A demo that its run record shows as started has an execution behind it, across
\* crashes between the handoff and the record, stops and selections
\* (add_demo_run, stop_demo_run, select_demo_run), and an execution that is not over
\* has a message that drives it (dispatch, enqueue_startup_recovery).
THEOREM DemosAreExecuted == Runs!Spec /\ Execution!Spec => []DemoIsExecuted
<1>1. Runs!RunsInv /\ Execution!DemoInv => DemoIsExecuted
  BY DEF Runs!RunsInv, Execution!DemoInv, DemoIsExecuted
<1> QED BY <1>1, RunsInvariant, DemoInvariant, PTL
=============================================================================
