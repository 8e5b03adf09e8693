---------------------------- MODULE FuturesProofs ----------------------------
(***************************************************************************)
(* Machine-checked proofs about trading: the position worker and the       *)
(* orders it sends, the two implementations of its stores, the gate of an  *)
(* entry, the paper runtimes, the futures runtime and its books.  The      *)
(* position worker is FuturesPosition's specification; each other part is  *)
(* an instance of MCTrading, which fixes no constant.                      *)
(***************************************************************************)
EXTENDS MCTrading, SumTheorems

\* An order is a pair of an intent and what it is for.
LEMMA OrderIsPair ==
  /\ \A o \in Order : /\ o = <<o[1], o[2]>> /\ o[1] \in Intent
                      /\ o[2] # "open" => o[2] \in Reason
  /\ \A i \in Intent : Entry(i) \in Order /\ Entry(i) = <<i, "open">>
  /\ \A i \in Intent, r \in Reason : <<i, r>> \in Order /\ r # "open" /\ r # Nil
BY FuturesAssumption DEF Order, Entry

\* Nothing names a row or a status.
LEMMA NilIsNone ==
  /\ Nil \notin Operation /\ Nil \notin ExecutionStatus /\ Nil \notin Nat
  /\ Nil \notin OrderRow /\ Nil \notin ExecutionRow /\ Nil \notin PositionRow
BY FuturesAssumption

\* The fields of the rows.
LEMMA RowFields ==
  /\ \A r \in OrderRow : r.status \in OrderStatus /\ r.qty \in Nat /\ r.filled \in Nat
  /\ \A r \in ExecutionRow : r.status \in ExecutionStatus /\ r.qty \in Nat
  /\ \A r \in PositionRow : /\ r.status \in Live \cup {"CLOSED"} /\ r.close \in Reason \cup {Nil}
                            /\ r.qty \in Nat
BY DEF OrderRow, ExecutionRow, PositionRow

\* The fields of the worker's job.
LEMMA JobFields ==
  ASSUME JobTypes
  PROVE  /\ job.order \in Order \cup {Nil} /\ job.for \in Operation \cup {Nil}
         /\ job.seen \in ExecutionStatus \cup {Nil} /\ job.qty \in Nat
         /\ job.cycle \in BOOLEAN /\ job.todo \in SUBSET (Intent \cup Order)
         /\ job.flat \in BOOLEAN
BY DEF JobTypes, Jobs

\* A worker without a job.
LEMMA IdleJob ==
  ASSUME pc' = "idle", job' = NoJob
  PROVE  JobInv'
<1>1. NoJob \in Jobs /\ NoJob.for = Nil
  BY DEF NoJob, Jobs
<1>2. JobTypes'
  BY <1>1 DEF JobTypes, Cycle
<1>3. job'.for = Nil /\ Nil \notin {"open", "close", "recover", "replay"}
  BY <1>1, NilIsNone DEF Operation
<1>4. JobIsShaped'
  BY <1>3 DEF JobIsShaped, Cycle, Submitting
<1>5. JobIsCurrent'
  BY <1>3 DEF JobIsCurrent, Cycle
<1>6. SeenIsTrue'
  BY DEF SeenIsTrue, Applying
<1> QED BY <1>2, <1>4, <1>5, <1>6 DEF JobInv

\* The ledgers hold as long as nobody writes them.
LEMMA LedgersStay ==
  ASSUME LedgerInv, UNCHANGED <<exchange, sent, execution, position, fills, closed>>,
         trade' \in [Intent -> [entry : Nat, exit : Int] \cup {Nil}], settled' \subseteq Intent
  PROVE  LedgerInv'
<1>1. LedgerTypes' /\ Reserved'
  BY DEF LedgerInv, LedgerTypes, Reserved
<1>2. ClosedOnEvidence'
  BY DEF LedgerInv, ClosedOnEvidence, EntryFills, Booked
<1> QED BY <1>1, <1>2 DEF LedgerInv

\* What a worker at the end of an operation goes on with.
LEMMA ReturnJob ==
  ASSUME JobInv, pc \in {"apply", "mark closed"}, Return,
         \A j \in Intent : j # job.order[1] => position'[j] = position[j]
  PROVE  JobInv'
<1>1. JobTypes /\ JobIsShaped /\ JobIsCurrent
  BY DEF JobInv
<1> DEFINE u == [job EXCEPT !.order = Nil, !.for = Nil, !.seen = Nil, !.qty = 0]
<1>2. pc' \in {"recover", "lane", "idle"} /\ (pc' = "idle" => job' = NoJob)
      /\ (pc' # "idle" => job' = u) /\ (pc' = "recover" => job.for = "recover")
  BY DEF Return
<1>3. CASE pc' = "idle"
  BY <1>2, <1>3, IdleJob
<1>4. CASE pc' # "idle"
  <2>1. u \in Jobs /\ u.for = Nil /\ u.todo = job.todo
    BY <1>1 DEF JobTypes, Jobs
  <2> HIDE DEF u
  <2>2. job' = u /\ job'.for = Nil /\ pc' \in {"recover", "lane"}
        /\ Nil \notin {"open", "close", "recover", "replay"}
    BY <1>2, <1>4, <2>1, NilIsNone DEF Operation
  <2>3. JobTypes' /\ JobIsShaped' /\ SeenIsTrue'
    BY <2>1, <2>2 DEF JobTypes, JobIsShaped, SeenIsTrue, Cycle, Submitting, Applying
  <2>4. JobIsCurrent'
    <3> SUFFICES ASSUME pc' = "recover" PROVE \A j \in job'.todo : j \in Intent /\ IsLive(j)'
      BY <2>2 DEF JobIsCurrent, Cycle
    <3>1. job.for = "recover" /\ job'.todo = job.todo
      BY <1>2, <2>1, <2>2
    <3> QED BY <1>1, <3>1 DEF JobIsCurrent, IsLive
  <2> QED BY <2>3, <2>4 DEF JobInv
<1> QED BY <1>3, <1>4

-----------------------------------------------------------------------------
(* What each kind of write does to the ledgers.                            *)

\* Filling or cancelling a working order leaves every final answer true.
LEMMA ExchangeMoves ==
  ASSUME FuturesInv, NEW o \in Order, Working(o), NEW n \in OrderRow,
         exchange' = [exchange EXCEPT ![o] = n],
         UNCHANGED <<sent, execution, position, fills, trade, closed, settled, pc, job>>
  PROVE  FuturesInv'
<1>1. /\ LedgerTypes /\ Reserved /\ ClosedOnEvidence
      /\ JobTypes /\ JobIsShaped /\ JobIsCurrent /\ SeenIsTrue
  BY DEF FuturesInv, LedgerInv, JobInv
<1>2. /\ exchange' \in [Order -> OrderRow \cup {Nil}] /\ n # Nil /\ exchange'[o] = n
      /\ \A p \in Order : p # o => exchange'[p] = exchange[p]
  BY <1>1, NilIsNone DEF LedgerTypes
<1>3. LedgerTypes' /\ JobTypes' /\ JobIsShaped' /\ JobIsCurrent'
  <2>1. LedgerTypes'
    BY <1>1, <1>2 DEF LedgerTypes
  <2>2. JobTypes' /\ JobIsShaped'
    BY <1>1 DEF JobTypes, JobIsShaped
  <2>3. JobIsCurrent'
    BY <1>1 DEF JobIsCurrent, Vacant, IsLive
  <2> QED BY <2>1, <2>2, <2>3
<1>4. Reserved'
  BY <1>1, <1>2 DEF Reserved, Working
<1>5. ASSUME NEW p \in Order, exchange[p] # Nil, exchange[p].status \notin {"New", "PartiallyFilled"}
      PROVE  exchange'[p] = exchange[p]
  BY <1>2, <1>5 DEF Working
<1>6. ClosedOnEvidence'
  <2> SUFFICES ASSUME NEW i \in Intent, position[i] # Nil, position[i].status = "CLOSED"
               PROVE  \/ /\ closed[i] # Nil
                         /\ \E r \in Reason : exchange'[<<i, r>>] # Nil /\ exchange'[<<i, r>>].status = "Filled"
                                             /\ exchange'[<<i, r>>].filled = closed[i]
                      \/ /\ exchange'[Entry(i)] # Nil
                         /\ exchange'[Entry(i)].status \in {"Cancelled", "PartiallyFilledCanceled", "Rejected"}
                         /\ EntryFills(i) = 0
    BY DEF ClosedOnEvidence, EntryFills, Booked, Entry
  <2> QED BY <1>1, <1>5, OrderIsPair DEF ClosedOnEvidence
<1>7. SeenIsTrue'
  <2>1. pc \in Applying => job.order \in Order
    BY <1>1 DEF JobIsShaped, Cycle, Applying
  <2>2. ASSUME pc \in Applying, NEW s, s \in {"Filled", "Cancelled", "PartiallyFilledCanceled", "Rejected"},
               exchange[job.order] # Nil, exchange[job.order].status = s
        PROVE  exchange'[job.order] = exchange[job.order]
    BY <1>5, <2>1, <2>2
  <2> QED BY <1>1, <2>2 DEF SeenIsTrue, Ended, Filled, Applying
<1> QED BY <1>3, <1>4, <1>6, <1>7 DEF FuturesInv, LedgerInv, JobInv

\* Fills are booked under the position's trade only while it is not CLOSED.
LEMMA FillsAreBooked ==
  ASSUME LedgerInv, NEW o \in Order, NEW t \in {"position", "intent"},
         fills' = [fills EXCEPT ![o] = [n |-> Filled(o), trade |-> t]],
         t = "position" /\ o[2] = "open" =>
             position[o[1]] = Nil \/ position[o[1]].status # "CLOSED",
         UNCHANGED <<exchange, sent, execution, position, trade, closed, settled>>
  PROVE  LedgerInv'
<1>1. LedgerTypes /\ Reserved /\ ClosedOnEvidence
  BY DEF LedgerInv
<1> DEFINE b == [n |-> Filled(o), trade |-> t]
<1>2. Filled(o) \in Nat /\ (exchange[o] = Nil => Filled(o) = 0)
  BY <1>1, RowFields DEF LedgerTypes, Filled
<1>3. b \in [n : Nat, trade : {Nil, "position", "intent"}] /\ b.n = Filled(o) /\ b.trade = t
  BY <1>2
<1> HIDE DEF b
<1>4. /\ fills' \in [Order -> [n : Nat, trade : {Nil, "position", "intent"}]] /\ fills'[o] = b
      /\ \A p \in Order : p # o => fills'[p] = fills[p]
  BY <1>1, <1>3 DEF LedgerTypes, b
<1>5. LedgerTypes' /\ Reserved'
  BY <1>1, <1>2, <1>3, <1>4 DEF LedgerTypes, Reserved
<1>6. ClosedOnEvidence'
  <2> SUFFICES ASSUME NEW i \in Intent, position[i] # Nil, position[i].status = "CLOSED",
                      EntryFills(i) = 0
               PROVE  EntryFills(i)' = 0
    BY <1>1 DEF ClosedOnEvidence, Entry
  <2>1. Entry(i) \in Order /\ Entry(i)[1] = i /\ Entry(i)[2] = "open"
    BY OrderIsPair
  <2>2. CASE o = Entry(i)
    BY <1>3, <1>4, <2>1, <2>2 DEF EntryFills, Booked, Entry
  <2>3. CASE o # Entry(i)
    BY <1>4, <2>1, <2>3 DEF EntryFills, Booked, Entry
  <2> QED BY <2>2, <2>3
<1> QED BY <1>5, <1>6 DEF LedgerInv

\* A change of status leaves it open which orders have a record.
LEMMA RecordsMove ==
  ASSUME LedgerInv, execution' \in [Order -> ExecutionRow \cup {Nil}],
         \A o \in Order : execution'[o] = Nil <=> execution[o] = Nil,
         UNCHANGED <<exchange, sent, position, fills, trade, closed, settled>>
  PROVE  LedgerInv'
<1>1. LedgerTypes /\ Reserved /\ ClosedOnEvidence
  BY DEF LedgerInv
<1>2. LedgerTypes' /\ ClosedOnEvidence'
  BY <1>1 DEF LedgerTypes, ClosedOnEvidence, EntryFills, Booked, Entry
<1>3. Reserved'
  BY <1>1, OrderIsPair DEF Reserved, Entry
<1> QED BY <1>2, <1>3 DEF LedgerInv

\* A position is written with the close its orders have, and CLOSED on evidence.
LEMMA PositionIsWritten ==
  ASSUME LedgerInv, NEW i \in Intent, NEW n \in PositionRow,
         position' = [position EXCEPT ![i] = n], settled' \subseteq Intent,
         UNCHANGED <<exchange, sent, execution, fills, trade, closed>>,
         execution[Entry(i)] # Nil,
         \A r \in Reason : execution[<<i, r>>] # Nil => n.close = r,
         n.status = "CLOSED" =>
             \/ /\ closed[i] # Nil
                /\ \E r \in Reason : exchange[<<i, r>>] # Nil /\ exchange[<<i, r>>].status = "Filled"
                                    /\ exchange[<<i, r>>].filled = closed[i]
             \/ /\ exchange[Entry(i)] # Nil
                /\ exchange[Entry(i)].status \in {"Cancelled", "PartiallyFilledCanceled", "Rejected"}
                /\ EntryFills(i) = 0
  PROVE  /\ LedgerInv' /\ position'[i] = n /\ n # Nil
         /\ \A j \in Intent : j # i => position'[j] = position[j]
<1>1. LedgerTypes /\ Reserved /\ ClosedOnEvidence
  BY DEF LedgerInv
<1>2. /\ position' \in [Intent -> PositionRow \cup {Nil}] /\ position'[i] = n /\ n # Nil
      /\ \A j \in Intent : j # i => position'[j] = position[j]
  BY <1>1, NilIsNone DEF LedgerTypes
<1>3. LedgerTypes' /\ Reserved'
  BY <1>1, <1>2, SMTT(40) DEF LedgerTypes, Reserved, Entry
<1>4. ClosedOnEvidence'
  <2> SUFFICES ASSUME NEW j \in Intent, position'[j] # Nil, position'[j].status = "CLOSED"
               PROVE  \/ /\ closed[j] # Nil
                         /\ \E r \in Reason : exchange[<<j, r>>] # Nil /\ exchange[<<j, r>>].status = "Filled"
                                             /\ exchange[<<j, r>>].filled = closed[j]
                      \/ /\ exchange[Entry(j)] # Nil
                         /\ exchange[Entry(j)].status \in {"Cancelled", "PartiallyFilledCanceled", "Rejected"}
                         /\ EntryFills(j) = 0
    BY DEF ClosedOnEvidence, EntryFills, Booked, Entry
  <2> QED BY <1>1, <1>2 DEF ClosedOnEvidence
<1> QED BY <1>2, <1>3, <1>4 DEF LedgerInv

-----------------------------------------------------------------------------
(* The steps of an operation.                                              *)

\* The exchange fills an order or cancels it.
LEMMA FillKeeps ==
  ASSUME FuturesInv, NEW o \in Order, Fill(o) \/ Cancel(o)
  PROVE  FuturesInv'
<1>1. exchange \in [Order -> OrderRow \cup {Nil}]
  BY DEF FuturesInv, LedgerInv, LedgerTypes
<1>2. Working(o) /\ UNCHANGED <<sent, execution, position, fills, trade, closed, settled, pc, job>>
  BY DEF Fill, Cancel, durable
<1>3. exchange[o] \in OrderRow
  BY <1>1, <1>2 DEF Working
<1>4. CASE Fill(o)
  <2> DEFINE n == OneMoreFilled(exchange[o])
  <2>1. exchange' = [exchange EXCEPT ![o] = n]
    BY <1>1, <1>4 DEF Fill
  <2>2. n \in OrderRow
    <3>1. exchange[o].filled + 1 \in Nat
      BY <1>3, RowFields
    <3>2. ASSUME NEW f \in Nat, NEW s \in OrderStatus, NEW r \in OrderRow
          PROVE  [r EXCEPT !.filled = f, !.status = s] \in OrderRow
      BY DEF OrderRow
    <3> QED BY <1>3, <3>1, <3>2 DEF OneMoreFilled, OrderStatus
  <2> HIDE DEF n
  <2> QED BY <1>2, <2>1, <2>2, ExchangeMoves
<1>5. CASE Cancel(o)
  <2> DEFINE n == [exchange[o] EXCEPT !.status =
                     IF exchange[o].filled = 0 THEN "Cancelled" ELSE "PartiallyFilledCanceled"]
  <2>1. exchange' = [exchange EXCEPT ![o] = n]
    BY <1>1, <1>5 DEF Cancel
  <2>2. n \in OrderRow
    BY <1>3 DEF OrderRow, OrderStatus
  <2> HIDE DEF n
  <2> QED BY <1>2, <2>1, <2>2, ExchangeMoves
<1> QED BY <1>4, <1>5

\* A final answer of the exchange is what the order came to.
LEMMA AnswersAreTrue ==
  ASSUME LedgerTypes, NEW o \in Order, NEW s \in Answers(o)
  PROVE  /\ s \in ExecutionStatus
         /\ s = "FILLED" => Ended(o, {"Filled"})
         /\ s = "CANCELLED" => Ended(o, {"Cancelled", "PartiallyFilledCanceled"})
         /\ s = "REJECTED" => Ended(o, {"Rejected"})
<1>1. CASE s = "UNKNOWN"
  BY <1>1 DEF ExecutionStatus, Unresolved
<1>2. CASE s # "UNKNOWN"
  <2>1. exchange[o] # Nil /\ s = MapOrderStatus(exchange[o].status)
    BY <1>2 DEF Answers
  <2>2. exchange[o].status \in OrderStatus
    BY <2>1, RowFields DEF LedgerTypes
  <2> QED BY <2>1, <2>2 DEF MapOrderStatus, OrderStatus, ExecutionStatus, Unresolved, Ended
<1> QED BY <1>1, <1>2

\* The parts of the invariant, and the order the worker is at.
LEMMA AtWork ==
  ASSUME FuturesInv, pc \notin Cycle
  PROVE  /\ LedgerTypes /\ Reserved /\ ClosedOnEvidence
         /\ JobTypes /\ JobIsShaped /\ JobIsCurrent /\ SeenIsTrue
         /\ job.order \in Order /\ job.for \in Operation
<1>1. /\ LedgerTypes /\ Reserved /\ ClosedOnEvidence
      /\ JobTypes /\ JobIsShaped /\ JobIsCurrent /\ SeenIsTrue
  BY DEF FuturesInv, LedgerInv, JobInv
<1> QED BY <1>1, JobFields DEF JobIsShaped

\* FuturesExecutionService.reconcile.
LEMMA ReconcileKeeps ==
  ASSUME FuturesInv, Reconcile
  PROVE  FuturesInv'
<1>1. pc = "reconcile" /\ pc' = "ingest"
      /\ UNCHANGED <<exchange, sent, position, fills, trade, closed, settled>>
  BY DEF Reconcile, market
<1>2. /\ LedgerTypes /\ JobTypes /\ JobIsShaped /\ JobIsCurrent
      /\ job.order \in Order /\ job.for \in Operation
  BY <1>1, AtWork DEF Cycle
<1>3. PICK s \in Answers(job.order) : /\ execution' = [execution EXCEPT ![job.order].status = s]
                                      /\ job' = [job EXCEPT !.seen = s]
  BY DEF Reconcile
<1>4. /\ s \in ExecutionStatus
      /\ s = "FILLED" => Ended(job.order, {"Filled"})
      /\ s = "CANCELLED" => Ended(job.order, {"Cancelled", "PartiallyFilledCanceled"})
      /\ s = "REJECTED" => Ended(job.order, {"Rejected"})
  BY <1>2, AnswersAreTrue
<1>5. execution[job.order] \in ExecutionRow
  BY <1>1, <1>2 DEF JobIsCurrent, LedgerTypes, Cycle
<1>6. /\ execution' \in [Order -> ExecutionRow \cup {Nil}]
      /\ \A o \in Order : execution'[o] = Nil <=> execution[o] = Nil
  <2> DEFINE n == [execution[job.order] EXCEPT !.status = s]
  <2>1. execution' = [execution EXCEPT ![job.order] = n]
    BY <1>2, <1>3 DEF LedgerTypes
  <2>2. n \in ExecutionRow
    BY <1>4, <1>5 DEF ExecutionRow
  <2> HIDE DEF n
  <2> QED BY <1>2, <1>5, <2>1, <2>2, NilIsNone DEF LedgerTypes
<1>7. LedgerInv'
  BY <1>1, <1>6, RecordsMove DEF FuturesInv
<1>8. /\ job' \in Jobs /\ job'.order = job.order /\ job'.for = job.for /\ job'.seen = s
      /\ job'.todo = job.todo
  BY <1>2, <1>3, <1>4 DEF JobTypes, Jobs
<1>9. JobTypes' /\ JobIsShaped'
  BY <1>1, <1>2, <1>8 DEF JobTypes, JobIsShaped, Cycle, Submitting, Applying
<1>10. JobIsCurrent'
  BY <1>1, <1>2, <1>6, <1>8 DEF JobIsCurrent, Vacant, IsLive, Cycle
<1>11. SeenIsTrue'
  BY <1>1, <1>4, <1>8 DEF SeenIsTrue, Ended
<1> QED BY <1>7, <1>9, <1>10, <1>11 DEF FuturesInv, JobInv

\* The worker goes on with the same order.
LEMMA JobGoesOn ==
  ASSUME FuturesInv, pc \notin Cycle, job' = job, position' = position,
         pc' \in Submitting \cup {"reconcile"} \cup Applying,
         pc' \in Submitting => pc \in Submitting,
         pc' \in {"book", "mark closed"} => job.for # "replay",
         pc' = "mark closed" => job.order[2] # "open",
         pc' # "submit" => execution'[job.order] # Nil,
         pc' \in {"reserved", "send"} => sent'[job.order] = 0
  PROVE  JobTypes' /\ JobIsShaped' /\ JobIsCurrent'
<1>1. JobTypes /\ JobIsShaped /\ JobIsCurrent
  BY AtWork
<1>2. pc' \notin Cycle /\ pc' # "recover"
  BY DEF Cycle, Submitting, Applying
<1>3. JobTypes' /\ JobIsShaped'
  BY <1>1, <1>2 DEF JobTypes, JobIsShaped
<1>4. JobIsCurrent'
  BY <1>1, <1>2 DEF JobIsCurrent, Vacant, IsLive
<1> QED BY <1>3, <1>4

\* The quantities a trade is made of.
LEMMA TradeTypes ==
  ASSUME LedgerTypes, NEW i \in Intent
  PROVE  /\ EntryFills(i) \in Nat /\ ExitFills(i) \in Int
         /\ TradeResult(i) \in [entry : Nat, exit : Int]
<1>1. \A o \in Order : Booked(o) \in Nat
  BY DEF LedgerTypes, Booked
<1>2. EntryFills(i) \in Nat
  BY <1>1, OrderIsPair DEF EntryFills
<1>3. [r \in Reason |-> Booked(<<i, r>>)] \in [Reason -> Int]
  BY <1>1, OrderIsPair
<1>4. ExitFills(i) \in Int
  BY <1>3, FuturesAssumption, SumIsInteger DEF ExitFills
<1> QED BY <1>2, <1>4 DEF TradeResult

\* ingest_execution.
LEMMA IngestKeeps ==
  ASSUME FuturesInv, IngestExecution
  PROVE  FuturesInv'
<1>1. pc = "ingest" /\ UNCHANGED <<exchange, sent, execution, position, trade, closed, settled>>
  BY DEF IngestExecution, market
<1>2. /\ LedgerTypes /\ JobIsShaped /\ JobIsCurrent /\ SeenIsTrue
      /\ job.order \in Order /\ job.for \in Operation /\ pc \notin Cycle
  BY <1>1, AtWork DEF Cycle
<1>3. trade \in [Intent -> [entry : Nat, exit : Int] \cup {Nil}] /\ settled \subseteq Intent
      /\ execution[job.order] # Nil
  BY <1>1, <1>2 DEF LedgerTypes, JobIsCurrent, Cycle
<1>4. CASE Abandon /\ UNCHANGED fills
  <2>1. LedgerInv'
    BY <1>1, <1>3, <1>4, LedgersStay DEF FuturesInv
  <2> QED BY <1>4, <2>1, IdleJob DEF Abandon, FuturesInv
<1>5. CASE /\ job.seen \notin {"FILLED", "PARTIALLY_FILLED"} /\ pc' = "apply"
           /\ UNCHANGED <<job, fills>>
  <2>1. LedgerInv'
    BY <1>1, <1>3, <1>5, LedgersStay DEF FuturesInv
  <2>2. JobTypes' /\ JobIsShaped' /\ JobIsCurrent'
    BY <1>1, <1>2, <1>3, <1>5, JobGoesOn DEF Applying, Submitting
  <2>3. SeenIsTrue'
    BY <1>1, <1>2, <1>5 DEF SeenIsTrue, Ended, Applying
  <2> QED BY <2>1, <2>2, <2>3 DEF FuturesInv, JobInv
<1>6. ASSUME NEW t, t = TradeOf(job.for), job' = job,
             fills' = [fills EXCEPT ![job.order] = [n |-> Filled(job.order), trade |-> t]],
             pc' = IF t = "position" THEN "book" ELSE "apply"
      PROVE  FuturesInv'
  <2>1. t \in {"position", "intent"} /\ (t = "position" <=> job.for # "replay")
    BY <1>2, <1>6 DEF TradeOf, Operation
  <2>2. t = "position" /\ job.order[2] = "open" =>
            position[job.order[1]] = Nil \/ position[job.order[1]].status # "CLOSED"
    BY <1>2, <2>1 DEF Operation, JobIsShaped, JobIsCurrent, IsLive, Live
  <2>3. LedgerInv'
    BY <1>1, <1>2, <1>6, <2>1, <2>2, FillsAreBooked DEF FuturesInv
  <2>4. JobTypes' /\ JobIsShaped' /\ JobIsCurrent'
    BY <1>1, <1>2, <1>3, <1>6, <2>1, JobGoesOn DEF Applying, Submitting
  <2>5. fills'[job.order].n = Filled(job.order) /\ fills'[job.order].trade = t
    BY <1>2, <1>6 DEF LedgerTypes
  <2>6. SeenIsTrue'
    BY <1>1, <1>2, <1>6, <2>1, <2>5 DEF SeenIsTrue, Ended, Applying, Filled
  <2> QED BY <2>3, <2>4, <2>6 DEF FuturesInv, JobInv
<1> QED BY <1>4, <1>5, <1>6 DEF IngestExecution

\* _try_close_trade.
LEMMA TryCloseTradeKeeps ==
  ASSUME FuturesInv, TryCloseTrade
  PROVE  FuturesInv'
<1>1. pc = "book" /\ UNCHANGED <<exchange, sent, execution, position, fills, closed, settled>>
  BY DEF TryCloseTrade, market
<1>2. /\ LedgerTypes /\ JobIsShaped /\ JobIsCurrent /\ SeenIsTrue
      /\ job.order \in Order /\ pc \notin Cycle /\ execution[job.order] # Nil
  BY <1>1, AtWork DEF Cycle, JobIsCurrent
<1>3. job.order[1] \in Intent /\ TradeResult(job.order[1]) \in [entry : Nat, exit : Int]
  BY <1>2, OrderIsPair, TradeTypes
<1>4. /\ (pc' = "apply" /\ job' = job) \/ Abandon
      /\ trade' = trade \/ trade' = [trade EXCEPT ![job.order[1]] = TradeResult(job.order[1])]
  BY DEF TryCloseTrade
<1>5. LedgerInv'
  BY <1>1, <1>2, <1>3, <1>4, LedgersStay DEF FuturesInv, LedgerTypes
<1>6. CASE Abandon
  BY <1>5, <1>6, IdleJob DEF Abandon, FuturesInv
<1>7. CASE pc' = "apply" /\ job' = job
  <2>1. JobTypes' /\ JobIsShaped' /\ JobIsCurrent'
    BY <1>1, <1>2, <1>7, JobGoesOn DEF Applying, Submitting
  <2>2. SeenIsTrue'
    BY <1>1, <1>2, <1>7 DEF SeenIsTrue, Ended, Applying, Filled
  <2> QED BY <1>5, <2>1, <2>2 DEF FuturesInv, JobInv
<1> QED BY <1>4, <1>6, <1>7

\* The steps that give up: a refusal, an exception, a death of the worker.
LEMMA GivingUpKeeps ==
  ASSUME FuturesInv,
         Refuse \/ Crash \/ LaneSkips \/ \E i \in Intent : RiskRejects(i)
  PROVE  FuturesInv'
<1>1. LedgerTypes
  BY DEF FuturesInv, LedgerInv
<1>2. pc' = "idle" /\ job' = NoJob
      /\ UNCHANGED <<exchange, sent, execution, position, fills, closed, trade>>
  BY DEF Refuse, Crash, LaneSkips, RiskRejects, Raise, Abandon, market, durable
<1>3. settled' \subseteq Intent
  <2>1. CASE Refuse
    <3>1. pc \notin Cycle
      BY <2>1 DEF Refuse, Cycle
    <3>2. job.order[1] \in Intent
      BY <3>1, AtWork, OrderIsPair
    <3> QED BY <1>1, <2>1, <3>2 DEF Refuse, LedgerTypes
  <2>2. CASE ~Refuse
    BY <1>1, <2>2 DEF Crash, LaneSkips, RiskRejects, Raise, durable, LedgerTypes
  <2> QED BY <2>1, <2>2
<1>4. LedgerInv'
  BY <1>1, <1>2, <1>3, LedgersStay DEF FuturesInv, LedgerTypes
<1> QED BY <1>2, <1>4, IdleJob DEF FuturesInv

\* An order is reserved once; what has a record is reconciled.
LEMMA ReserveKeeps ==
  ASSUME FuturesInv, Reserve
  PROVE  FuturesInv'
<1>1. pc = "submit" /\ UNCHANGED <<exchange, sent, position, fills, trade, closed, settled, job>>
  BY DEF Reserve, market
<1>2. /\ LedgerTypes /\ Reserved /\ ClosedOnEvidence /\ JobIsShaped /\ JobIsCurrent /\ JobTypes
      /\ job.order \in Order /\ pc \notin Cycle /\ pc \in Submitting
  BY <1>1, AtWork DEF Cycle, Submitting
<1>3. CASE execution[job.order] # Nil /\ pc' = "reconcile" /\ execution' = execution
  <2>1. LedgerInv'
    BY <1>1, <1>2, <1>3, LedgersStay DEF FuturesInv, LedgerTypes
  <2>2. JobTypes' /\ JobIsShaped' /\ JobIsCurrent'
    BY <1>1, <1>2, <1>3, JobGoesOn DEF Applying, Submitting
  <2>3. SeenIsTrue'
    BY <1>3 DEF SeenIsTrue, Applying
  <2> QED BY <2>1, <2>2, <2>3 DEF FuturesInv, JobInv
<1>4. CASE /\ execution[job.order] = Nil /\ pc' = "reserved"
           /\ execution' = [execution EXCEPT ![job.order] = ExecutionRecord(job.qty)]
  <2> DEFINE n == ExecutionRecord(job.qty)
  <2>1. n \in ExecutionRow
    BY <1>2, JobFields DEF ExecutionRecord, ExecutionRow, ExecutionStatus, Unresolved
  <2> HIDE DEF n
  <2>2. /\ execution' \in [Order -> ExecutionRow \cup {Nil}] /\ execution'[job.order] # Nil
        /\ \A o \in Order : o # job.order => execution'[o] = execution[o]
    BY <1>2, <1>4, <2>1, NilIsNone DEF LedgerTypes, n
  <2>3. \A i \in Intent, r \in Reason : job.order = <<i, r>> =>
            position[i] # Nil /\ position[i].close = r
    <3> SUFFICES ASSUME NEW i \in Intent, NEW r \in Reason, job.order = <<i, r>>
                 PROVE  position[i] # Nil /\ position[i].close = r
      OBVIOUS
    <3>1. job.order[1] = i /\ job.order[2] = r /\ r # "open"
      BY OrderIsPair
    <3>2. job.for = "close"
      BY <1>1, <1>2, <3>1 DEF JobIsShaped, Submitting
    <3> QED BY <1>2, <3>1, <3>2 DEF JobIsCurrent, IsLive
  <2>4. Reserved'
    <3>1. \A o \in Order : /\ sent'[o] <= 1
                           /\ execution'[o] = Nil => sent'[o] = 0
                           /\ sent'[o] = 0 => exchange'[o] = Nil
                           /\ exchange'[o] = Nil => fills'[o].n = 0
      BY <1>1, <1>2, <2>2 DEF Reserved
    <3>2. \A i \in Intent : position'[i] # Nil => execution'[Entry(i)] # Nil
      BY <1>1, <1>2, <2>2, OrderIsPair DEF Reserved
    <3>3. \A i \in Intent, r \in Reason : execution'[<<i, r>>] # Nil =>
              position'[i] # Nil /\ position'[i].close = r
      BY <1>1, <1>2, <2>2, <2>3, OrderIsPair DEF Reserved
    <3> QED BY <3>1, <3>2, <3>3 DEF Reserved
  <2>5. LedgerTypes' /\ ClosedOnEvidence'
    BY <1>1, <1>2, <2>2 DEF LedgerTypes, ClosedOnEvidence, EntryFills, Booked, Entry
  <2>6. sent'[job.order] = 0
    BY <1>1, <1>2, <1>4 DEF Reserved
  <2>7. JobTypes' /\ JobIsShaped' /\ JobIsCurrent'
    BY <1>1, <1>2, <1>4, <2>2, <2>6, JobGoesOn DEF Submitting
  <2>8. SeenIsTrue'
    BY <1>4 DEF SeenIsTrue, Applying
  <2> QED BY <2>4, <2>5, <2>7, <2>8 DEF FuturesInv, LedgerInv, JobInv
<1> QED BY <1>3, <1>4 DEF Reserve

\* A change of status of the record the worker is at.
LEMMA StatusMoves ==
  ASSUME LedgerTypes, job.order \in Order, execution[job.order] # Nil, NEW s \in ExecutionStatus,
         execution' = [execution EXCEPT ![job.order].status = s]
  PROVE  /\ execution' \in [Order -> ExecutionRow \cup {Nil}]
         /\ \A o \in Order : execution'[o] = Nil <=> execution[o] = Nil
<1> DEFINE n == [execution[job.order] EXCEPT !.status = s]
<1>1. execution[job.order] \in ExecutionRow
  BY DEF LedgerTypes
<1>2. execution' = [execution EXCEPT ![job.order] = n]
  BY DEF LedgerTypes
<1>3. n \in ExecutionRow
  BY <1>1 DEF ExecutionRow
<1> HIDE DEF n
<1> QED BY <1>1, <1>2, <1>3, NilIsNone DEF LedgerTypes

\* The record says SUBMITTING before the order is sent.
LEMMA MarkSubmittingKeeps ==
  ASSUME FuturesInv, MarkSubmitting
  PROVE  FuturesInv'
<1>1. pc = "reserved" /\ pc' = "send"
      /\ UNCHANGED <<exchange, sent, position, fills, trade, closed, settled, job>>
      /\ execution' = [execution EXCEPT ![job.order].status = "SUBMITTING"]
  BY DEF MarkSubmitting, market
<1>2. /\ LedgerTypes /\ job.order \in Order /\ pc \notin Cycle /\ pc \in Submitting
      /\ execution[job.order] # Nil /\ sent[job.order] = 0
  BY <1>1, AtWork DEF Cycle, Submitting, JobIsCurrent
<1>3. /\ execution' \in [Order -> ExecutionRow \cup {Nil}]
      /\ \A o \in Order : execution'[o] = Nil <=> execution[o] = Nil
  BY <1>1, <1>2, StatusMoves DEF ExecutionStatus, Unresolved
<1>4. LedgerInv'
  BY <1>1, <1>3, RecordsMove DEF FuturesInv
<1>5. JobTypes' /\ JobIsShaped' /\ JobIsCurrent'
  BY <1>1, <1>2, <1>3, JobGoesOn DEF Submitting
<1>6. SeenIsTrue'
  BY <1>1 DEF SeenIsTrue, Applying
<1> QED BY <1>4, <1>5, <1>6 DEF FuturesInv, JobInv

\* The order is sent, whether it arrives or not and whether the worker lives
\* to record it or not.
LEMMA CreateLimitOrderKeeps ==
  ASSUME FuturesInv, CreateLimitOrder
  PROVE  FuturesInv'
<1>1. /\ pc = "send" /\ sent' = [sent EXCEPT ![job.order] = @ + 1]
      /\ UNCHANGED <<position, fills, trade, closed, settled>>
  BY DEF CreateLimitOrder
<1>2. /\ LedgerTypes /\ Reserved /\ ClosedOnEvidence
      /\ job.order \in Order /\ pc \notin Cycle /\ pc \in Submitting
      /\ execution[job.order] # Nil /\ sent[job.order] = 0
  BY <1>1, AtWork DEF Cycle, Submitting, JobIsCurrent
<1>3. PICK arrived \in {Nil, "New", "Rejected"} :
         /\ exchange' = IF arrived = Nil THEN exchange
                        ELSE [exchange EXCEPT ![job.order] =
                                [status |-> arrived, qty |-> execution[job.order].qty, filled |-> 0]]
         /\ \/ /\ \E s \in {"UNKNOWN"} \cup (IF arrived = Nil THEN {} ELSE {"SUBMITTED"}) :
                    execution' = [execution EXCEPT ![job.order].status = s]
               /\ pc' = "reconcile"
               /\ UNCHANGED job
            \/ Abandon /\ UNCHANGED execution
  BY DEF CreateLimitOrder
<1>4. /\ sent' \in [Order -> Nat] /\ sent'[job.order] = 1
      /\ \A o \in Order : o # job.order => sent'[o] = sent[o]
  BY <1>1, <1>2 DEF LedgerTypes
<1>5. exchange[job.order] = Nil
  BY <1>2 DEF Reserved
<1>6. /\ exchange' \in [Order -> OrderRow \cup {Nil}]
      /\ \A o \in Order : o # job.order => exchange'[o] = exchange[o]
  <2> DEFINE n == [status |-> arrived, qty |-> execution[job.order].qty, filled |-> 0]
  <2>1. arrived # Nil => n \in OrderRow
    BY <1>2, RowFields DEF OrderRow, OrderStatus, LedgerTypes
  <2> HIDE DEF n
  <2>2. \/ exchange' = exchange
        \/ exchange' = [exchange EXCEPT ![job.order] = n] /\ n \in OrderRow
    <3>1. exchange' = IF arrived = Nil THEN exchange ELSE [exchange EXCEPT ![job.order] = n]
      BY <1>3 DEF n
    <3> QED BY <2>1, <3>1
  <2> QED BY <1>2, <2>2 DEF LedgerTypes
<1>7. /\ execution' \in [Order -> ExecutionRow \cup {Nil}]
      /\ \A o \in Order : execution'[o] = Nil <=> execution[o] = Nil
  <2>1. CASE execution' = execution
    BY <1>2, <2>1 DEF LedgerTypes
  <2>2. CASE \E s \in {"UNKNOWN", "SUBMITTED"} : execution' = [execution EXCEPT ![job.order].status = s]
    BY <1>2, <2>2, StatusMoves DEF ExecutionStatus, Unresolved
  <2> QED BY <1>3, <2>1, <2>2
<1>8. LedgerTypes'
  BY <1>1, <1>2, <1>4, <1>6, <1>7 DEF LedgerTypes
<1>9. Reserved'
  <2>1. \A o \in Order : /\ sent'[o] <= 1
                         /\ execution'[o] = Nil => sent'[o] = 0
                         /\ sent'[o] = 0 => exchange'[o] = Nil
                         /\ exchange'[o] = Nil => fills'[o].n = 0
    BY <1>1, <1>2, <1>4, <1>5, <1>6, <1>7 DEF Reserved
  <2>2. \A i \in Intent : position'[i] # Nil => execution'[Entry(i)] # Nil
    BY <1>1, <1>2, <1>7, OrderIsPair DEF Reserved
  <2>3. \A i \in Intent, r \in Reason : execution'[<<i, r>>] # Nil =>
            position'[i] # Nil /\ position'[i].close = r
    BY <1>1, <1>2, <1>7, OrderIsPair DEF Reserved
  <2> QED BY <2>1, <2>2, <2>3 DEF Reserved
<1>10. ClosedOnEvidence'
  <2> SUFFICES ASSUME NEW i \in Intent, position[i] # Nil, position[i].status = "CLOSED"
               PROVE  \/ /\ closed[i] # Nil
                         /\ \E r \in Reason : exchange'[<<i, r>>] # Nil /\ exchange'[<<i, r>>].status = "Filled"
                                             /\ exchange'[<<i, r>>].filled = closed[i]
                      \/ /\ exchange'[Entry(i)] # Nil
                         /\ exchange'[Entry(i)].status \in {"Cancelled", "PartiallyFilledCanceled", "Rejected"}
                         /\ EntryFills(i) = 0
    BY <1>1 DEF ClosedOnEvidence, EntryFills, Booked, Entry
  <2> QED BY <1>2, <1>5, <1>6, OrderIsPair DEF ClosedOnEvidence
<1>11. JobInv'
  <2>1. CASE Abandon
    BY <2>1, IdleJob DEF Abandon
  <2>2. CASE pc' = "reconcile" /\ job' = job
    <3>1. JobTypes' /\ JobIsShaped' /\ JobIsCurrent'
      BY <1>1, <1>2, <1>7, <2>2, JobGoesOn DEF Submitting
    <3>2. SeenIsTrue'
      BY <2>2 DEF SeenIsTrue, Applying
    <3> QED BY <3>1, <3>2 DEF JobInv
  <2> QED BY <1>3, <2>1, <2>2
<1> QED BY <1>8, <1>9, <1>10, <1>11 DEF FuturesInv, LedgerInv

\* The worker begins with an order.
LEMMA JobBegins ==
  ASSUME JobTypes, NEW o \in Order, NEW f \in Operation, NEW place, NEW q \in Nat,
         Start(o, f, place, q)
  PROVE  /\ pc' = place /\ job' \in Jobs /\ job'.order = o /\ job'.for = f
         /\ job'.todo = job.todo
BY DEF Start, JobTypes, Jobs

\* mark_closing: a position that is closed for a reason is closed for no other.
LEMMA MarkClosingKeeps ==
  ASSUME FuturesInv, NEW i \in Intent, NEW r \in Reason, MarkClosing(i, r), pc \in {"idle", "monitor"}
  PROVE  FuturesInv'
<1>1. LedgerTypes /\ Reserved /\ JobTypes
  BY DEF FuturesInv, LedgerInv, JobInv
<1>2. /\ IsLive(i) /\ position[i].close \in {Nil, r}
      /\ Start(<<i, r>>, "close", "submit", position[i].qty)
      /\ position' = [position EXCEPT ![i] = [@ EXCEPT !.status = "CLOSING", !.close = r]]
      /\ UNCHANGED <<exchange, sent, execution, fills, trade, closed, settled>>
  BY DEF MarkClosing, Closable, market
<1>3. position[i] \in PositionRow /\ position[i].qty \in Nat /\ <<i, r>> \in Order
  BY <1>1, <1>2, RowFields, OrderIsPair DEF LedgerTypes, IsLive
<1> DEFINE n == [position[i] EXCEPT !.status = "CLOSING", !.close = r]
<1>4. n \in PositionRow /\ n.status = "CLOSING" /\ n.close = r
  BY <1>3 DEF PositionRow, Live
<1>5. position' = [position EXCEPT ![i] = n]
  BY <1>2
<1> HIDE DEF n
<1>6. execution[Entry(i)] # Nil /\ \A s \in Reason : execution[<<i, s>>] # Nil => n.close = s
  BY <1>1, <1>2, <1>4, OrderIsPair DEF Reserved, IsLive
<1>7. settled' \subseteq Intent
  BY <1>1, <1>2 DEF LedgerTypes
<1>8. LedgerInv' /\ position'[i] = n /\ n # Nil
  BY <1>2, <1>4, <1>5, <1>6, <1>7, PositionIsWritten, ZenonT(60) DEF FuturesInv
<1>9. /\ pc' = "submit" /\ job' \in Jobs /\ job'.order = <<i, r>> /\ job'.for = "close"
  BY <1>1, <1>2, <1>3, JobBegins DEF Operation
<1>10. r # "open" /\ "close" # Nil
  BY OrderIsPair, NilIsNone DEF Operation
<1>11. JobTypes' /\ JobIsShaped' /\ SeenIsTrue'
  BY <1>3, <1>9, <1>10 DEF JobTypes, JobIsShaped, SeenIsTrue, Cycle, Submitting, Applying
<1>12. JobIsCurrent'
  BY <1>4, <1>8, <1>9, <1>10 DEF JobIsCurrent, IsLive, Live, Cycle
<1> QED BY <1>8, <1>11, <1>12 DEF FuturesInv, JobInv

\* The exit of a position is what its one close order has booked.
LEMMA ExitIsOneOrder ==
  ASSUME LedgerTypes, Reserved, NEW i \in Intent, NEW r \in Reason,
         position[i] # Nil, position[i].close = r
  PROVE  ExitFills(i) = Booked(<<i, r>>)
<1> DEFINE h == [s \in Reason |-> Booked(<<i, s>>)]
<1>1. h \in [Reason -> Int] /\ h[r] = Booked(<<i, r>>)
  BY OrderIsPair DEF LedgerTypes, Booked
<1>2. \A s \in Reason \ {r} : h[s] = 0
  BY OrderIsPair DEF Reserved, Booked
<1>3. ExitFills(i) = SumFunctionOnSet(h, Reason)
  BY DEF ExitFills
<1> HIDE DEF h
<1> QED BY <1>1, <1>2, <1>3, FuturesAssumption, SumOfOnlyOne

\* save_closed_position, after the close order was filled.
LEMMA SaveClosedKeeps ==
  ASSUME FuturesInv, SaveClosed
  PROVE  FuturesInv'
<1>1. /\ pc = "apply" /\ CloseComplete
      /\ UNCHANGED <<exchange, sent, execution, position, fills, settled>>
  BY DEF SaveClosed, market
<1>2. /\ LedgerTypes /\ Reserved /\ ClosedOnEvidence /\ JobTypes /\ JobIsShaped /\ JobIsCurrent /\ SeenIsTrue
      /\ job.order \in Order /\ job.for \in Operation /\ pc \notin Cycle /\ execution[job.order] # Nil
  BY <1>1, AtWork DEF Cycle, JobIsCurrent
<1>3. PICK i : i = job.order[1]
  OBVIOUS
<1>4. PICK r : r = job.order[2]
  OBVIOUS
<1>5. /\ i \in Intent /\ r \in Reason /\ job.order = <<i, r>> /\ r # "open" /\ job.seen = "FILLED"
      /\ job.qty \in Nat /\ TradeResult(i) \in [entry : Nat, exit : Int]
  BY <1>1, <1>2, <1>3, <1>4, OrderIsPair, JobFields, TradeTypes DEF CloseComplete
<1>6. CASE Abandon /\ UNCHANGED <<trade, closed>>
  <2>1. LedgerInv'
    BY <1>1, <1>2, <1>6, LedgersStay DEF FuturesInv, LedgerTypes
  <2> QED BY <1>6, <2>1, IdleJob DEF Abandon, FuturesInv
<1>7. CASE /\ ExitFills(i) = job.qty /\ closed[i] \in {Nil, job.qty}
           /\ trade' = [trade EXCEPT ![i] = TradeResult(i)]
           /\ closed' = [closed EXCEPT ![i] = job.qty]
           /\ pc' = "mark closed" /\ job' = job
  <2>1. /\ closed' \in [Intent -> Nat \cup {Nil}] /\ closed'[i] = job.qty
        /\ trade' \in [Intent -> [entry : Nat, exit : Int] \cup {Nil}]
        /\ \A j \in Intent : closed[j] # Nil => closed'[j] = closed[j]
    BY <1>2, <1>5, <1>7 DEF LedgerTypes
  <2>2. LedgerTypes' /\ Reserved'
    BY <1>1, <1>2, <2>1 DEF LedgerTypes, Reserved
  <2>3. ClosedOnEvidence'
    BY <1>1, <1>2, <2>1 DEF ClosedOnEvidence, EntryFills, Booked, Entry
  <2>4. job.for \in {"close", "recover"}
    BY <1>2, <1>4, <1>5 DEF JobIsShaped, Operation
  <2>5. position[i] # Nil /\ position[i].close = r
    BY <1>2, <1>3, <1>4, <1>5, <2>4 DEF JobIsCurrent, IsLive
  <2>6. fills[job.order].trade = "position" /\ fills[job.order].n = Filled(job.order)
    BY <1>1, <1>2, <1>5, <2>4 DEF SeenIsTrue
  <2>7. Filled(job.order) = job.qty
    BY <1>2, <1>5, <1>7, <2>5, <2>6, ExitIsOneOrder DEF Booked
  <2>8. JobTypes' /\ JobIsShaped' /\ JobIsCurrent'
    BY <1>1, <1>2, <1>4, <1>5, <1>7, <2>4, JobGoesOn DEF Applying, Submitting
  <2>9. Ended(job.order, {"Filled"})
    BY <1>1, <1>2, <1>5 DEF SeenIsTrue, Applying
  <2>10. SeenIsTrue'
    <3>1. closed'[job'.order[1]] = job.qty /\ job.qty # Nil
      BY <1>3, <1>5, <1>7, <2>1, NilIsNone
    <3> QED BY <1>1, <1>5, <1>7, <2>7, <2>9, <3>1 DEF SeenIsTrue, Ended, Filled, Applying
  <2> QED BY <2>2, <2>3, <2>8, <2>10 DEF FuturesInv, LedgerInv, JobInv
<1> QED BY <1>3, <1>6, <1>7 DEF SaveClosed

\* mark_closed, on the record of the closed position.
LEMMA MarkClosedKeeps ==
  ASSUME FuturesInv, MarkClosed
  PROVE  FuturesInv'
<1>1. /\ pc = "mark closed" /\ Return
      /\ position' = [position EXCEPT ![job.order[1]] = [@ EXCEPT !.status = "CLOSED", !.qty = 0]]
      /\ UNCHANGED <<exchange, sent, execution, fills, trade, closed, settled>>
  BY DEF MarkClosed, market
<1>2. /\ LedgerTypes /\ Reserved /\ JobIsShaped /\ JobIsCurrent /\ SeenIsTrue
      /\ job.order \in Order /\ job.for \in Operation /\ pc \notin Cycle
  BY <1>1, AtWork DEF Cycle
<1>3. PICK i : i = job.order[1]
  OBVIOUS
<1>4. PICK r : r = job.order[2]
  OBVIOUS
<1>5. i \in Intent /\ r \in Reason /\ job.order = <<i, r>> /\ r # "open"
  BY <1>1, <1>2, <1>3, <1>4, OrderIsPair DEF JobIsShaped
<1>6. job.for \in {"close", "recover"}
  BY <1>1, <1>2, <1>4, <1>5 DEF JobIsShaped, Operation
<1>7. position[i] # Nil /\ position[i].close = r /\ position[i] \in PositionRow
  BY <1>2, <1>3, <1>4, <1>5, <1>6 DEF JobIsCurrent, IsLive, LedgerTypes
<1> DEFINE n == [position[i] EXCEPT !.status = "CLOSED", !.qty = 0]
<1>8. n \in PositionRow /\ n.close = r
  BY <1>7 DEF PositionRow
<1>9. position' = [position EXCEPT ![i] = n]
  BY <1>1, <1>3
<1> HIDE DEF n
<1>10. /\ closed[i] # Nil /\ exchange[<<i, r>>] # Nil /\ exchange[<<i, r>>].status = "Filled"
       /\ exchange[<<i, r>>].filled = closed[i]
  BY <1>1, <1>2, <1>3, <1>5 DEF SeenIsTrue, Applying, Ended, Filled
<1>11. execution[Entry(i)] # Nil /\ \A s \in Reason : execution[<<i, s>>] # Nil => n.close = s
  BY <1>2, <1>5, <1>7, <1>8 DEF Reserved
<1>12. LedgerInv' /\ \A j \in Intent : j # i => position'[j] = position[j]
  <2>1. settled' \subseteq Intent
    BY <1>1, <1>2 DEF LedgerTypes
  <2>2. \E q \in Reason : exchange[<<i, q>>] # Nil /\ exchange[<<i, q>>].status = "Filled"
                         /\ exchange[<<i, q>>].filled = closed[i]
    BY <1>5, <1>10
  <2>3. LedgerInv /\ closed[i] # Nil
    BY <1>10 DEF FuturesInv
  <2> QED BY <1>1, <1>5, <1>8, <1>9, <1>11, <2>1, <2>2, <2>3, PositionIsWritten, ZenonT(60)
<1>13. JobInv'
  BY <1>1, <1>3, <1>12, ReturnJob DEF FuturesInv
<1> QED BY <1>12, <1>13 DEF FuturesInv

\* The operations that end without writing a position.
LEMMA EndingKeeps ==
  ASSUME FuturesInv, ClosePending \/ SettleReplay
  PROVE  FuturesInv'
<1>1. pc = "apply" /\ Return /\ UNCHANGED <<exchange, sent, execution, position, fills, trade, closed>>
  BY DEF ClosePending, SettleReplay, market, durable
<1>2. LedgerTypes /\ job.order[1] \in Intent
  BY <1>1, AtWork, OrderIsPair DEF Cycle
<1>3. settled' = settled \/ settled' = settled \cup {job.order[1]}
  BY DEF ClosePending, SettleReplay, Settle, durable
<1>4. LedgerInv'
  BY <1>1, <1>2, <1>3, LedgersStay DEF FuturesInv, LedgerTypes
<1>5. JobInv'
  BY <1>1, ReturnJob DEF FuturesInv
<1> QED BY <1>4, <1>5 DEF FuturesInv

\* update_open_fill.
LEMMA UpdateOpenFillKeeps ==
  ASSUME FuturesInv, UpdateOpenFill
  PROVE  FuturesInv'
<1>1. /\ pc = "apply" /\ job.for = "recover"
      /\ UNCHANGED <<exchange, sent, execution, fills, trade, closed, settled>>
  BY DEF UpdateOpenFill, market
<1>2. LedgerTypes /\ Reserved /\ JobIsCurrent /\ job.order \in Order
  BY <1>1, AtWork DEF Cycle
<1>3. PICK i : i = job.order[1]
  OBVIOUS
<1>4. i \in Intent /\ position[i] # Nil /\ position[i] \in PositionRow /\ EntryFills(i) \in Nat
  BY <1>1, <1>2, <1>3, OrderIsPair, TradeTypes DEF JobIsCurrent, IsLive, LedgerTypes
<1>5. CASE UNCHANGED position /\ (Abandon \/ Return)
  <2>1. LedgerInv'
    BY <1>1, <1>2, <1>5, LedgersStay DEF FuturesInv, LedgerTypes
  <2>2. JobInv'
    BY <1>1, <1>5, IdleJob, ReturnJob DEF FuturesInv, Abandon
  <2> QED BY <2>1, <2>2 DEF FuturesInv
<1>6. CASE /\ position' = [position EXCEPT ![i] = [@ EXCEPT !.status = "OPEN", !.qty = EntryFills(i)]]
           /\ Return
  <2> DEFINE n == [position[i] EXCEPT !.status = "OPEN", !.qty = EntryFills(i)]
  <2>1. n \in PositionRow /\ n.close = position[i].close /\ n.status = "OPEN"
    BY <1>4 DEF PositionRow, Live
  <2>2. position' = [position EXCEPT ![i] = n]
    BY <1>6
  <2> HIDE DEF n
  <2>3. execution[Entry(i)] # Nil /\ \A s \in Reason : execution[<<i, s>>] # Nil => n.close = s
    BY <1>2, <1>4, <2>1 DEF Reserved
  <2>4. settled' \subseteq Intent
    BY <1>1, <1>2 DEF LedgerTypes
  <2>5. LedgerInv' /\ \A j \in Intent : j # i => position'[j] = position[j]
    BY <1>1, <1>4, <2>1, <2>2, <2>3, <2>4, PositionIsWritten DEF FuturesInv
  <2>6. JobInv'
    BY <1>1, <1>3, <1>6, <2>5, ReturnJob DEF FuturesInv
  <2> QED BY <2>5, <2>6 DEF FuturesInv
<1> QED BY <1>3, <1>5, <1>6 DEF UpdateOpenFill

\* save_open_position.
LEMMA SaveOpenPositionKeeps ==
  ASSUME FuturesInv, SaveOpenPosition
  PROVE  FuturesInv'
<1>1. /\ pc = "apply" /\ job.for = "open" /\ Return
      /\ UNCHANGED <<exchange, sent, execution, fills, trade, closed>>
  BY DEF SaveOpenPosition, market
<1>2. /\ LedgerTypes /\ Reserved /\ JobIsShaped /\ JobIsCurrent /\ SeenIsTrue
      /\ job.order \in Order
  BY <1>1, AtWork DEF Cycle
<1>3. PICK i : i = job.order[1]
  OBVIOUS
<1>4. i \in Intent /\ job.order = Entry(i) /\ EntryFills(i) \in Nat /\ position[i] = Nil
      /\ execution[Entry(i)] # Nil /\ Quantity[i] \in Nat
  <2>1. i \in Intent /\ job.order = Entry(i)
    BY <1>1, <1>2, <1>3, OrderIsPair DEF JobIsShaped
  <2> QED BY <1>1, <1>2, <1>3, <2>1, TradeTypes, FuturesAssumption DEF JobIsCurrent, Cycle
<1> DEFINE m == EntryFills(i)
           s == PositionStatusFromOpenRecord(job.seen, m)
           n == [status |-> s, close |-> Nil,
                 qty |-> IF s = "CLOSED" THEN 0 ELSE IF m > 0 THEN m ELSE Quantity[i]]
<1>5. position' = [position EXCEPT ![i] = n]
  BY <1>1, <1>3 DEF SaveOpenPosition
<1>6. settled' = settled \/ settled' = settled \cup {i}
  BY <1>3 DEF SaveOpenPosition, Settle
<1>7. /\ s \in {"OPEN", "CLOSED", "UNKNOWN"}
      /\ s = "CLOSED" => m = 0 /\ job.seen \in {"CANCELLED", "REJECTED"}
  BY <1>4 DEF PositionStatusFromOpenRecord
<1>8. n \in PositionRow /\ n.status = s
  <2> HIDE DEF s, m
  <2>1. (IF s = "CLOSED" THEN 0 ELSE IF m > 0 THEN m ELSE Quantity[i]) \in Nat
    BY <1>4 DEF m
  <2> QED BY <1>7, <2>1 DEF PositionRow, Live
<1>9. n.status = "CLOSED" =>
         /\ exchange[Entry(i)] # Nil
         /\ exchange[Entry(i)].status \in {"Cancelled", "PartiallyFilledCanceled", "Rejected"}
         /\ EntryFills(i) = 0
  <2> HIDE DEF n, s
  <2> QED BY <1>1, <1>2, <1>4, <1>7, <1>8 DEF SeenIsTrue, Applying, Ended
<1>10. \A r \in Reason : execution[<<i, r>>] = Nil
  BY <1>2, <1>4 DEF Reserved
<1> HIDE DEF n, s, m
<1>11. LedgerInv' /\ \A j \in Intent : j # i => position'[j] = position[j]
  <2>1. settled' \subseteq Intent
    BY <1>2, <1>4, <1>6 DEF LedgerTypes
  <2> QED BY <1>1, <1>4, <1>5, <1>8, <1>9, <1>10, <2>1, PositionIsWritten DEF FuturesInv
<1>12. JobInv'
  BY <1>1, <1>3, <1>11, ReturnJob DEF FuturesInv
<1> QED BY <1>11, <1>12 DEF FuturesInv

-----------------------------------------------------------------------------
(* The steps of the cycle.                                                 *)

\* Between operations the worker has no order.
LEMMA JobOfCycle ==
  ASSUME pc' \in Cycle, job' \in Jobs, job'.for = Nil,
         pc' = "recover" => \A j \in job'.todo : j \in Intent /\ IsLive(j)'
  PROVE  JobInv'
<1>1. Nil \notin {"open", "close", "recover", "replay"}
  BY NilIsNone DEF Operation
<1>2. JobTypes' /\ JobIsShaped' /\ SeenIsTrue'
  BY <1>1 DEF JobTypes, JobIsShaped, SeenIsTrue, Cycle, Submitting, Applying
<1>3. JobIsCurrent'
  BY <1>1 DEF JobIsCurrent, Cycle
<1> QED BY <1>2, <1>3 DEF JobInv

\* process_once begins with the positions that are live.
LEMMA StartCycleKeeps ==
  ASSUME FuturesInv, StartCycle
  PROVE  FuturesInv'
<1>1. UNCHANGED <<exchange, sent, execution, position, fills, trade, closed, settled>>
  BY DEF StartCycle, market, durable
<1>2. LedgerInv'
  BY <1>1, LedgersStay DEF FuturesInv, LedgerInv, LedgerTypes
<1> DEFINE live == {i \in Intent : IsLive(i)}
           flat == (Exposure = 0)
           u == [NoJob EXCEPT !.cycle = TRUE, !.flat = flat, !.todo = live]
<1>3. pc' = "recover" /\ job' = u
  BY DEF StartCycle
<1>4. flat \in BOOLEAN /\ live \in SUBSET (Intent \cup Order)
      /\ \A j \in live : j \in Intent /\ IsLive(j)'
  BY <1>1 DEF IsLive
<1> HIDE DEF live, flat
<1>5. u \in Jobs /\ u.for = Nil /\ u.todo = live
  BY <1>4 DEF NoJob, Jobs
<1> HIDE DEF u
<1>6. JobInv'
  BY <1>3, <1>4, <1>5, JobOfCycle DEF Cycle
<1> QED BY <1>2, <1>6 DEF FuturesInv

\* reconcile_position on the order a live position is waiting for.
LEMMA RecoverPositionKeeps ==
  ASSUME FuturesInv, NEW i \in Intent, RecoverPosition(i)
  PROVE  FuturesInv'
<1>1. /\ pc = "recover" /\ i \in job.todo
      /\ UNCHANGED <<exchange, sent, execution, position, fills, trade, closed, settled>>
  BY DEF RecoverPosition, market, durable
<1>2. LedgerTypes /\ JobTypes /\ JobIsShaped /\ JobIsCurrent
  BY DEF FuturesInv, LedgerInv, JobInv
<1>3. LedgerInv'
  BY <1>1, <1>2, LedgersStay DEF FuturesInv, LedgerTypes
<1>4. job.for = Nil /\ IsLive(i) /\ \A j \in job.todo : j \in Intent /\ IsLive(j)
  BY <1>1, <1>2 DEF JobIsShaped, JobIsCurrent, Cycle
<1>5. position[i] \in PositionRow /\ position[i].close \in Reason \cup {Nil} /\ position[i].qty \in Nat
  BY <1>2, <1>4, RowFields DEF IsLive, LedgerTypes
<1> DEFINE o == <<i, IF position[i].close = Nil THEN "open" ELSE position[i].close>>
<1>6. o \in Order /\ o[1] = i /\ (o[2] # "open" => position[i].close = o[2])
  BY <1>5, OrderIsPair DEF Order
<1> HIDE DEF o
<1>7. job.todo \ {i} \in SUBSET (Intent \cup Order)
  BY <1>2, JobFields
<1>8. CASE /\ job' = [job EXCEPT !.todo = @ \ {i}] /\ pc' = pc
  <2>1. job' \in Jobs /\ job'.for = Nil /\ job'.todo = job.todo \ {i}
    BY <1>2, <1>4, <1>7, <1>8 DEF JobTypes, Jobs
  <2>2. \A j \in job'.todo : j \in Intent /\ IsLive(j)'
    BY <1>1, <1>4, <2>1 DEF IsLive
  <2>3. JobInv'
    BY <1>1, <1>8, <2>1, <2>2, JobOfCycle DEF Cycle
  <2> QED BY <1>3, <2>3 DEF FuturesInv
<1>9. CASE /\ execution[o] # Nil /\ pc' = "reconcile"
           /\ job' = [job EXCEPT !.todo = @ \ {i}, !.order = o, !.for = "recover",
                                 !.qty = position[i].qty]
  <2>1. /\ job' \in Jobs /\ job'.order = o /\ job'.for = "recover" /\ job'.todo = job.todo \ {i}
    BY <1>2, <1>5, <1>6, <1>7, <1>9 DEF JobTypes, Jobs, Operation
  <2>2. "recover" # Nil
    BY NilIsNone DEF Operation
  <2>3. JobTypes' /\ JobIsShaped' /\ SeenIsTrue'
    BY <1>6, <1>9, <2>1, <2>2 DEF JobTypes, JobIsShaped, SeenIsTrue, Cycle, Submitting, Applying
  <2>4. JobIsCurrent'
    BY <1>1, <1>4, <1>6, <1>9, <2>1 DEF JobIsCurrent, IsLive, Cycle
  <2> QED BY <1>3, <2>3, <2>4 DEF FuturesInv, JobInv
<1> QED BY <1>8, <1>9 DEF RecoverPosition, o

\* recover_unresolved.
LEMMA RecoverUnresolvedKeeps ==
  ASSUME FuturesInv, RecoverUnresolved
  PROVE  FuturesInv'
<1>1. /\ pc = "recover" /\ pc' = "orphans"
      /\ UNCHANGED <<exchange, sent, position, fills, trade, closed, settled>>
  BY DEF RecoverUnresolved, market
<1>2. LedgerTypes /\ JobTypes /\ JobIsShaped
  BY DEF FuturesInv, LedgerInv, JobInv
<1> DEFINE open == {o \in Order : execution[o] # Nil /\ execution[o].status \in Unresolved}
           status(dark, o) == IF o \in dark \/ exchange[o] = Nil THEN "UNKNOWN"
                              ELSE MapOrderStatus(exchange[o].status)
<1>3. PICK dark \in SUBSET {o \in open : exchange[o] # Nil} :
         /\ execution' = [o \in Order |->
                IF o \in open THEN [execution[o] EXCEPT !.status = status(dark, o)] ELSE execution[o]]
         /\ job' = [job EXCEPT !.todo =
                {o \in open : status(dark, o) \in {"FILLED", "PARTIALLY_FILLED"} /\ ~OfPosition(o)}]
  BY DEF RecoverUnresolved
<1>4. ASSUME NEW o \in Order PROVE status(dark, o) \in ExecutionStatus
  <2>1. CASE exchange[o] # Nil
    BY <1>2, <2>1, RowFields DEF LedgerTypes, MapOrderStatus, OrderStatus, ExecutionStatus, Unresolved
  <2>2. CASE exchange[o] = Nil
    BY <2>2 DEF ExecutionStatus, Unresolved
  <2> QED BY <2>1, <2>2
<1> DEFINE left == {o \in open : status(dark, o) \in {"FILLED", "PARTIALLY_FILLED"} /\ ~OfPosition(o)}
<1>5. left \in SUBSET (Intent \cup Order) /\ job' = [job EXCEPT !.todo = left]
  BY <1>3
<1>6. execution' = [o \in Order |->
         IF o \in open THEN [execution[o] EXCEPT !.status = status(dark, o)] ELSE execution[o]]
  BY <1>3
<1> HIDE DEF left, status
<1>7. /\ execution' \in [Order -> ExecutionRow \cup {Nil}]
      /\ \A o \in Order : execution'[o] = Nil <=> execution[o] = Nil
  <2> SUFFICES ASSUME NEW o \in Order
               PROVE  /\ execution'[o] \in ExecutionRow \cup {Nil}
                      /\ execution'[o] = Nil <=> execution[o] = Nil
    BY <1>6
  <2>1. CASE o \in open
    <3>1. execution[o] \in ExecutionRow /\ execution[o] # Nil
      BY <1>2, <2>1 DEF LedgerTypes
    <3>2. execution'[o] = [execution[o] EXCEPT !.status = status(dark, o)]
      BY <1>6, <2>1
    <3>3. execution'[o] \in ExecutionRow
      BY <1>4, <3>1, <3>2 DEF ExecutionRow
    <3> QED BY <3>1, <3>3, NilIsNone
  <2>2. CASE o \notin open
    BY <1>2, <1>6, <2>2 DEF LedgerTypes
  <2> QED BY <2>1, <2>2
<1>8. LedgerInv'
  BY <1>1, <1>7, RecordsMove DEF FuturesInv
<1>9. job' \in Jobs /\ job'.for = Nil
  <2>1. job.for = Nil
    BY <1>1, <1>2 DEF JobIsShaped, Cycle
  <2> QED BY <1>2, <1>5, <2>1 DEF JobTypes, Jobs
<1>10. JobInv'
  BY <1>1, <1>9, JobOfCycle DEF Cycle
<1> QED BY <1>8, <1>10 DEF FuturesInv

\* The fills of an order of no live position are booked for its intent.
LEMMA IngestOrphanKeeps ==
  ASSUME FuturesInv, NEW o \in Order, IngestOrphan(o)
  PROVE  FuturesInv'
<1>1. /\ pc = "orphans"
      /\ UNCHANGED <<exchange, sent, execution, position, trade, closed, settled>>
  BY DEF IngestOrphan, market
<1>2. LedgerTypes /\ JobTypes /\ JobIsShaped
  BY DEF FuturesInv, LedgerInv, JobInv
<1>3. CASE Abandon /\ UNCHANGED fills
  <2>1. LedgerInv'
    BY <1>1, <1>2, <1>3, LedgersStay DEF FuturesInv, LedgerTypes
  <2> QED BY <1>3, <2>1, IdleJob DEF Abandon, FuturesInv
<1>4. CASE /\ fills' = [fills EXCEPT ![o] = [n |-> Filled(o), trade |-> "intent"]]
           /\ job' = [job EXCEPT !.todo = @ \ {o}] /\ pc' = pc
  <2>1. LedgerInv'
    BY <1>1, <1>4, FillsAreBooked DEF FuturesInv
  <2>2. job' \in Jobs /\ job'.for = Nil
    <3>1. job.for = Nil /\ job.todo \ {o} \in SUBSET (Intent \cup Order)
      BY <1>1, <1>2, JobFields DEF JobIsShaped, Cycle
    <3> QED BY <1>2, <1>4, <3>1 DEF JobTypes, Jobs
  <2>3. JobInv'
    BY <1>1, <1>4, <2>2, JobOfCycle DEF Cycle
  <2> QED BY <2>1, <2>3 DEF FuturesInv
<1> QED BY <1>3, <1>4 DEF IngestOrphan

\* The cycle goes on to the monitor and to the lane.
LEMMA CycleGoesOn ==
  ASSUME FuturesInv, StartMonitor \/ NothingToProtect
  PROVE  FuturesInv'
<1>1. /\ pc \in {"orphans", "monitor"} /\ pc' \in {"monitor", "lane"} /\ job' = job
      /\ UNCHANGED <<exchange, sent, execution, position, fills, trade, closed, settled>>
  BY DEF StartMonitor, NothingToProtect, market, durable
<1>2. LedgerInv'
  BY <1>1, LedgersStay DEF FuturesInv, LedgerInv, LedgerTypes
<1>3. job' \in Jobs /\ job'.for = Nil
  BY <1>1 DEF FuturesInv, JobInv, JobTypes, JobIsShaped, Cycle
<1>4. JobInv'
  BY <1>1, <1>3, JobOfCycle DEF Cycle
<1> QED BY <1>2, <1>4 DEF FuturesInv

\* The lane begins an entry when no position is live, or replays one that has
\* a record.
LEMMA LaneKeeps ==
  ASSUME FuturesInv, NEW i \in Intent, OpenPosition(i) \/ ReplayIntent(i)
  PROVE  FuturesInv'
<1>1. /\ pc = "lane"
      /\ UNCHANGED <<exchange, sent, execution, position, fills, trade, closed, settled>>
  BY DEF OpenPosition, ReplayIntent, Decides, market, durable
<1>2. LedgerTypes /\ Reserved /\ JobTypes
  BY DEF FuturesInv, LedgerInv, JobInv
<1>3. LedgerInv'
  BY <1>1, <1>2, LedgersStay DEF FuturesInv, LedgerTypes
<1>4. Entry(i) \in Order /\ Entry(i)[1] = i /\ Entry(i)[2] = "open"
      /\ Quantity[i] \in Nat /\ Nil \notin {"open", "replay"}
  BY OrderIsPair, FuturesAssumption, NilIsNone DEF Operation
<1>5. CASE OpenPosition(i)
  <2>1. Vacant /\ execution[Entry(i)] = Nil /\ Start(Entry(i), "open", "submit", Quantity[i])
    BY <1>5 DEF OpenPosition
  <2>2. pc' = "submit" /\ job' \in Jobs /\ job'.order = Entry(i) /\ job'.for = "open"
    BY <1>2, <1>4, <2>1, JobBegins DEF Operation
  <2>3. JobTypes' /\ JobIsShaped' /\ SeenIsTrue'
    BY <1>4, <2>2 DEF JobTypes, JobIsShaped, SeenIsTrue, Cycle, Submitting, Applying
  <2>4. position[i] = Nil
    BY <1>2, <2>1 DEF Reserved
  <2>5. JobIsCurrent'
    BY <1>1, <1>4, <2>1, <2>2, <2>4 DEF JobIsCurrent, Vacant, IsLive, Cycle
  <2> QED BY <1>3, <2>3, <2>5 DEF FuturesInv, JobInv
<1>6. CASE ReplayIntent(i)
  <2>1. execution[Entry(i)] # Nil /\ Start(Entry(i), "replay", "reconcile", 0)
    BY <1>6 DEF ReplayIntent
  <2>2. pc' = "reconcile" /\ job' \in Jobs /\ job'.order = Entry(i) /\ job'.for = "replay"
    BY <1>2, <1>4, <2>1, JobBegins DEF Operation
  <2>3. JobTypes' /\ JobIsShaped' /\ SeenIsTrue'
    BY <1>4, <2>2 DEF JobTypes, JobIsShaped, SeenIsTrue, Cycle, Submitting, Applying
  <2>4. JobIsCurrent'
    BY <1>1, <1>4, <2>1, <2>2 DEF JobIsCurrent, Cycle
  <2> QED BY <1>3, <2>3, <2>4 DEF FuturesInv, JobInv
<1> QED BY <1>5, <1>6

-----------------------------------------------------------------------------
(***************************************************************************)
(* The ledgers and the worker's job fit, whatever the exchange does and    *)
(* wherever the worker dies.                                               *)
(***************************************************************************)
THEOREM FuturesInvariant == Spec => []FuturesInv
<1>1. Init => FuturesInv
  <2> SUFFICES ASSUME Init PROVE FuturesInv
    OBVIOUS
  <2>1. LedgerTypes /\ Reserved
    BY OrderIsPair DEF Init, LedgerTypes, Reserved
  <2>2. ClosedOnEvidence
    BY DEF Init, ClosedOnEvidence
  <2>3. JobTypes
    BY DEF Init, JobTypes, NoJob, Jobs, Cycle
  <2>4. pc = "idle" /\ job.for = Nil /\ Nil \notin {"open", "close", "recover", "replay"}
    BY NilIsNone DEF Init, NoJob, Operation
  <2>5. JobIsShaped /\ JobIsCurrent /\ SeenIsTrue
    BY <2>4 DEF JobIsShaped, JobIsCurrent, SeenIsTrue, Cycle, Submitting, Applying
  <2> QED BY <2>1, <2>2, <2>3, <2>5 DEF FuturesInv, LedgerInv, JobInv
<1>2. FuturesInv /\ [Next]_vars => FuturesInv'
  <2> SUFFICES ASSUME FuturesInv, [Next]_vars PROVE FuturesInv'
    OBVIOUS
  <2>1. CASE UNCHANGED vars
    <3>1. LedgerInv'
      BY <2>1, LedgersStay DEF vars, FuturesInv, LedgerInv, LedgerTypes
    <3>2. JobTypes' /\ JobIsShaped' /\ JobIsCurrent'
      BY <2>1 DEF vars, FuturesInv, JobInv, JobTypes, JobIsShaped, JobIsCurrent, Vacant, IsLive
    <3>3. SeenIsTrue'
      BY <2>1 DEF vars, FuturesInv, JobInv, SeenIsTrue, Ended, Filled
    <3> QED BY <3>1, <3>2, <3>3 DEF FuturesInv, JobInv
  <2>2. CASE \E i \in Intent, r \in Reason : OperatorClose(i, r) \/ MonitorProtectiveExit(i, r)
    BY <2>2, MarkClosingKeeps DEF OperatorClose, MonitorProtectiveExit
  <2>3. CASE Worker /\ ~\E i \in Intent, r \in Reason : OperatorClose(i, r) \/ MonitorProtectiveExit(i, r)
    BY <2>3, StartCycleKeeps, RecoverUnresolvedKeeps, CycleGoesOn, GivingUpKeeps, RecoverPositionKeeps,
       LaneKeeps, IngestOrphanKeeps, ReconcileKeeps, IngestKeeps, TryCloseTradeKeeps, ReserveKeeps,
       MarkSubmittingKeeps, CreateLimitOrderKeeps, SaveClosedKeeps, MarkClosedKeeps, EndingKeeps,
       UpdateOpenFillKeeps, SaveOpenPositionKeeps DEF Worker
  <2>4. CASE Crash \/ \E o \in Order : Fill(o) \/ Cancel(o)
    BY <2>4, GivingUpKeeps, FillKeeps
  <2> QED BY <2>1, <2>2, <2>3, <2>4 DEF Next
<1> QED BY <1>1, <1>2, PTL DEF Spec

(***************************************************************************)
(* For any entries, quantities and close reasons: no order is sent twice,  *)
(* a position gets one close order between the monitor and the operator,   *)
(* and it is CLOSED on the exchange's evidence.                            *)
(***************************************************************************)
THEOREM OrdersAreEvident == Spec => []OrdersMatchEvidence
<1>1. ASSUME FuturesInv PROVE OrdersMatchEvidence
  <2>1. LedgerTypes /\ Reserved /\ ClosedOnEvidence
    BY <1>1 DEF FuturesInv, LedgerInv
  <2>2. SentOnce
    BY <2>1 DEF SentOnce, Reserved
  <2>3. OneCloseOrder
    <3> SUFFICES ASSUME NEW i \in Intent
                 PROVE  Cardinality({r \in Reason : sent[<<i, r>>] > 0}) <= 1
      BY DEF OneCloseOrder
    <3> DEFINE C == {r \in Reason : sent[<<i, r>>] > 0}
    <3>1. C \subseteq {position[i].close}
      BY <2>1, OrderIsPair DEF Reserved, LedgerTypes
    <3> HIDE DEF C
    <3>2. IsFiniteSet({position[i].close}) /\ Cardinality({position[i].close}) = 1
      BY FS_Singleton
    <3>3. Cardinality(C) <= 1
      BY <3>1, <3>2, FS_Subset
    <3> QED BY <3>3 DEF C
  <2> QED BY <2>1, <2>2, <2>3 DEF OrdersMatchEvidence
<1> QED BY <1>1, FuturesInvariant, PTL

(***************************************************************************)
(* A CLOSED position stays as it is, although update_open_fill and         *)
(* mark_closed have no guard of their own, and no entry reaches the        *)
(* exchange while a position of the symbol is not CLOSED.                  *)
(***************************************************************************)
THEOREM PositionsSettle == Spec => PositionSettles
<1> DEFINE Final == \A i \in Intent : position[i] # Nil /\ position[i].status = "CLOSED"
                                        => position'[i] = position[i]
           Alone == \A i \in Intent : sent'[Entry(i)] # sent[Entry(i)] => ~\E j \in Intent : IsLive(j)
<1>1. ASSUME FuturesInv, Next PROVE Final
  <2>1. LedgerTypes
    BY <1>1 DEF FuturesInv, LedgerInv
  <2>2. ASSUME NEW k \in Intent, NEW n, position' = [position EXCEPT ![k] = n],
               position[k] = Nil \/ IsLive(k)
        PROVE  Final
    BY <2>1, <2>2 DEF LedgerTypes, IsLive, Live
  <2>3. ASSUME pc = "apply" \/ pc = "mark closed"
        PROVE  /\ job.order[1] \in Intent
               /\ job.for = "open" => position[job.order[1]] = Nil
               /\ job.for = "recover" \/ pc = "mark closed" => IsLive(job.order[1])
    <3>1. job.order \in Order /\ job.for \in Operation /\ JobIsShaped /\ JobIsCurrent
      BY <1>1, <2>3, AtWork DEF Cycle
    <3> QED BY <3>1, OrderIsPair DEF Operation, JobIsShaped, JobIsCurrent
  <2>4. CASE \E i \in Intent, r \in Reason : MarkClosing(i, r)
    BY <2>2, <2>4 DEF MarkClosing, Closable
  <2>5. CASE MarkClosed
    BY <2>2, <2>3, <2>5 DEF MarkClosed
  <2>6. CASE UpdateOpenFill
    <3>1. pc = "apply" /\ job.for = "recover"
      BY <2>6 DEF UpdateOpenFill
    <3>2. CASE position' = position
      BY <3>2
    <3>3. CASE position' # position
      BY <2>2, <2>3, <2>6, <3>1, <3>3 DEF UpdateOpenFill
    <3> QED BY <3>2, <3>3
  <2>7. CASE SaveOpenPosition
    BY <2>2, <2>3, <2>7 DEF SaveOpenPosition
  <2>8. CASE position' = position
    BY <2>8
  <2> HIDE DEF Final
  <2> QED BY <1>1, <2>4, <2>5, <2>6, <2>7, <2>8 DEF Next, Worker, OperatorClose, MonitorProtectiveExit,
            StartCycle, RecoverUnresolved, StartMonitor, NothingToProtect, LaneSkips, RecoverPosition,
            OpenPosition, ReplayIntent, RiskRejects, IngestOrphan, Reconcile, IngestExecution,
            TryCloseTrade, Refuse, Reserve, MarkSubmitting, CreateLimitOrder, SaveClosed, ClosePending,
            SettleReplay, Crash, Raise, Fill, Cancel, durable
<1>2. ASSUME FuturesInv, Next PROVE Alone
  <2>1. CASE sent' = sent
    BY <2>1
  <2>2. CASE CreateLimitOrder
    <3>1. pc = "send" /\ sent' = [sent EXCEPT ![job.order] = @ + 1]
      BY <2>2 DEF CreateLimitOrder
    <3>2. LedgerTypes /\ JobIsShaped /\ JobIsCurrent /\ job.order \in Order
      BY <1>2, <3>1, AtWork DEF Cycle
    <3> SUFFICES ASSUME NEW i \in Intent, sent'[Entry(i)] # sent[Entry(i)] PROVE Vacant
      BY DEF Vacant
    <3>3. job.order = Entry(i)
      BY <3>1, <3>2, OrderIsPair DEF LedgerTypes
    <3>4. job.for = "open"
      BY <3>1, <3>2, <3>3, OrderIsPair DEF JobIsShaped, Submitting
    <3> QED BY <3>2, <3>4 DEF JobIsCurrent
  <2> HIDE DEF Alone
  <2> QED BY <1>2, <2>1, <2>2 DEF Next, Worker, OperatorClose, MonitorProtectiveExit, MarkClosing,
            StartCycle, RecoverUnresolved, StartMonitor, NothingToProtect, LaneSkips, RecoverPosition,
            OpenPosition, ReplayIntent, RiskRejects, IngestOrphan, Reconcile, IngestExecution,
            TryCloseTrade, Refuse, Reserve, MarkSubmitting, SaveClosed, MarkClosed, ClosePending,
            UpdateOpenFill, SaveOpenPosition, SettleReplay, Crash, Raise, Fill, Cancel, market
<1>3. FuturesInv /\ [Next]_vars => [Final]_vars /\ [Alone]_vars
  BY <1>1, <1>2
<1>4. Spec => [][Final]_vars /\ [][Alone]_vars
  BY <1>3, FuturesInvariant, PTL DEF Spec
<1> QED BY <1>4 DEF PositionSettles, ClosedIsFinal, EntryNeedsVacancy

-----------------------------------------------------------------------------
(* The stores: what a call has read under its lock still holds when it writes.*)

\* The locks of a call are keys.
LEMMA LocksAreKeys ==
  ASSUME NEW op, NEW i \in StoreIntent
  PROVE  /\ Stores!Locks(op, i) \subseteq Stores!Keys
         /\ backend = "postgres" /\ op = "reserve" => <<"client", ClientOf[i]>> \in Stores!Locks(op, i)
BY DEF Stores!Locks, Stores!Keys

\* A step of one worker leaves the calls of the others as they were, with the
\* locks they hold.
LEMMA OthersStaySound ==
  ASSUME Stores!StoresInv, NEW w \in StoreWorker, UNCHANGED backend,
         \A v \in StoreWorker \ {w} : call'[v] = call[v],
         \A k \in Stores!Keys : locks[k] # w /\ locks[k] # Nil => locks'[k] = locks[k],
         NEW v \in StoreWorker \ {w}, call[v] # Nil
  PROVE  Stores!CallIsSound(call[v], v)'
<1>1. call[v] \in Stores!InCall /\ Stores!CallIsSound(call[v], v)
  BY DEF Stores!StoresInv, Stores!TypeOK
<1>2. call[v].p \in StoreIntent /\ call'[v] = call[v] /\ v # Nil
  BY <1>1, StoresAssumption DEF Stores!InCall, Stores!StoresConstants
<1>3. Stores!Locks(call[v].op, call[v].p)' = Stores!Locks(call[v].op, call[v].p)
  BY <1>2 DEF Stores!Locks
<1>4. \A k \in Stores!Locks(call[v].op, call[v].p) \ call[v].wanted : locks'[k] = v
  BY <1>1, <1>2, LocksAreKeys DEF Stores!CallIsSound
<1> QED BY <1>1, <1>2, <1>3, <1>4 DEF Stores!CallIsSound

\* What they have read holds as long as orders, rows and closed positions only
\* grow, and no order has the client order id one of them has locked.
LEMMA OthersReadHolds ==
  ASSUME Stores!StoresInv, NEW w \in StoreWorker, UNCHANGED backend,
         \A v \in StoreWorker \ {w} : call'[v] = call[v],
         \A i \in StoreIntent : rows[i] # Nil => rows'[i] # Nil,
         storeClosed \subseteq storeClosed',
         NEW v \in StoreWorker \ {w}, call[v] # Nil,
         \A i \in StoreIntent : orders'[i] => orders[i] \/ ClientOf[i] # ClientOf[call[v].p] \/ backend = "sqlite"
                                  \/ call[v].op # "reserve" \/ call[v].step # "insert"
  PROVE  Stores!ReadStillHolds(call[v])'
<1>1. call[v] \in Stores!InCall /\ Stores!ReadStillHolds(call[v]) /\ call'[v] = call[v]
  BY DEF Stores!StoresInv, Stores!TypeOK
<1>2. call[v].p \in StoreIntent /\ backend \in {"postgres", "sqlite"}
  BY <1>1 DEF Stores!InCall, Stores!StoresInv, Stores!TypeOK
<1>3. call[v].step = "insert" /\ call[v].op = "reserve" /\ backend = "postgres" => ~Stores!Collides(call[v].p)'
  BY <1>1, <1>2 DEF Stores!ReadStillHolds, Stores!Collides
<1>4. call[v].step \in {"revision", "update"} => ~Stores!Inserts(call[v].op) /\ rows'[call[v].p] # Nil
  BY <1>1, <1>2 DEF Stores!ReadStillHolds
<1>5. call[v].step = "revision" => call[v].seen \in Stores!Row /\ Stores!Change(call[v], call[v].seen)' \in Stores!Row
  <2> SUFFICES ASSUME call[v].step = "revision" PROVE Stores!Change(call[v], call[v].seen)' = Stores!Change(call[v], call[v].seen)
    BY <1>1, <1>2 DEF Stores!ReadStillHolds
  <2>1. Stores!Change(call[v], call[v].seen) \in Stores!Row /\ Nil \notin Stores!Row
    BY <1>1, StoresAssumption DEF Stores!ReadStillHolds, Stores!StoresConstants
  <2>2. ~Stores!Inserts(call[v].op) /\ call[v].op \in Stores!Operations
    BY <1>1 DEF Stores!ReadStillHolds, Stores!InCall
  <2>3. call[v].op = "mark_closed" /\ backend = "postgres" => call[v].p \in storeClosed
    BY <2>1 DEF Stores!Change
  <2> QED BY <1>1, <2>2, <2>3 DEF Stores!Change, Stores!Inserts, Stores!Operations
<1>6. call[v].step = "insert" => Stores!Inserts(call[v].op)
  BY <1>1 DEF Stores!ReadStillHolds
<1>7. call[v].step = "update" /\ backend = "postgres" => call[v].seen \in Stores!Row
  BY <1>1 DEF Stores!ReadStillHolds
<1> QED BY <1>1, <1>3, <1>4, <1>5, <1>6, <1>7 DEF Stores!ReadStillHolds

\* Locks taken or released by one worker are nobody else's.
LEMMA EndReleases ==
  ASSUME NEW w \in StoreWorker, Stores!End(w), Stores!StoresInv
  PROVE  /\ call'[w] = Nil /\ DOMAIN call' = StoreWorker
         /\ \A v \in StoreWorker \ {w} : call'[v] = call[v]
         /\ locks' \in [Stores!Keys -> StoreWorker \cup {Nil}]
         /\ \A k \in Stores!Keys : locks[k] # w /\ locks[k] # Nil => locks'[k] = locks[k]
BY DEF Stores!End, Stores!StoresInv, Stores!TypeOK

\* A step of one worker, once its own call is accounted for.
LEMMA StoreStepOf ==
  ASSUME Stores!StoresInv, NEW w \in StoreWorker, UNCHANGED <<backend, rows, storeClosed, orders, told>>,
         \A v \in StoreWorker \ {w} : call'[v] = call[v], DOMAIN call' = StoreWorker, made' \in Nat,
         \A k \in Stores!Keys : locks[k] # w /\ locks[k] # Nil => locks'[k] = locks[k],
         locks' \in [Stores!Keys -> StoreWorker \cup {Nil}],
         call'[w] # Nil => /\ call'[w] \in Stores!InCall
                           /\ Stores!CallIsSound(call[w], w)' /\ Stores!ReadStillHolds(call[w])'
  PROVE  Stores!StoresInv'
<1>1. \A v \in StoreWorker \ {w} : call[v] # Nil => Stores!CallIsSound(call[v], v)' /\ Stores!ReadStillHolds(call[v])'
  BY OthersStaySound, OthersReadHolds
<1>2. Stores!OneReservation' /\ Stores!IndexHolds'
  BY DEF Stores!StoresInv, Stores!OneReservation, Stores!IndexHolds, Stores!OneLivePosition, Stores!IsLive
<1>3. Stores!TypeOK'
  BY DEF Stores!StoresInv, Stores!TypeOK
<1> QED BY <1>1, <1>2, <1>3 DEF Stores!StoresInv

LEMMA BeginKeeps ==
  ASSUME Stores!StoresInv, NEW w \in StoreWorker, NEW c \in StoreCalls, Stores!Begin(w, c)
  PROVE  Stores!StoresInv'
<1> DEFINE x == [n |-> made, op |-> c.op, p |-> c.p, arg |-> c.arg, step |-> "lock",
                 wanted |-> Stores!Locks(c.op, c.p), seen |-> Nil]
<1>1. /\ call' = [call EXCEPT ![w] = x] /\ made' = made + 1 /\ made \in Nat
      /\ UNCHANGED <<backend, rows, storeClosed, orders, told, locks>>
  BY DEF Stores!Begin, Stores!tables, Stores!StoresInv, Stores!TypeOK
<1>2. /\ c.op \in Stores!Operations /\ c.p \in StoreIntent
      /\ c.arg \in Stores!Status \cup CloseReason \cup {Nil}
      /\ c.op = "open" => c.arg \in Stores!Status
      /\ c.op = "mark_closing" => c.arg \in CloseReason
  <2>1. c \in [op : Stores!Operations, p : StoreIntent, arg : Stores!Status \cup CloseReason \cup {Nil}]
    BY StoresAssumption DEF Stores!StoresConstants
  <2>2. (c.op = "open" => c.arg \in Stores!Status) /\ (c.op = "mark_closing" => c.arg \in CloseReason)
    BY StoresAssumption DEF Stores!StoresConstants
  <2> QED BY <2>1, <2>2
<1>3. x \in Stores!InCall
  <2>1. Stores!Locks(c.op, c.p) \in SUBSET Stores!Keys
    BY <1>2, LocksAreKeys
  <2> QED BY <1>1, <1>2, <2>1 DEF Stores!InCall
<1>4. call'[w] = x /\ DOMAIN call' = StoreWorker /\ \A v \in StoreWorker \ {w} : call'[v] = call[v]
  BY <1>1 DEF Stores!StoresInv, Stores!TypeOK
<1>5. /\ x.op = c.op /\ x.p = c.p /\ x.arg = c.arg /\ x.step = "lock" /\ x.wanted = Stores!Locks(c.op, c.p)
  OBVIOUS
<1> HIDE DEF x
<1>6. Stores!Locks(call[w].op, call[w].p)' = Stores!Locks(c.op, c.p)
  BY <1>1, <1>4, <1>5 DEF Stores!Locks
<1>7. Stores!CallIsSound(call[w], w)' /\ Stores!ReadStillHolds(call[w])'
  BY <1>2, <1>4, <1>5, <1>6 DEF Stores!CallIsSound, Stores!ReadStillHolds
<1>8. locks' \in [Stores!Keys -> StoreWorker \cup {Nil}] /\ made' \in Nat
  BY <1>1 DEF Stores!StoresInv, Stores!TypeOK
<1> QED BY <1>1, <1>3, <1>4, <1>7, <1>8, StoreStepOf

\* The call a worker is in.
LEMMA CallFields ==
  ASSUME Stores!StoresInv, NEW w \in StoreWorker, call[w] # Nil
  PROVE  /\ call[w] \in Stores!InCall /\ call[w].op \in Stores!Operations /\ call[w].p \in StoreIntent
         /\ call[w].wanted \in SUBSET Stores!Keys /\ call[w].n \in Nat
         /\ Stores!CallIsSound(call[w], w) /\ Stores!ReadStillHolds(call[w])
         /\ w # Nil /\ backend \in {"postgres", "sqlite"}
BY StoresAssumption DEF Stores!StoresInv, Stores!TypeOK, Stores!InCall, Stores!StoresConstants

LEMMA LockKeeps ==
  ASSUME Stores!StoresInv, NEW w \in StoreWorker, Stores!Lock(w)
  PROVE  Stores!StoresInv'
<1>1. /\ call[w] # Nil /\ call[w].step = "lock" /\ made' = made
      /\ UNCHANGED <<backend, rows, storeClosed, orders, told>>
  BY DEF Stores!Lock, Stores!tables
<1>2. /\ call[w] \in Stores!InCall /\ Stores!CallIsSound(call[w], w) /\ w # Nil
      /\ call[w].p \in StoreIntent /\ made' \in Nat
  BY <1>1, CallFields DEF Stores!StoresInv, Stores!TypeOK
<1>3. CASE /\ call[w].wanted = {} /\ call' = [call EXCEPT ![w].step = "read"] /\ locks' = locks
  <2> DEFINE x == [call[w] EXCEPT !.step = "read"]
  <2>1. /\ x \in Stores!InCall /\ x.op = call[w].op /\ x.p = call[w].p /\ x.arg = call[w].arg
        /\ x.step = "read" /\ x.wanted = {}
    BY <1>2, <1>3 DEF Stores!InCall
  <2>2. call'[w] = x /\ DOMAIN call' = StoreWorker /\ \A v \in StoreWorker \ {w} : call'[v] = call[v]
    BY <1>3 DEF Stores!StoresInv, Stores!TypeOK
  <2> HIDE DEF x
  <2>3. Stores!Locks(call[w].op, call[w].p)' = Stores!Locks(call[w].op, call[w].p)
    BY <1>1, <2>1, <2>2 DEF Stores!Locks
  <2>4. Stores!CallIsSound(call[w], w)' /\ Stores!ReadStillHolds(call[w])'
    BY <1>2, <1>3, <2>1, <2>2, <2>3 DEF Stores!CallIsSound, Stores!ReadStillHolds
  <2>5. locks' \in [Stores!Keys -> StoreWorker \cup {Nil}]
    BY <1>3 DEF Stores!StoresInv, Stores!TypeOK
  <2> QED BY <1>1, <1>2, <1>3, <2>1, <2>2, <2>4, <2>5, StoreStepOf
<1>4. ASSUME NEW k \in call[w].wanted, locks[k] = Nil, locks' = [locks EXCEPT ![k] = w],
             call' = [call EXCEPT ![w].wanted = @ \ {k}]
      PROVE  Stores!StoresInv'
  <2> DEFINE x == [call[w] EXCEPT !.wanted = @ \ {k}]
  <2>1. /\ x \in Stores!InCall /\ x.op = call[w].op /\ x.p = call[w].p /\ x.arg = call[w].arg
        /\ x.step = "lock" /\ x.wanted = call[w].wanted \ {k}
    BY <1>1, <1>2 DEF Stores!InCall
  <2>2. call'[w] = x /\ DOMAIN call' = StoreWorker /\ \A v \in StoreWorker \ {w} : call'[v] = call[v]
    BY <1>4 DEF Stores!StoresInv, Stores!TypeOK
  <2> HIDE DEF x
  <2>3. Stores!Locks(call[w].op, call[w].p)' = Stores!Locks(call[w].op, call[w].p)
    BY <1>1, <2>1, <2>2 DEF Stores!Locks
  <2>4. k \in Stores!Keys /\ locks \in [Stores!Keys -> StoreWorker \cup {Nil}]
    BY <1>2 DEF Stores!InCall, Stores!StoresInv, Stores!TypeOK
  <2>5. /\ locks' \in [Stores!Keys -> StoreWorker \cup {Nil}] /\ locks'[k] = w
        /\ \A j \in Stores!Keys : j # k => locks'[j] = locks[j]
    BY <1>4, <2>4
  <2>6. \A j \in Stores!Locks(call[w].op, call[w].p) \ (call[w].wanted \ {k}) : locks'[j] = w
    BY <1>2, <2>5, LocksAreKeys DEF Stores!CallIsSound
  <2>7. Stores!CallIsSound(call[w], w)' /\ Stores!ReadStillHolds(call[w])'
    BY <1>2, <2>1, <2>2, <2>3, <2>6 DEF Stores!CallIsSound, Stores!ReadStillHolds
  <2> QED BY <1>1, <1>2, <1>4, <2>1, <2>2, <2>5, <2>7, StoreStepOf
<1> QED BY <1>3, <1>4 DEF Stores!Lock

\* Early returns, refusals and deaths: the call ends and nothing is written.
LEMMA EndKeeps ==
  ASSUME Stores!StoresInv, NEW w \in StoreWorker, Stores!End(w),
         UNCHANGED <<backend, rows, storeClosed, orders, told, made>>
  PROVE  Stores!StoresInv'
<1>1. made' \in Nat
  BY DEF Stores!StoresInv, Stores!TypeOK
<1> QED BY <1>1, EndReleases, StoreStepOf

LEMMA ReadKeeps ==
  ASSUME Stores!StoresInv, NEW w \in StoreWorker, Stores!Read(w)
  PROVE  Stores!StoresInv'
<1> DEFINE c == call[w]
           next == IF Stores!Inserts(c.op) THEN "insert" ELSE IF backend = "postgres" THEN "revision" ELSE "update"
           x == [c EXCEPT !.step = next, !.seen = rows[c.p]]
<1>1. c # Nil /\ c.step = "read" /\ UNCHANGED <<backend, rows, storeClosed, orders, told, made>>
  BY DEF Stores!Read, Stores!tables
<1>2. CASE Stores!End(w)
  BY <1>1, <1>2, EndKeeps
<1>3. CASE ~Stores!End(w)
  <2>1. /\ call' = [call EXCEPT ![w].step = next, ![w].seen = rows[c.p]] /\ locks' = locks
        /\ c.op = "reserve" => ~Stores!Collides(c.p)
        /\ ~Stores!Inserts(c.op) => rows[c.p] # Nil /\ Stores!Change(c, rows[c.p]) # Nil
    BY <1>1, <1>3 DEF Stores!Read, Stores!Inserts
  <2>2. /\ c \in Stores!InCall /\ c.op \in Stores!Operations /\ c.p \in StoreIntent
        /\ Stores!CallIsSound(c, w) /\ backend \in {"postgres", "sqlite"}
        /\ rows[c.p] \in Stores!Row \cup {Nil} /\ made' \in Nat
    BY <1>1, CallFields DEF Stores!StoresInv, Stores!TypeOK
  <2>3. /\ x \in Stores!InCall /\ x.op = c.op /\ x.p = c.p /\ x.arg = c.arg
        /\ x.step = next /\ x.wanted = c.wanted /\ x.seen = rows[c.p]
    BY <2>2 DEF Stores!InCall
  <2>4. call'[w] = x /\ DOMAIN call' = StoreWorker /\ \A v \in StoreWorker \ {w} : call'[v] = call[v]
    BY <2>1 DEF Stores!StoresInv, Stores!TypeOK
  <2> HIDE DEF x
  <2>5. Stores!CallIsSound(call[w], w)'
    <3>1. Stores!Locks(call[w].op, call[w].p)' = Stores!Locks(c.op, c.p)
      BY <1>1, <2>3, <2>4 DEF Stores!Locks
    <3> QED BY <1>1, <2>1, <2>2, <2>3, <2>4, <3>1 DEF Stores!CallIsSound
  <2>6. ~Stores!Inserts(c.op) => Stores!Change(c, rows[c.p]) \in Stores!Row
    <3> SUFFICES ASSUME ~Stores!Inserts(c.op) PROVE Stores!Change(c, rows[c.p]) \in Stores!Row
      OBVIOUS
    <3>1. rows[c.p] \in Stores!Row /\ Stores!Change(c, rows[c.p]) # Nil
      BY <2>1, <2>2
    <3>2. c.op = "mark_closing" => c.arg \in CloseReason
      BY <2>2 DEF Stores!CallIsSound
    <3>3. c.op \in {"mark_closing", "update_open_fill", "mark_closed"}
      BY <2>2 DEF Stores!Inserts, Stores!Operations
    <3> HIDE DEF c
    <3>4. CASE c.op = "mark_closing"
      BY <3>1, <3>2, <3>4 DEF Stores!Change, Stores!Row, Stores!Status, Stores!Live
    <3>5. CASE c.op = "update_open_fill"
      BY <3>1, <3>5 DEF Stores!Change, Stores!Row, Stores!Status, Stores!Live
    <3>6. CASE c.op = "mark_closed"
      BY <3>1, <3>6 DEF Stores!Change, Stores!Row, Stores!Status, Stores!Live
    <3> QED BY <3>3, <3>4, <3>5, <3>6
  <2>7. Stores!ReadStillHolds(call[w])'
    <3>1. Stores!Change(call[w], call[w].seen)' = Stores!Change(c, rows[c.p])
      BY <1>1, <2>3, <2>4 DEF Stores!Change
    <3>2. Stores!Collides(call[w].p)' = Stores!Collides(c.p)
      BY <1>1, <2>3, <2>4 DEF Stores!Collides
    <3>3. Stores!Inserts(call[w].op)' = Stores!Inserts(c.op)
      BY <2>3, <2>4 DEF Stores!Inserts
    <3>4. x.step = "insert" => Stores!Inserts(c.op)
      BY <2>3
    <3>5. x.step \in {"revision", "update"} => ~Stores!Inserts(c.op)
      BY <2>3
    <3>6. ~Stores!Inserts(c.op) => rows'[c.p] # Nil /\ x.seen \in Stores!Row
      BY <1>1, <2>1, <2>2, <2>3
    <3> QED BY <1>1, <2>1, <2>3, <2>4, <2>6, <3>1, <3>2, <3>3, <3>4, <3>5, <3>6 DEF Stores!ReadStillHolds
  <2>8. locks' \in [Stores!Keys -> StoreWorker \cup {Nil}]
    BY <2>1 DEF Stores!StoresInv, Stores!TypeOK
  <2> QED BY <1>1, <2>1, <2>2, <2>3, <2>4, <2>5, <2>7, <2>8, StoreStepOf
<1> QED BY <1>2, <1>3

LEMMA RevisionKeeps ==
  ASSUME Stores!StoresInv, NEW w \in StoreWorker, Stores!Revision(w)
  PROVE  Stores!StoresInv'
<1> DEFINE c == call[w]
           new == [Stores!Change(c, c.seen) EXCEPT !.revision = rows[c.p].revision]
           x == [c EXCEPT !.step = "update", !.seen = new]
<1>1. /\ c # Nil /\ c.step = "revision" /\ UNCHANGED <<backend, rows, storeClosed, orders, told, made, locks>>
      /\ call' = [call EXCEPT ![w].step = "update", ![w].seen = new]
  BY DEF Stores!Revision, Stores!tables
<1>2. /\ c \in Stores!InCall /\ c.p \in StoreIntent /\ Stores!CallIsSound(c, w)
      /\ Stores!Change(c, c.seen) \in Stores!Row /\ rows[c.p] \in Stores!Row /\ rows[c.p] # Nil
      /\ ~Stores!Inserts(c.op) /\ made' \in Nat
  BY <1>1, CallFields DEF Stores!ReadStillHolds, Stores!StoresInv, Stores!TypeOK
<1>3. new \in Stores!Row
  BY <1>2 DEF Stores!Row
<1> HIDE DEF new
<1>4. /\ x \in Stores!InCall /\ x.op = c.op /\ x.p = c.p /\ x.arg = c.arg
      /\ x.step = "update" /\ x.wanted = c.wanted /\ x.seen = new
  BY <1>2, <1>3 DEF Stores!InCall
<1>5. call'[w] = x /\ DOMAIN call' = StoreWorker /\ \A v \in StoreWorker \ {w} : call'[v] = call[v]
  BY <1>1 DEF Stores!StoresInv, Stores!TypeOK
<1> HIDE DEF x
<1>6. Stores!Locks(call[w].op, call[w].p)' = Stores!Locks(c.op, c.p)
  BY <1>1, <1>4, <1>5 DEF Stores!Locks
<1>7. Stores!CallIsSound(call[w], w)'
  BY <1>1, <1>2, <1>4, <1>5, <1>6 DEF Stores!CallIsSound
<1>8. Stores!ReadStillHolds(call[w])'
  BY <1>1, <1>2, <1>3, <1>4, <1>5 DEF Stores!ReadStillHolds, Stores!Inserts
<1>9. locks' \in [Stores!Keys -> StoreWorker \cup {Nil}]
  BY <1>1 DEF Stores!StoresInv, Stores!TypeOK
<1> QED BY <1>1, <1>2, <1>4, <1>5, <1>7, <1>8, <1>9, StoreStepOf

\* An insert of a reservation: the locks keep the client order id unique.
LEMMA ReserveOrderKeeps ==
  ASSUME Stores!StoresInv, NEW w \in StoreWorker, call[w] # Nil, call[w].step = "insert", call[w].op = "reserve",
         Stores!Reservable(call[w].p), orders' = [orders EXCEPT ![call[w].p] = TRUE],
         told' = told \cup {<<call[w].n, call[w].p>>}, Stores!End(w),
         UNCHANGED <<backend, rows, storeClosed, made>>
  PROVE  Stores!StoresInv'
<1> DEFINE i == call[w].p
           n == call[w].n
<1>1. /\ i \in StoreIntent /\ n \in Nat /\ Stores!CallIsSound(call[w], w) /\ Stores!ReadStillHolds(call[w])
      /\ backend \in {"postgres", "sqlite"} /\ w # Nil /\ call[w] \in Stores!InCall
  BY CallFields
<1>2. ~Stores!Collides(i)
  BY <1>1 DEF Stores!ReadStillHolds, Stores!Reservable
<1>3. /\ Stores!TypeOK /\ Stores!OneReservation /\ orders \in [StoreIntent -> BOOLEAN]
      /\ told \subseteq Nat \X StoreIntent
  BY DEF Stores!StoresInv, Stores!TypeOK
<1>4. /\ orders' \in [StoreIntent -> BOOLEAN] /\ orders'[i]
      /\ \A j \in StoreIntent : j # i => orders'[j] = orders[j]
      /\ told' \subseteq Nat \X StoreIntent
  BY <1>1, <1>3
<1>5. \A j \in StoreIntent : orders[j] => ClientOf[j] # ClientOf[i] /\ j # i
  BY <1>2 DEF Stores!Collides
<1>6. \A t \in told : t[2] # i /\ t[2] \in StoreIntent
  BY <1>3, <1>5 DEF Stores!OneReservation
<1>7. Stores!OneReservation'
  <2>1. \A t, u \in told' : t[2] = u[2] => t = u
    BY <1>1, <1>3, <1>6 DEF Stores!OneReservation
  <2>2. \A j, k \in StoreIntent : orders'[j] /\ orders'[k] /\ ClientOf[j] = ClientOf[k] => j = k
    BY <1>3, <1>4, <1>5 DEF Stores!OneReservation
  <2>3. \A t \in told' : orders'[t[2]]
    BY <1>3, <1>4, <1>6 DEF Stores!OneReservation
  <2> QED BY <2>1, <2>2, <2>3 DEF Stores!OneReservation
<1>8. /\ call'[w] = Nil /\ DOMAIN call' = StoreWorker
      /\ \A v \in StoreWorker \ {w} : call'[v] = call[v]
      /\ locks' \in [Stores!Keys -> StoreWorker \cup {Nil}]
      /\ \A k \in Stores!Keys : locks[k] # w /\ locks[k] # Nil => locks'[k] = locks[k]
  BY EndReleases
<1>9. Stores!TypeOK' /\ Stores!IndexHolds'
  BY <1>3, <1>4, <1>8 DEF Stores!StoresInv, Stores!TypeOK, Stores!IndexHolds, Stores!OneLivePosition, Stores!IsLive
<1>10. ASSUME NEW v \in StoreWorker \ {w}, call[v] # Nil
       PROVE  Stores!CallIsSound(call[v], v)' /\ Stores!ReadStillHolds(call[v])'
  <2>1. Stores!CallIsSound(call[v], v)'
    BY <1>8, <1>10, OthersStaySound
  <2>2. \A j \in StoreIntent : orders'[j] => orders[j] \/ ClientOf[j] # ClientOf[call[v].p] \/ backend = "sqlite"
                                  \/ call[v].op # "reserve" \/ call[v].step # "insert"
    <3> SUFFICES ASSUME backend = "postgres", call[v].op = "reserve", call[v].step = "insert",
                        ClientOf[i] = ClientOf[call[v].p]
                 PROVE  FALSE
      BY <1>1, <1>4
    <3>1. /\ call[v].p \in StoreIntent /\ Stores!CallIsSound(call[v], v)
      BY <1>10, CallFields
    <3>2. locks[<<"client", ClientOf[i]>>] = w
      BY <1>1, LocksAreKeys DEF Stores!CallIsSound
    <3>3. locks[<<"client", ClientOf[call[v].p]>>] = v
      BY <3>1, LocksAreKeys DEF Stores!CallIsSound
    <3> QED BY <3>2, <3>3
  <2>3. Stores!ReadStillHolds(call[v])'
    BY <1>8, <1>10, <2>2, OthersReadHolds
  <2> QED BY <2>1, <2>3
<1> QED BY <1>7, <1>8, <1>9, <1>10 DEF Stores!StoresInv

\* A write of rows or closed positions that keeps their types and the index.
LEMMA WriteKeeps ==
  ASSUME Stores!StoresInv, NEW w \in StoreWorker, Stores!End(w), UNCHANGED <<backend, orders, told, made>>,
         rows' \in [StoreIntent -> Stores!Row \cup {Nil}],
         \A i \in StoreIntent : rows[i] # Nil => rows'[i] # Nil,
         storeClosed \subseteq storeClosed', storeClosed' \subseteq StoreIntent,
         Stores!IndexHolds'
  PROVE  Stores!StoresInv'
<1>1. /\ call'[w] = Nil /\ DOMAIN call' = StoreWorker
      /\ \A v \in StoreWorker \ {w} : call'[v] = call[v]
      /\ locks' \in [Stores!Keys -> StoreWorker \cup {Nil}]
      /\ \A k \in Stores!Keys : locks[k] # w /\ locks[k] # Nil => locks'[k] = locks[k]
  BY EndReleases
<1>2. \A v \in StoreWorker \ {w} : call[v] # Nil => Stores!CallIsSound(call[v], v)' /\ Stores!ReadStillHolds(call[v])'
  BY <1>1, OthersStaySound, OthersReadHolds
<1>3. Stores!TypeOK' /\ Stores!OneReservation'
  BY <1>1 DEF Stores!StoresInv, Stores!TypeOK, Stores!OneReservation
<1> QED BY <1>1, <1>2, <1>3 DEF Stores!StoresInv

\* A new row of one position respects the partial index.
LEMMA IndexStays ==
  ASSUME Stores!StoresInv, NEW p \in StoreIntent, NEW r \in Stores!Row, UNCHANGED backend,
         rows' = [rows EXCEPT ![p] = r], Stores!OneOpenPerSymbol(p, r.status)
  PROVE  Stores!IndexHolds'
<1> SUFFICES ASSUME backend = "sqlite", NEW a \in StoreIntent, NEW b \in StoreIntent,
                    Stores!IsLive(a)', Stores!IsLive(b)'
             PROVE  a = b
  BY DEF Stores!IndexHolds, Stores!OneLivePosition
<1>1. /\ rows'[p] = r /\ \A q \in StoreIntent : q # p => rows'[q] = rows[q]
      /\ Stores!OneLivePosition
  BY DEF Stores!StoresInv, Stores!TypeOK, Stores!IndexHolds
<1>2. r.status \in Stores!Live => \A q \in StoreIntent \ {p} : ~Stores!IsLive(q)
  BY DEF Stores!OneOpenPerSymbol
<1> QED BY <1>1, <1>2 DEF Stores!OneLivePosition, Stores!IsLive

LEMMA InsertKeeps ==
  ASSUME Stores!StoresInv, NEW w \in StoreWorker, Stores!Insert(w)
  PROVE  Stores!StoresInv'
<1> DEFINE c == call[w]
<1>1. c # Nil /\ c.step = "insert" /\ Stores!End(w) /\ UNCHANGED <<backend, made>>
  BY DEF Stores!Insert
<1>2. /\ c.p \in StoreIntent /\ Stores!CallIsSound(c, w) /\ rows \in [StoreIntent -> Stores!Row \cup {Nil}]
      /\ storeClosed \subseteq StoreIntent /\ Stores!IndexHolds /\ Nil \notin Stores!Row
  BY <1>1, CallFields, StoresAssumption DEF Stores!StoresInv, Stores!TypeOK, Stores!StoresConstants
<1>3. CASE /\ c.op = "reserve" /\ Stores!Reservable(c.p) /\ orders' = [orders EXCEPT ![c.p] = TRUE]
           /\ told' = told \cup {<<c.n, c.p>>} /\ UNCHANGED <<rows, storeClosed>>
  BY <1>1, <1>3, ReserveOrderKeeps
<1>4. CASE UNCHANGED <<orders, told, rows, storeClosed>>
  BY <1>1, <1>4, EndKeeps
<1>5. CASE /\ c.op = "open" /\ UNCHANGED <<orders, storeClosed, told>>
           /\ rows' = [rows EXCEPT ![c.p] = Stores!Position(c.arg)]
           /\ rows[c.p] = Nil /\ Stores!OneOpenPerSymbol(c.p, c.arg)
  <2>1. Stores!Position(c.arg) \in Stores!Row /\ Stores!Position(c.arg).status = c.arg
    BY <1>2, <1>5 DEF Stores!CallIsSound, Stores!Position, Stores!Row
  <2>2. Stores!IndexHolds'
    BY <1>1, <1>2, <1>5, <2>1, IndexStays
  <2>3. rows' \in [StoreIntent -> Stores!Row \cup {Nil}] /\ \A i \in StoreIntent : rows[i] # Nil => rows'[i] # Nil
    BY <1>2, <1>5, <2>1
  <2> QED BY <1>1, <1>2, <1>5, <2>2, <2>3, WriteKeeps
<1>6. CASE c.op = "save_closed" /\ storeClosed' = storeClosed \cup {c.p} /\ UNCHANGED <<orders, rows, told>>
  <2>1. Stores!IndexHolds'
    BY <1>1, <1>2, <1>6 DEF Stores!IndexHolds, Stores!OneLivePosition, Stores!IsLive
  <2> QED BY <1>1, <1>2, <1>6, <2>1, WriteKeeps
<1> QED BY <1>3, <1>4, <1>5, <1>6 DEF Stores!Insert, Stores!SaveClosed

LEMMA UpdateKeeps ==
  ASSUME Stores!StoresInv, NEW w \in StoreWorker, Stores!Update(w)
  PROVE  Stores!StoresInv'
<1> DEFINE c == call[w]
           row == rows[c.p]
           new == IF backend = "postgres" THEN c.seen ELSE Stores!Columns(c, row)
           r == [new EXCEPT !.revision = IF backend = "postgres" THEN @ + 1 ELSE @]
<1>1. /\ c # Nil /\ c.step = "update" /\ Stores!End(w) /\ UNCHANGED <<backend, orders, storeClosed, told, made>>
      /\ rows' = IF new.revision = row.revision /\ Stores!OneOpenPerSymbol(c.p, new.status)
                 THEN [rows EXCEPT ![c.p] = r] ELSE rows
  BY DEF Stores!Update
<1>2. /\ c.p \in StoreIntent /\ c.op \in Stores!Operations /\ Stores!CallIsSound(c, w) /\ Stores!ReadStillHolds(c)
      /\ rows \in [StoreIntent -> Stores!Row \cup {Nil}] /\ backend \in {"postgres", "sqlite"}
      /\ storeClosed \subseteq StoreIntent /\ Stores!IndexHolds /\ Nil \notin Stores!Row
  BY <1>1, CallFields, StoresAssumption DEF Stores!StoresInv, Stores!TypeOK, Stores!StoresConstants
<1>3. CASE rows' = rows
  BY <1>1, <1>3, EndKeeps
<1>4. CASE rows' # rows
  <2>1. row \in Stores!Row /\ ~Stores!Inserts(c.op)
    BY <1>1, <1>2 DEF Stores!ReadStillHolds
  <2>2. Stores!Columns(c, row) \in Stores!Row
    <3>1. c.op \in {"mark_closing", "update_open_fill", "mark_closed"}
      BY <1>2, <2>1 DEF Stores!Inserts, Stores!Operations
    <3>2. c.op = "mark_closing" => c.arg \in CloseReason
      BY <1>2 DEF Stores!CallIsSound
    <3> HIDE DEF c, row
    <3> QED BY <2>1, <3>1, <3>2 DEF Stores!Columns, Stores!Row, Stores!Status, Stores!Live
  <2>3. new \in Stores!Row
    BY <1>1, <1>2, <2>2 DEF Stores!ReadStillHolds
  <2> HIDE DEF new
  <2>4. r \in Stores!Row /\ r.status = new.status
    BY <2>3 DEF Stores!Row
  <2>5. rows' = [rows EXCEPT ![c.p] = r] /\ Stores!OneOpenPerSymbol(c.p, r.status)
    BY <1>1, <1>4, <2>4
  <2> HIDE DEF r
  <2>6. Stores!IndexHolds'
    BY <1>1, <1>2, <2>4, <2>5, IndexStays
  <2>7. rows' \in [StoreIntent -> Stores!Row \cup {Nil}] /\ \A i \in StoreIntent : rows[i] # Nil => rows'[i] # Nil
    BY <1>2, <2>4, <2>5
  <2> QED BY <1>1, <1>2, <2>6, <2>7, WriteKeeps
<1> QED BY <1>3, <1>4

\* Whatever calls of however many workers interleave and die.
LEMMA StoresStep ==
  ASSUME Stores!StoresInv, [Stores!Next]_(Stores!vars)
  PROVE  Stores!StoresInv'
<1>1. CASE UNCHANGED Stores!vars
  <2>1. UNCHANGED <<backend, orders, rows, storeClosed, locks, call, told, made>>
    BY <1>1 DEF Stores!vars
  <2>2. Stores!TypeOK' /\ Stores!OneReservation' /\ Stores!IndexHolds'
    BY <2>1 DEF Stores!StoresInv, Stores!TypeOK, Stores!OneReservation, Stores!IndexHolds,
          Stores!OneLivePosition, Stores!IsLive
  <2>3. ASSUME NEW w \in StoreWorker, call[w] # Nil
        PROVE  Stores!CallIsSound(call[w], w)' /\ Stores!ReadStillHolds(call[w])'
    BY <2>1, <2>3 DEF Stores!StoresInv, Stores!CallIsSound, Stores!ReadStillHolds, Stores!Collides,
          Stores!Change, Stores!Locks
  <2> QED BY <2>1, <2>2, <2>3 DEF Stores!StoresInv
<1>2. ASSUME NEW w \in StoreWorker, Stores!Die(w) PROVE Stores!StoresInv'
  BY <1>2, EndKeeps DEF Stores!Die, Stores!tables
<1> QED BY <1>1, <1>2, BeginKeeps, LockKeeps, ReadKeeps, RevisionKeeps, InsertKeeps, UpdateKeeps DEF Stores!Next

LEMMA StoresStart ==
  ASSUME Stores!Init PROVE Stores!StoresInv
<1>1. Stores!TypeOK
  BY StoresAssumption DEF Stores!Init, Stores!TypeOK, Stores!StoresConstants
<1> QED BY <1>1 DEF Stores!Init, Stores!StoresInv, Stores!OneReservation, Stores!IndexHolds,
              Stores!OneLivePosition, Stores!IsLive

-----------------------------------------------------------------------------
(* The gate: rounding to the exchange's grids keeps the limits.            *)

\* Rounding down to a grid, and up.
LEMMA RoundDown ==
  ASSUME NEW x \in Int, NEW s \in Nat \ {0}
  PROVE  /\ Gate!FloorTo(x, s) \in Int /\ Gate!FloorTo(x, s) <= x
         /\ \E k \in Int : Gate!FloorTo(x, s) = k * s
<1> DEFINE k == x \div s
<1>1. k \in Int /\ k * s <= x /\ k * s \in Int
  OBVIOUS
<1> QED BY <1>1 DEF Gate!FloorTo

LEMMA RoundUp ==
  ASSUME NEW x \in Int, NEW s \in Nat \ {0}
  PROVE  /\ Gate!CeilTo(x, s) \in Int /\ Gate!CeilTo(x, s) >= x
         /\ \E k \in Int : Gate!CeilTo(x, s) = k * s
<1> DEFINE y == - x
           f == Gate!FloorTo(y, s)
<1>1. y \in Int /\ f \in Int /\ f <= y
  BY RoundDown
<1>2. PICK k \in Int : f = k * s
  BY <1>1, RoundDown
<1>3. Gate!CeilTo(x, s) = - f
  BY DEF Gate!CeilTo
<1>4. (- k) \in Int /\ - f = (- k) * s
  BY <1>2
<1> HIDE DEF f
<1>5. (- f) \in Int /\ - f >= x
  BY <1>1
<1>6. \E j \in Int : - f = j * s
  BY <1>4
<1> QED BY <1>3, <1>5, <1>6

\* A multiple of a hundred ticks is a hundred times a price on the grid.
LEMMA HundredTicks ==
  ASSUME NEW k \in Int, NEW t \in Nat
  PROVE  100 * ((k * (100 * t)) \div 100) = k * (100 * t)
<1> DEFINE m == k * t
<1>1. m \in Int /\ k * (100 * t) = 100 * m
  OBVIOUS
<1> HIDE DEF m
<1>2. (100 * m) \div 100 = m
  BY <1>1
<1> QED BY <1>1, <1>2

\* The stop is not farther than stop_loss_pct.
LEMMA StopIsNear ==
  ASSUME NEW price \in Int, NEW r \in Rules
  PROVE  /\ Gate!StopPrice(price, r) \in Int
         /\ 100 * (price - Gate!StopPrice(price, r)) <= r.stop * price
<1>1. r.stop \in Int /\ PriceTick \in Nat \ {0}
  BY GateAssumption DEF Gate!GateConstants
<1> DEFINE x == price * (100 - r.stop)
           s == 100 * PriceTick
           c == Gate!CeilTo(x, s)
<1>2. x \in Int /\ s \in Nat \ {0} /\ x = 100 * price - r.stop * price
  BY <1>1
<1>3. c \in Int /\ c >= x /\ \E k \in Int : c = k * s
  BY <1>2, RoundUp, ZenonT(60)
<1>4. PICK k \in Int : c = k * (100 * PriceTick)
  BY <1>3
<1>5. 100 * (c \div 100) = c
  BY <1>1, <1>4, HundredTicks
<1>6. Gate!StopPrice(price, r) = c \div 100
  BY DEF Gate!StopPrice
<1>7. r.stop * price \in Int
  BY <1>1
<1> DEFINE z == r.stop * price
<1> HIDE DEF c, x, z
<1>8. x = 100 * price - z /\ z \in Int
  BY <1>2, <1>7 DEF z
<1>9. 100 * (price - (c \div 100)) <= z
  BY <1>3, <1>5, <1>8
<1> QED BY <1>3, <1>6, <1>9 DEF z

\* The size fits its share of the margin.
LEMMA SizeFits ==
  ASSUME NEW a, NEW r \in Rules, NEW price \in Int, price > 0, a.margin \in Int,
         Gate!MaxNotional100(a, r) \in Int
  PROVE  /\ Gate!PositionSize(a, r, price) \in Int
         /\ 100 * Gate!PositionSize(a, r, price) * price <= a.margin * r.size * r.leverage
<1>1. r.size \in Int /\ r.leverage \in Int /\ QtyStep \in Nat \ {0}
  BY GateAssumption DEF Gate!GateConstants
<1> DEFINE A == a.margin * r.size * r.leverage
           B == Gate!MaxNotional100(a, r)
           cap == Gate!Min({A, B})
           d == 100 * price
           y == cap \div d
           q == Gate!FloorTo(y, QtyStep)
<1>2. A \in Int
  BY <1>1
<1> HIDE DEF A, B
<1>3. B \in Int
  BY DEF B
<1>4. cap \in Int /\ cap <= A
  <2>1. \E m \in {A, B} : \A n \in {A, B} : m <= n
    BY <1>2, <1>3
  <2>2. cap \in {A, B} /\ \A n \in {A, B} : cap <= n
    BY <2>1 DEF Gate!Min
  <2> QED BY <1>2, <1>3, <2>2
<1>5. d \in Nat \ {0}
  OBVIOUS
<1> HIDE DEF cap, d
<1>6. y \in Int /\ y * d <= cap
  BY <1>4, <1>5
<1> HIDE DEF y
<1>7. q \in Int /\ q <= y
  BY <1>1, <1>6, RoundDown
<1> HIDE DEF q
<1>8. q * d <= y * d /\ q * d \in Int
  BY <1>5, <1>6, <1>7
<1>9. q * d <= A
  BY <1>2, <1>4, <1>5, <1>6, <1>8
<1>10. 100 * q * price = q * d
  BY <1>7 DEF d
<1>11. Gate!PositionSize(a, r, price) = q
  BY DEF Gate!PositionSize, q, y, cap, d, A, B
<1> QED BY <1>7, <1>9, <1>10, <1>11 DEF A

LEMMA GateStart ==
  ASSUME Gate!Init PROVE Gate!GateInv
BY DEF Gate!Init, Gate!GateInv, Gate!EntryIsBounded

\* An approved entry is priced within its limits.
LEMMA PrepareKeeps ==
  ASSUME Gate!GateInv, NEW r \in Rules, Gate!Prepare(r)
  PROVE  Gate!GateInv'
<1> DEFINE i == candle + 1
           a == Gate!Account
           price == Gate!IntentPrice(Closes[i])
           q == Gate!PositionSize(a, r, price)
<1>1. wallet' = wallet /\ orderSent' = orderSent /\ i \in DOMAIN Closes
  BY DEF Gate!Prepare
<1>2. Gate!EntryIsBounded'
  BY <1>1 DEF Gate!GateInv, Gate!EntryIsBounded, Gate!Denominator
<1>3. CASE pending' = pending
  BY <1>1, <1>2, <1>3 DEF Gate!GateInv
<1>4. CASE pending' # pending
  <2>1. /\ pending' = Gate!Entry(i, a, r, q, price)
        /\ price > 0 /\ Gate!Approves(i, a, r, q, price)
    BY <1>4 DEF Gate!Prepare
  <2>2. /\ pending'.price = price /\ pending'.q = q /\ pending'.rules = r /\ pending'.account = a
    BY <2>1 DEF Gate!Entry
  <2>3. a.margin \in Int /\ a.equity \in Int \cup {Nil}
    BY GateAssumption DEF Gate!Account, Gate!GateInv, Gate!GateConstants
  <2>4. price \in Int
    <3>1. Closes[i] \in Int /\ Passive \in Int /\ PriceTick \in Nat \ {0}
      BY <1>1, GateAssumption DEF Gate!GateConstants
    <3>2. Closes[i] - Passive * PriceTick \in Int
      BY <3>1
    <3> QED BY <3>1, <3>2, RoundDown DEF Gate!IntentPrice
  <2> HIDE DEF price, a
  <2>5. Gate!MaxNotional100(a, r) \in Int
    <3>1. Gate!CapitalShare(r) \in Int /\ r.leverage \in Int
      BY GateAssumption DEF Gate!GateConstants, Gate!CapitalShare
    <3>2. Gate!Denominator(a) \in Int
      BY <2>3 DEF Gate!Denominator
    <3> QED BY <3>1, <3>2 DEF Gate!MaxNotional100
  <2>6. q \in Int /\ 100 * q * price <= a.margin * r.size * r.leverage
    BY <2>1, <2>3, <2>4, <2>5, SizeFits
  <2> HIDE DEF q
  <2>7. Gate!ExitsValid(price, r) /\ Gate!RiskReward(price, r)
    BY <2>1 DEF Gate!Approves
  <2>8. Gate!ExitsValid(pending.price, pending.rules)' /\ Gate!RiskReward(pending.price, pending.rules)'
    BY <2>2, <2>7 DEF Gate!ExitsValid, Gate!RiskReward, Gate!TargetPrice, Gate!StopPrice
  <2>9. Gate!Priced(pending)'
    BY <2>1, <2>2, <2>3, <2>4, <2>6, <2>8 DEF Gate!Priced
  <2> QED BY <1>1, <1>2, <2>9 DEF Gate!GateInv
<1> QED BY <1>3, <1>4

\* What is sent is what was approved, and fits what is open.
LEMMA SubmitKeeps ==
  ASSUME Gate!GateInv, Gate!Submit
  PROVE  Gate!GateInv'
<1> DEFINE p == pending
           o == [entry |-> p, open |-> Gate!TotalOpenNotional,
                 stop |-> Gate!StopPrice(p.price, p.rules), target |-> Gate!TargetPrice(p.price, p.rules)]
<1>1. wallet' = wallet /\ pending' = Nil /\ p # Nil
  BY DEF Gate!Submit
<1>2. CASE orderSent' = orderSent
  BY <1>1, <1>2 DEF Gate!GateInv, Gate!EntryIsBounded, Gate!Denominator
<1>3. CASE orderSent' # orderSent
  <2>1. orderSent' = orderSent \cup {o} /\ Gate!Fits(p)
    BY <1>3 DEF Gate!Submit
  <2>2. Gate!Priced(p)
    BY <1>1 DEF Gate!GateInv
  <2>3. 100 * (Gate!TotalOpenNotional + p.q * p.price) <= Gate!Denominator(p.account) * Gate!CapitalShare(p.rules) * p.rules.leverage
    BY <2>1 DEF Gate!Fits, Gate!MaxNotional100
  <2>4. 100 * (p.price - Gate!StopPrice(p.price, p.rules)) <= p.rules.stop * p.price
    BY <2>2, StopIsNear DEF Gate!Priced
  <2>5. /\ Gate!StopPrice(p.price, p.rules) < p.price /\ Gate!TargetPrice(p.price, p.rules) > p.price
        /\ 10 * (Gate!TargetPrice(p.price, p.rules) - p.price) >= p.rules.rr * (p.price - Gate!StopPrice(p.price, p.rules))
    BY <2>2 DEF Gate!Priced, Gate!ExitsValid, Gate!RiskReward
  <2>6. 100 * p.q * p.price <= p.account.margin * p.rules.size * p.rules.leverage
    BY <2>2 DEF Gate!Priced
  <2>7. /\ o.entry = p /\ o.open = Gate!TotalOpenNotional
        /\ o.stop = Gate!StopPrice(p.price, p.rules) /\ o.target = Gate!TargetPrice(p.price, p.rules)
    OBVIOUS
  <2> HIDE DEF o, p
  <2>8. Gate!EntryIsBounded'
    BY <2>1, <2>3, <2>4, <2>5, <2>6, <2>7 DEF Gate!GateInv, Gate!EntryIsBounded, Gate!Denominator
  <2> QED BY <1>1, <2>8 DEF Gate!GateInv
<1> QED BY <1>2, <1>3

LEMMA GateStep ==
  ASSUME Gate!GateInv, [Gate!Next]_(Gate!vars)
  PROVE  Gate!GateInv'
<1>1. CASE Gate!AccountChanges \/ Gate!OperatorToggles \/ Gate!PositionsChange \/ UNCHANGED Gate!vars
  <2>1. wallet' \in Wallets /\ pending' = pending /\ orderSent' = orderSent
    BY <1>1 DEF Gate!AccountChanges, Gate!OperatorToggles, Gate!PositionsChange, Gate!vars, Gate!GateInv
  <2>2. Gate!Priced(pending)' = Gate!Priced(pending)
    BY <2>1
  <2> QED BY <2>1, <2>2 DEF Gate!GateInv, Gate!EntryIsBounded, Gate!Denominator
<1> QED BY <1>1, PrepareKeeps, SubmitKeeps DEF Gate!Next

-----------------------------------------------------------------------------
(* The futures runtime: a lane is at the candle after its checkpoint.      *)

\* The candles are an interval, and a set of them has a first and a last.
LEMMA CandlesAreInterval ==
  /\ \E n \in Nat : Candles = 1..n
  /\ Candles \in SUBSET Nat /\ 2 \in Candles /\ Window \in Nat /\ Batch \in Nat \ {0} /\ DayEnd \in Int
BY RuntimeAssumption DEF Runtime!RuntimeConstants

LEMMA OldestIsFirst ==
  ASSUME NEW S \in SUBSET Nat, S # {}
  PROVE  Runtime!OldestOf(S) \in S /\ \A d \in S : Runtime!OldestOf(S) <= d
<1>1. \E c \in S : \A d \in S : c <= d
  BY LeastExists
<1> QED BY <1>1 DEF Runtime!OldestOf

LEMMA NewestIsLast ==
  ASSUME NEW S \in SUBSET Candles, S # {}
  PROVE  Runtime!NewestOf(S) \in S /\ \A d \in S : d <= Runtime!NewestOf(S)
<1>1. PICK n \in Nat : Candles = 1..n
  BY CandlesAreInterval
<1> DEFINE T == {m \in Nat : n - m \in S}
<1>2. T \in SUBSET Nat /\ T # {}
  <2>1. PICK c \in S : TRUE
    OBVIOUS
  <2>2. c \in Int /\ n - c \in Nat /\ n - (n - c) = c
    BY <1>1
  <2> QED BY <2>1, <2>2
<1>3. PICK m \in T : \A k \in T : m <= k
  BY <1>2, LeastExists
<1>4. \A d \in S : d <= n - m
  <2> SUFFICES ASSUME NEW d \in S PROVE d <= n - m
    OBVIOUS
  <2>1. d \in Int /\ n - d \in Nat /\ n - (n - d) = d
    BY <1>1
  <2>2. m <= n - d
    BY <1>3, <2>1
  <2> QED BY <1>1, <1>3, <2>1, <2>2
<1>5. \E c \in S : \A d \in S : d <= c
  BY <1>3, <1>4
<1> QED BY <1>5 DEF Runtime!NewestOf

\* What the process is doing tells what it remembers.
LEMMA WorkShape ==
  ASSUME Runtime!TypeOK
  PROVE  /\ lane.at \in Runtime!InLane => lane \in Runtime!LaneWork
         /\ lane.at = "page" => lane \in Runtime!PageWork
         /\ lane.at = "candle" => lane \in Runtime!CandleWork
         /\ lane.at \in {"fetched", "batch"} => lane \in Runtime!FetchWork
         /\ lane # Runtime!Idle => lane.fetched \in Candles
BY DEF Runtime!TypeOK, Runtime!InLane, Runtime!LaneWork, Runtime!PageWork, Runtime!CandleWork,
       Runtime!FetchWork, Runtime!Idle

\* The lanes of a candle, in order.
LEMMA LanesInOrder ==
  /\ Head(<<"ACTIVE", "TEST">>) = "ACTIVE" /\ Tail(<<"ACTIVE", "TEST">>) = <<"TEST">>
  /\ Head(<<"TEST">>) = "TEST" /\ Len(<<"ACTIVE", "TEST">>) = 2 /\ Len(<<"TEST">>) = 1
  /\ <<"ACTIVE", "TEST">> # <<"TEST">>
OBVIOUS

\* Days pass.
LEMMA DaysPass ==
  ASSUME NEW t \in Candles, NEW u \in Candles, t <= u
  PROVE  /\ Runtime!Day(t) \in Runtime!Days /\ Runtime!Day(u) \in Runtime!Days
         /\ Runtime!Day(t) <= Runtime!Day(u)
BY CandlesAreInterval DEF Runtime!Day, Runtime!Days

\* The candidates of an earlier fetch are known before those of a later instant.
LEMMA CandidatesStay ==
  ASSUME NEW f \in Candles, now \in Candles, now' \in Candles, now <= now', Runtime!Candidates(f) # {}
  PROVE  Runtime!Candidates(f)' # {}
<1>1. PICK c \in Runtime!Candidates(f) : TRUE
  OBVIOUS
<1>2. c \in Runtime!Complete(f)' /\ c - 1 \in Runtime!Complete(f)'
  BY <1>1, CandlesAreInterval DEF Runtime!Candidates, Runtime!Complete, Runtime!Rows
<1> QED BY <1>2 DEF Runtime!Candidates

\* What was settled stays settled when no lane row and no checkpoint moves.
LEMMA HistoryStays ==
  ASSUME Runtime!RuntimeInv, UNCHANGED <<checkpoint, since, lifecycle, entries>>
  PROVE  (since["ACTIVE"] = 0 <=> checkpoint["ACTIVE"] = 0)' /\ Runtime!RecoveryIsComplete' /\ Runtime!LatchHolds'
BY DEF Runtime!RuntimeInv, Runtime!RecoveryIsComplete, Runtime!LatchHolds

\* The end of a cycle.
LEMMA IdleKeeps ==
  ASSUME Runtime!RuntimeInv, lane' = Runtime!Idle,
         UNCHANGED <<now, limitOn, checkpoint, since, lifecycle, latched, entries>>
  PROVE  Runtime!RuntimeInv'
<1>1. lane'.at = "idle" /\ "idle" \notin Runtime!InLane
  BY DEF Runtime!Idle, Runtime!InLane
<1>2. Runtime!TypeOK'
  BY DEF Runtime!RuntimeInv, Runtime!TypeOK
<1>3. Runtime!BatchIsAnchored' /\ Runtime!LaneIsContiguous'
  BY <1>1 DEF Runtime!BatchIsAnchored, Runtime!LaneIsContiguous
<1>4. Runtime!SettledOnce'
  BY <1>1 DEF Runtime!SettledOnce, Runtime!RuntimeInv
<1> QED BY <1>2, <1>3, <1>4, HistoryStays DEF Runtime!RuntimeInv

\* Time passes while the process waits, fetches or works on a lane.
LEMMA TickKeeps ==
  ASSUME Runtime!RuntimeInv, Runtime!Tick
  PROVE  Runtime!RuntimeInv'
<1>1. /\ now' = now + 1 /\ now' \in Candles /\ now \in Candles
      /\ UNCHANGED <<limitOn, checkpoint, since, lifecycle, latched, lane, entries>>
  BY DEF Runtime!Tick, Runtime!history, Runtime!loss, Runtime!RuntimeInv, Runtime!TypeOK
<1>2. now <= now' /\ now \in Nat /\ now' \in Nat
  BY <1>1, CandlesAreInterval
<1>3. Runtime!TypeOK'
  BY <1>1 DEF Runtime!RuntimeInv, Runtime!TypeOK
<1>4. Runtime!BatchIsAnchored'
  <2>1. lane # Runtime!Idle => lane.fetched \in Candles /\ lane.fetched <= now
    BY WorkShape DEF Runtime!RuntimeInv, Runtime!BatchIsAnchored
  <2>2. lane # Runtime!Idle => lane.fetched <= now'
    BY <1>2, <2>1, CandlesAreInterval
  <2>3. lane.at \in {"batch", "page"} \cup Runtime!InLane => lane # Runtime!Idle
    BY DEF Runtime!InLane, Runtime!Idle
  <2>4. lane.at \in {"batch", "page"} \/ (lane.at \in Runtime!InLane /\ lane.recovery)
           => checkpoint["ACTIVE"] # 0 /\ Runtime!Candidates(lane.fetched)' # {}
    BY <1>1, <1>2, <2>1, <2>3, CandidatesStay DEF Runtime!RuntimeInv, Runtime!BatchIsAnchored
  <2> QED BY <1>1, <2>2, <2>4 DEF Runtime!RuntimeInv, Runtime!BatchIsAnchored
<1>5. Runtime!LaneIsContiguous'
  BY <1>1 DEF Runtime!RuntimeInv, Runtime!LaneIsContiguous, Runtime!Contiguous, Runtime!Lane
<1>6. Runtime!SettledOnce'
  <2>1. /\ Runtime!Day(now) \in Runtime!Days /\ Runtime!Day(now)' \in Runtime!Days
        /\ Runtime!Day(now) <= Runtime!Day(now)'
    BY <1>1, <1>2, DaysPass
  <2>2. \A d \in Runtime!Days : latched[d] => d <= Runtime!Day(now)
    BY DEF Runtime!RuntimeInv, Runtime!SettledOnce
  <2>3. latched[Runtime!Day(now)'] => Runtime!Day(now)' = Runtime!Day(now)
    BY <2>1, <2>2 DEF Runtime!Days
  <2>4. \A d \in Runtime!Days : latched[d] => d <= Runtime!Day(now)'
    BY <2>1, <2>2 DEF Runtime!Days
  <2> QED BY <1>1, <2>3, <2>4 DEF Runtime!RuntimeInv, Runtime!SettledOnce, Runtime!Decided, Runtime!Lane
<1> QED BY <1>1, <1>3, <1>4, <1>5, <1>6, HistoryStays DEF Runtime!RuntimeInv

\* The operator and the books change nothing the process has decided.
LEMMA EditKeeps ==
  ASSUME Runtime!RuntimeInv, Runtime!Edit
  PROVE  Runtime!RuntimeInv'
<1>1. UNCHANGED <<now, checkpoint, since, lifecycle, latched, lane, entries>> /\ limitOn' \in BOOLEAN
  BY DEF Runtime!Edit, Runtime!history, Runtime!loss, Runtime!RuntimeInv, Runtime!TypeOK
<1>2. Runtime!TypeOK'
  BY <1>1 DEF Runtime!RuntimeInv, Runtime!TypeOK
<1>3. Runtime!BatchIsAnchored'
  BY <1>1 DEF Runtime!RuntimeInv, Runtime!BatchIsAnchored, Runtime!Candidates, Runtime!Complete
<1>4. Runtime!LaneIsContiguous' /\ Runtime!SettledOnce'
  BY <1>1 DEF Runtime!RuntimeInv, Runtime!LaneIsContiguous, Runtime!Contiguous, Runtime!Lane,
        Runtime!SettledOnce, Runtime!Decided, Runtime!Day
<1> QED BY <1>1, <1>2, <1>3, <1>4, HistoryStays DEF Runtime!RuntimeInv

\* A step that only moves the process, outside the lanes.
LEMMA MoveKeeps ==
  ASSUME Runtime!RuntimeInv,
         UNCHANGED <<now, limitOn, checkpoint, since, lifecycle, latched, entries>>,
         lane' \in Runtime!FetchWork \/ lane' \in Runtime!CandleWork \/ lane' \in Runtime!PageWork,
         lane'.fetched <= now,
         lane'.at \in {"batch", "page"} => checkpoint["ACTIVE"] # 0 /\ Runtime!Candidates(lane.fetched)' # {},
         lane'.at = "page" => /\ lane'.from = checkpoint["ACTIVE"] /\ lane'.from < lane'.to
                              /\ lane'.from <= lane'.lo /\ lane'.hi <= lane'.to
                              /\ lane'.got \subseteq lane'.from..lane'.to,
         lane'.at = "candle" => checkpoint["ACTIVE"] = 0 \/ lane'.c <= checkpoint["ACTIVE"] + 1
  PROVE  Runtime!RuntimeInv'
<1>1. lane'.at \in {"fetched", "batch", "candle", "page"} /\ lane'.at \notin Runtime!InLane
  BY DEF Runtime!FetchWork, Runtime!CandleWork, Runtime!PageWork, Runtime!InLane
<1>2. Runtime!TypeOK'
  BY DEF Runtime!RuntimeInv, Runtime!TypeOK
<1>3. Runtime!BatchIsAnchored' /\ Runtime!LaneIsContiguous'
  BY <1>1 DEF Runtime!BatchIsAnchored, Runtime!LaneIsContiguous, Runtime!Contiguous
<1>4. Runtime!SettledOnce'
  BY <1>1 DEF Runtime!SettledOnce, Runtime!RuntimeInv
<1> QED BY <1>2, <1>3, <1>4, HistoryStays DEF Runtime!RuntimeInv

LEMMA FetchKeeps ==
  ASSUME Runtime!RuntimeInv, Runtime!Fetch
  PROVE  Runtime!RuntimeInv'
<1>1. /\ lane' = [at |-> "fetched", fetched |-> now]
      /\ UNCHANGED <<now, limitOn, checkpoint, since, lifecycle, latched, entries>>
  BY DEF Runtime!Fetch, Runtime!rest, Runtime!env, Runtime!loss, Runtime!history
<1>2. now \in Candles /\ now <= now
  BY CandlesAreInterval DEF Runtime!RuntimeInv, Runtime!TypeOK
<1>3. lane' \in Runtime!FetchWork /\ lane'.at = "fetched" /\ lane'.fetched = now
  BY <1>1, <1>2 DEF Runtime!FetchWork
<1> QED BY <1>1, <1>2, <1>3, MoveKeeps

\* A set of candles of a fetch.
LEMMA CandidatesAreCandles ==
  ASSUME NEW f
  PROVE  Runtime!Candidates(f) \in SUBSET Candles /\ Runtime!Fresh(f) \in SUBSET Candles
BY DEF Runtime!Candidates, Runtime!Complete, Runtime!Rows, Runtime!Fresh

\* The candle that is chosen is the successor of the checkpoint, or not later.
LEMMA ChooseKeeps ==
  ASSUME Runtime!RuntimeInv, Runtime!Choose
  PROVE  Runtime!RuntimeInv'
<1> DEFINE f == lane.fetched
           c == Runtime!Chosen(f)
<1>1. /\ lane.at = "fetched" /\ Runtime!Candidates(f) # {} /\ ~Runtime!Gap(f)
      /\ lane' = [at |-> "candle", fetched |-> f, c |-> c]
      /\ UNCHANGED <<now, limitOn, checkpoint, since, lifecycle, latched, entries>>
  BY DEF Runtime!Choose, Runtime!rest, Runtime!env, Runtime!loss, Runtime!history
<1>2. f \in Candles /\ f <= now
  BY <1>1, WorkShape DEF Runtime!RuntimeInv, Runtime!BatchIsAnchored, Runtime!FetchWork, Runtime!Idle
<1>3. checkpoint["ACTIVE"] \in Nat
  BY CandlesAreInterval DEF Runtime!RuntimeInv, Runtime!TypeOK, Runtime!Lanes
<1> HIDE DEF f
<1>4. /\ Runtime!NewestOf(Runtime!Candidates(f)) \in Runtime!Candidates(f)
      /\ Runtime!Candidates(f) \in SUBSET Candles /\ Runtime!Fresh(f) \in SUBSET Candles
  BY <1>1, CandidatesAreCandles, NewestIsLast
<1>5. c \in Candles /\ (checkpoint["ACTIVE"] = 0 \/ c <= checkpoint["ACTIVE"] + 1)
  <2>1. CASE checkpoint["ACTIVE"] = 0
    BY <1>4, <2>1 DEF Runtime!Chosen, Runtime!LastDone
  <2>2. CASE checkpoint["ACTIVE"] # 0 /\ Runtime!Fresh(f) = {}
    <3>1. c \in Runtime!Candidates(f) /\ c \in Nat
      BY <1>4, <2>2, CandlesAreInterval DEF Runtime!Chosen
    <3>2. ~(c > checkpoint["ACTIVE"])
      BY <2>2, <3>1 DEF Runtime!Fresh, Runtime!LastDone
    <3> QED BY <1>3, <1>4, <3>1, <3>2
  <2>3. CASE checkpoint["ACTIVE"] # 0 /\ Runtime!Fresh(f) # {}
    <3>1. c = Runtime!OldestOf(Runtime!Fresh(f)) /\ c = checkpoint["ACTIVE"] + 1
      BY <1>1, <2>3 DEF Runtime!Chosen, Runtime!Gap, Runtime!LastDone
    <3>2. c \in Candles
      BY <1>4, <2>3, <3>1, OldestIsFirst, CandlesAreInterval
    <3> QED BY <1>3, <3>1, <3>2
  <2> QED BY <2>1, <2>2, <2>3
<1> HIDE DEF c
<1>6. lane' \in Runtime!CandleWork /\ lane'.at = "candle" /\ lane'.fetched = f /\ lane'.c = c
  BY <1>1, <1>2, <1>5 DEF Runtime!CandleWork
<1> QED BY <1>1, <1>2, <1>5, <1>6, MoveKeeps

LEMMA StartRecoveryKeeps ==
  ASSUME Runtime!RuntimeInv, Runtime!StartRecovery
  PROVE  Runtime!RuntimeInv'
<1>1. /\ lane.at = "fetched" /\ Runtime!Gap(lane.fetched)
      /\ lane' = [at |-> "batch", fetched |-> lane.fetched]
      /\ UNCHANGED <<now, limitOn, checkpoint, since, lifecycle, latched, entries>>
  BY DEF Runtime!StartRecovery, Runtime!rest, Runtime!env, Runtime!loss, Runtime!history
<1>2. lane.fetched \in Candles /\ lane.fetched <= now
  BY <1>1, WorkShape DEF Runtime!RuntimeInv, Runtime!BatchIsAnchored, Runtime!FetchWork, Runtime!Idle
<1>3. lane' \in Runtime!FetchWork /\ lane'.at = "batch" /\ lane'.fetched = lane.fetched
  BY <1>1, <1>2 DEF Runtime!FetchWork
<1>4. checkpoint["ACTIVE"] # 0 /\ Runtime!Candidates(lane.fetched) # {}
  BY <1>1 DEF Runtime!Gap, Runtime!LastDone, Runtime!Fresh
<1>5. Runtime!Candidates(lane.fetched)' = Runtime!Candidates(lane.fetched)
  BY <1>1, <1>3 DEF Runtime!Candidates, Runtime!Complete
<1> QED BY <1>1, <1>2, <1>3, <1>4, <1>5, MoveKeeps

\* A batch begins at the checkpoint and ends with a candidate, or before.
LEMMA StartBatchKeeps ==
  ASSUME Runtime!RuntimeInv, Runtime!StartBatch
  PROVE  Runtime!RuntimeInv'
<1> DEFINE f == lane.fetched
           last == checkpoint["ACTIVE"]
           latest == Runtime!NewestOf(Runtime!Candidates(f))
           end == IF latest < last + Batch THEN latest ELSE last + Batch
<1>1. /\ lane.at = "batch" /\ last < latest
      /\ lane' = [at |-> "page", fetched |-> f, lo |-> last, hi |-> end, from |-> last, to |-> end, got |-> {}]
      /\ UNCHANGED <<now, limitOn, checkpoint, since, lifecycle, latched, entries>>
  BY DEF Runtime!StartBatch, Runtime!rest, Runtime!env, Runtime!loss, Runtime!history, Runtime!LastDone
<1>2. /\ f \in Candles /\ f <= now /\ last # 0 /\ Runtime!Candidates(f) # {} /\ last \in Candles
  BY <1>1, WorkShape DEF Runtime!RuntimeInv, Runtime!BatchIsAnchored, Runtime!FetchWork, Runtime!Idle,
        Runtime!TypeOK, Runtime!Lanes
<1>3. latest \in Candles
  BY <1>2, CandidatesAreCandles, NewestIsLast
<1> HIDE DEF latest
<1>4. end \in Candles /\ last < end /\ end \in Int /\ last \in Int
  BY <1>1, <1>2, <1>3, CandlesAreInterval
<1> HIDE DEF end, f, last
<1>5. /\ lane' \in Runtime!PageWork /\ lane'.at = "page" /\ lane'.fetched = f /\ lane'.lo = last /\ lane'.hi = end
      /\ lane'.from = last /\ lane'.to = end /\ lane'.got = {}
  BY <1>1, <1>2, <1>4 DEF Runtime!PageWork
<1>6. Runtime!Candidates(lane.fetched)' = Runtime!Candidates(lane.fetched)
  BY <1>1, <1>5 DEF Runtime!Candidates, Runtime!Complete, f
<1>7. last <= last /\ end <= end
  BY <1>4
<1> QED BY <1>1, <1>2, <1>4, <1>5, <1>6, <1>7, MoveKeeps DEF last, f

\* A page moves one end of what is still to be fetched.
LEMMA FetchPageKeeps ==
  ASSUME Runtime!RuntimeInv, Runtime!FetchPage
  PROVE  Runtime!RuntimeInv'
<1>1. /\ lane.at = "page" /\ lane \in Runtime!PageWork
      /\ UNCHANGED <<now, limitOn, checkpoint, since, lifecycle, latched, entries>>
  BY WorkShape DEF Runtime!FetchPage, Runtime!rest, Runtime!env, Runtime!loss, Runtime!history, Runtime!RuntimeInv
<1>2. PICK page \in SUBSET (lane.lo..lane.hi) :
          /\ page # {}
          /\ lane' = [lane EXCEPT !.got = @ \cup page,
                       !.lo = IF lane.lo \in page THEN Runtime!NewestOf(page) + 1 ELSE @,
                       !.hi = IF lane.lo \in page THEN @ ELSE Runtime!OldestOf(page) - 1]
  BY DEF Runtime!FetchPage
<1>3. /\ lane.from \in Candles /\ lane.to \in Candles /\ lane.lo \in Int /\ lane.hi \in Int
      /\ lane.got \in SUBSET Candles /\ lane.fetched \in Candles /\ lane.fetched <= now
      /\ lane.from = checkpoint["ACTIVE"] /\ lane.from < lane.to
      /\ lane.from <= lane.lo /\ lane.hi <= lane.to /\ lane.got \subseteq lane.from..lane.to
      /\ checkpoint["ACTIVE"] # 0 /\ Runtime!Candidates(lane.fetched) # {}
  BY <1>1 DEF Runtime!PageWork, Runtime!RuntimeInv, Runtime!BatchIsAnchored, Runtime!Idle
<1>4. page \in SUBSET Candles /\ page \in SUBSET Nat /\ page \subseteq lane.from..lane.to
  <2>1. lane.from \in Nat /\ lane.to \in Nat /\ Candles \subseteq Nat
    BY <1>3, CandlesAreInterval
  <2>2. lane.lo..lane.hi \subseteq lane.from..lane.to
    BY <1>3, <2>1
  <2>3. page \subseteq lane.from..lane.to
    BY <1>2, <2>2
  <2>4. lane.from..lane.to \subseteq Candles
    <3>1. PICK n \in Nat : Candles = 1..n
      BY CandlesAreInterval
    <3> QED BY <1>3, <2>1, <3>1
  <2> QED BY <2>1, <2>3, <2>4
<1> DEFINE lo == IF lane.lo \in page THEN Runtime!NewestOf(page) + 1 ELSE lane.lo
           hi == IF lane.lo \in page THEN lane.hi ELSE Runtime!OldestOf(page) - 1
           got == lane.got \cup page
<1>5. lo \in Int /\ hi \in Int /\ lane.from <= lo /\ hi <= lane.to
  <2>1. Runtime!NewestOf(page) \in page /\ Runtime!OldestOf(page) \in page
    BY <1>2, <1>4, NewestIsLast, OldestIsFirst
  <2>2. lane.from \in Nat /\ lane.to \in Nat
    BY <1>3, CandlesAreInterval
  <2>3. /\ Runtime!NewestOf(page) \in Nat /\ lane.from <= Runtime!NewestOf(page)
        /\ Runtime!OldestOf(page) \in Nat /\ Runtime!OldestOf(page) <= lane.to
    <3>1. Runtime!NewestOf(page) \in lane.from..lane.to /\ Runtime!OldestOf(page) \in lane.from..lane.to
      BY <1>4, <2>1
    <3> QED BY <2>2, <3>1
  <2>4. CASE lane.lo \in page
    BY <1>3, <2>2, <2>3, <2>4
  <2>5. CASE lane.lo \notin page
    BY <1>3, <2>2, <2>3, <2>5
  <2> QED BY <2>4, <2>5
<1>6. got \in SUBSET Candles /\ got \subseteq lane.from..lane.to
  BY <1>3, <1>4
<1>7. lane' = [lane EXCEPT !.got = got, !.lo = lo, !.hi = hi]
  BY <1>2
<1> HIDE DEF lo, hi, got
<1>8. /\ lane' \in Runtime!PageWork /\ lane'.at = "page" /\ lane'.fetched = lane.fetched /\ lane'.lo = lo
      /\ lane'.hi = hi /\ lane'.from = lane.from /\ lane'.to = lane.to /\ lane'.got = got
  BY <1>1, <1>5, <1>6, <1>7 DEF Runtime!PageWork
<1>9. Runtime!Candidates(lane.fetched)' = Runtime!Candidates(lane.fetched)
  BY <1>1, <1>8 DEF Runtime!Candidates, Runtime!Complete
<1> QED BY <1>1, <1>3, <1>5, <1>6, <1>8, <1>9, MoveKeeps

\* A step that moves the process within a lane.
LEMMA LaneMoveKeeps ==
  ASSUME Runtime!RuntimeInv,
         UNCHANGED <<now, limitOn, checkpoint, since, lifecycle, entries>>,
         lane' \in Runtime!LaneWork, lane'.fetched <= now,
         latched' \in [Runtime!Days -> BOOLEAN], \A d \in Runtime!Days : latched'[d] => d <= Runtime!Day(now),
         lane'.recovery => checkpoint["ACTIVE"] # 0 /\ Runtime!Candidates(lane.fetched)' # {},
         Runtime!LaneIsContiguous', Runtime!SettledOnce'
  PROVE  Runtime!RuntimeInv'
<1>1. lane'.at \in Runtime!InLane /\ lane'.at \notin {"batch", "page"}
  BY DEF Runtime!LaneWork, Runtime!InLane
<1>2. Runtime!TypeOK'
  BY DEF Runtime!RuntimeInv, Runtime!TypeOK
<1>3. Runtime!BatchIsAnchored'
  BY <1>1 DEF Runtime!BatchIsAnchored
<1> QED BY <1>2, <1>3, HistoryStays DEF Runtime!RuntimeInv

LEMMA RecoverKeeps ==
  ASSUME Runtime!RuntimeInv, Runtime!Recover
  PROVE  Runtime!RuntimeInv'
<1>1. /\ lane.at = "candle"
      /\ lane' = [at |-> "lane", fetched |-> lane.fetched, c |-> lane.c, todo |-> <<"ACTIVE", "TEST">>,
                  missing |-> {}, recovery |-> FALSE, off |-> FALSE]
      /\ UNCHANGED <<now, limitOn, checkpoint, since, lifecycle, latched, entries>>
  BY DEF Runtime!Recover, Runtime!env, Runtime!loss, Runtime!history
<1>2. /\ lane.fetched \in Candles /\ lane.c \in Candles /\ lane.fetched <= now /\ Runtime!Contiguous(lane.c)
  BY <1>1, WorkShape DEF Runtime!RuntimeInv, Runtime!BatchIsAnchored, Runtime!LaneIsContiguous,
        Runtime!CandleWork, Runtime!Idle
<1>3. /\ lane' \in Runtime!LaneWork /\ lane'.at = "lane" /\ lane'.fetched = lane.fetched /\ lane'.c = lane.c
      /\ lane'.missing = {} /\ ~lane'.recovery
  BY <1>1, <1>2 DEF Runtime!LaneWork, Runtime!InLane
<1>4. Runtime!LaneIsContiguous'
  BY <1>1, <1>2, <1>3 DEF Runtime!LaneIsContiguous, Runtime!Contiguous
<1>5. Runtime!SettledOnce'
  BY <1>1, <1>3 DEF Runtime!RuntimeInv, Runtime!SettledOnce
<1>6. latched' \in [Runtime!Days -> BOOLEAN] /\ \A d \in Runtime!Days : latched'[d] => d <= Runtime!Day(now)
  BY <1>1 DEF Runtime!RuntimeInv, Runtime!TypeOK, Runtime!SettledOnce
<1> QED BY <1>1, <1>2, <1>3, <1>4, <1>5, <1>6, LaneMoveKeeps

\* A proven batch leaves no candle out.
LEMMA BatchProvenKeeps ==
  ASSUME Runtime!RuntimeInv, Runtime!BatchProven
  PROVE  Runtime!RuntimeInv'
<1> DEFINE found == {c \in lane.got : c > lane.from}
           oldest == Runtime!OldestOf(found)
<1>1. /\ lane.at = "page" /\ lane.from..lane.to \subseteq lane.got
      /\ lane' = [at |-> "lane", fetched |-> lane.fetched, c |-> oldest, todo |-> <<"ACTIVE", "TEST">>,
                  missing |-> found \ {oldest}, recovery |-> TRUE, off |-> FALSE]
      /\ UNCHANGED <<now, limitOn, checkpoint, since, lifecycle, latched, entries>>
  BY DEF Runtime!BatchProven, Runtime!Proven, Runtime!rest, Runtime!env, Runtime!loss, Runtime!history
<1>2. /\ lane.from \in Candles /\ lane.to \in Candles /\ lane.got \in SUBSET Candles
      /\ lane.fetched \in Candles /\ lane.fetched <= now
      /\ lane.from = checkpoint["ACTIVE"] /\ lane.from < lane.to /\ lane.got \subseteq lane.from..lane.to
      /\ checkpoint["ACTIVE"] # 0 /\ Runtime!Candidates(lane.fetched) # {}
  BY <1>1, WorkShape DEF Runtime!PageWork, Runtime!RuntimeInv, Runtime!BatchIsAnchored, Runtime!Idle
<1>3. lane.from \in Nat /\ lane.to \in Nat
  BY <1>2, CandlesAreInterval
<1>4. found = (lane.from + 1)..lane.to /\ found \in SUBSET Candles
  BY <1>1, <1>2, <1>3
<1>5. oldest = lane.from + 1 /\ oldest \in Candles
  <2>1. found # {} /\ found \in SUBSET Nat /\ lane.from + 1 \in found
    BY <1>2, <1>3, <1>4
  <2>2. oldest \in found /\ \A d \in found : oldest <= d
    BY <2>1, OldestIsFirst
  <2>3. oldest <= lane.from + 1 /\ oldest >= lane.from + 1 /\ oldest \in Nat
    BY <1>3, <1>4, <2>1, <2>2
  <2> QED BY <1>3, <1>4, <2>2, <2>3
<1> DEFINE m == found \ {oldest}
<1>6. /\ m \in SUBSET Candles
      /\ \A d \in m : oldest < d /\ \A e \in (oldest + 1)..d : e \in m
  BY <1>3, <1>4, <1>5
<1> HIDE DEF m, oldest, found
<1>7. /\ lane' \in Runtime!LaneWork /\ lane'.at = "lane" /\ lane'.fetched = lane.fetched /\ lane'.c = oldest
      /\ lane'.missing = m /\ lane'.recovery /\ lane'.todo = <<"ACTIVE", "TEST">>
  BY <1>1, <1>2, <1>5, <1>6 DEF Runtime!LaneWork, Runtime!InLane, m
<1>8. Runtime!LaneIsContiguous'
  <2>1. checkpoint'["ACTIVE"] = oldest - 1
    BY <1>1, <1>2, <1>3, <1>5
  <2>2. Runtime!Lane' = "ACTIVE"
    BY <1>7, LanesInOrder DEF Runtime!Lane
  <2> QED BY <1>6, <1>7, <2>1, <2>2 DEF Runtime!LaneIsContiguous
<1>9. Runtime!SettledOnce'
  BY <1>1, <1>7 DEF Runtime!RuntimeInv, Runtime!SettledOnce
<1>10. latched' \in [Runtime!Days -> BOOLEAN] /\ \A d \in Runtime!Days : latched'[d] => d <= Runtime!Day(now)
  BY <1>1 DEF Runtime!RuntimeInv, Runtime!TypeOK, Runtime!SettledOnce
<1>11. Runtime!Candidates(lane.fetched)' = Runtime!Candidates(lane.fetched)
  BY <1>1, <1>7 DEF Runtime!Candidates, Runtime!Complete
<1> QED BY <1>1, <1>2, <1>7, <1>8, <1>9, <1>10, <1>11, LaneMoveKeeps

\* What is known of the work of a lane.
LEMMA AtLane ==
  ASSUME Runtime!RuntimeInv, lane.at \in Runtime!InLane
  PROVE  /\ lane \in Runtime!LaneWork /\ lane.c \in Candles /\ lane.fetched \in Candles /\ lane.fetched <= now
         /\ lane.recovery => checkpoint["ACTIVE"] # 0 /\ Runtime!Candidates(lane.fetched) # {}
         /\ Runtime!Lane \in Runtime!Lanes
         /\ lane.todo = IF Runtime!Lane = "ACTIVE" THEN <<"ACTIVE", "TEST">> ELSE <<"TEST">>
         /\ Len(lane.todo) = IF Runtime!Lane = "ACTIVE" THEN 2 ELSE 1
         /\ Runtime!Lane = "ACTIVE" => Tail(lane.todo) = <<"TEST">>
<1>1. lane \in Runtime!LaneWork
  BY WorkShape DEF Runtime!RuntimeInv
<1>2. lane.todo \in {<<"ACTIVE", "TEST">>, <<"TEST">>} /\ lane.c \in Candles /\ lane.fetched \in Candles
  BY <1>1 DEF Runtime!LaneWork
<1>3. lane # Runtime!Idle
  BY DEF Runtime!Idle, Runtime!InLane
<1>4. lane.fetched <= now /\ (lane.recovery => checkpoint["ACTIVE"] # 0 /\ Runtime!Candidates(lane.fetched) # {})
  BY <1>3 DEF Runtime!RuntimeInv, Runtime!BatchIsAnchored
<1>5. /\ Runtime!Lane \in {"ACTIVE", "TEST"}
      /\ lane.todo = IF Runtime!Lane = "ACTIVE" THEN <<"ACTIVE", "TEST">> ELSE <<"TEST">>
      /\ Len(lane.todo) = IF Runtime!Lane = "ACTIVE" THEN 2 ELSE 1
      /\ Runtime!Lane = "ACTIVE" => Tail(lane.todo) = <<"TEST">>
  BY <1>2, LanesInOrder DEF Runtime!Lane
<1> QED BY <1>1, <1>2, <1>4, <1>5 DEF Runtime!Lanes

\* The rest of a lane's record when only its step, or the limit's state, changes.
LEMMA StepOfLane ==
  ASSUME Runtime!RuntimeInv, lane.at \in Runtime!InLane, NEW a \in Runtime!InLane, NEW b \in BOOLEAN
  PROVE  LET x == [lane EXCEPT !.at = a, !.off = b]
         IN  /\ x \in Runtime!LaneWork /\ x.at = a /\ x.off = b /\ x.c = lane.c /\ x.fetched = lane.fetched
             /\ x.todo = lane.todo /\ x.missing = lane.missing /\ x.recovery = lane.recovery
<1>1. lane \in Runtime!LaneWork
  BY AtLane
<1> QED BY <1>1 DEF Runtime!LaneWork

\* A lane that only moves on to another step of the same candle.
LEMMA SameLane ==
  ASSUME Runtime!RuntimeInv, lane.at \in Runtime!InLane,
         lane'.at \in Runtime!InLane, lane'.c = lane.c, lane'.todo = lane.todo,
         lane'.missing = lane.missing, lane'.recovery = lane.recovery, checkpoint' = checkpoint
  PROVE  Runtime!LaneIsContiguous' /\ Runtime!Lane' = Runtime!Lane
<1>1. Runtime!Lane' = Runtime!Lane
  BY DEF Runtime!Lane
<1>2. lane'.at # "candle"
  BY DEF Runtime!InLane
<1> QED BY <1>1, <1>2 DEF Runtime!RuntimeInv, Runtime!LaneIsContiguous, Runtime!Contiguous

\* A row of a lane that was not final may be written: what lies between the
\* checkpoints stays final.
LEMMA RowKeeps ==
  ASSUME Runtime!RuntimeInv, NEW l \in Runtime!Lanes, NEW c \in Candles, NEW s \in Runtime!Status,
         lifecycle' = Runtime!Upsert(l, c, s), s \in Runtime!Final \/ ~Runtime!Decided(l, c),
         UNCHANGED <<checkpoint, since>>
  PROVE  /\ lifecycle' \in [Runtime!Lanes -> [Candles -> Runtime!Status]]
         /\ lifecycle'[l][c] = s
         /\ Runtime!RecoveryIsComplete' /\ (since["ACTIVE"] = 0 <=> checkpoint["ACTIVE"] = 0)'
<1>1. lifecycle \in [Runtime!Lanes -> [Candles -> Runtime!Status]]
  BY DEF Runtime!RuntimeInv, Runtime!TypeOK
<1>2. /\ lifecycle' \in [Runtime!Lanes -> [Candles -> Runtime!Status]]
      /\ lifecycle'[l][c] = s
      /\ \A k \in Runtime!Lanes, d \in Candles : k # l \/ d # c => lifecycle'[k][d] = lifecycle[k][d]
  BY <1>1 DEF Runtime!Upsert
<1>3. Runtime!RecoveryIsComplete'
  <2> SUFFICES ASSUME checkpoint["ACTIVE"] # 0, NEW d \in since["ACTIVE"]..checkpoint["ACTIVE"]
               PROVE  lifecycle'["ACTIVE"][d] \in Runtime!Final
    BY DEF Runtime!RecoveryIsComplete
  <2>1. lifecycle["ACTIVE"][d] \in Runtime!Final /\ "ACTIVE" \in Runtime!Lanes
    BY DEF Runtime!RuntimeInv, Runtime!RecoveryIsComplete, Runtime!Lanes
  <2>2. since["ACTIVE"] \in Candles /\ checkpoint["ACTIVE"] \in Candles
    BY <2>1 DEF Runtime!RuntimeInv, Runtime!TypeOK
  <2>3. d \in Candles
    BY <2>2, CandlesAreInterval
  <2>4. d = c /\ l = "ACTIVE" => s \in Runtime!Final
    BY <2>1 DEF Runtime!Decided
  <2> QED BY <1>2, <2>1, <2>3, <2>4
<1> QED BY <1>2, <1>3 DEF Runtime!RuntimeInv

\* A lane is settled: its row is final, the checkpoint follows.
LEMMA SettleKeeps ==
  ASSUME Runtime!RuntimeInv, lane.at \in Runtime!InLane, NEW s \in Runtime!Final,
         lifecycle' = Runtime!Upsert(Runtime!Lane, lane.c, s),
         NEW b \in BOOLEAN, lane' = [lane EXCEPT !.at = "checkpoint", !.off = b],
         UNCHANGED <<now, limitOn, checkpoint, since, latched, entries>>
  PROVE  Runtime!RuntimeInv'
<1>1. /\ lane.c \in Candles /\ lane.fetched <= now /\ Runtime!Lane \in Runtime!Lanes
      /\ lane.recovery => checkpoint["ACTIVE"] # 0 /\ Runtime!Candidates(lane.fetched) # {}
  BY AtLane
<1>2. "checkpoint" \in Runtime!InLane /\ s \in Runtime!Status
  BY DEF Runtime!InLane, Runtime!Status
<1>3. /\ lane' \in Runtime!LaneWork /\ lane'.at = "checkpoint" /\ lane'.c = lane.c /\ lane'.fetched = lane.fetched
      /\ lane'.todo = lane.todo /\ lane'.missing = lane.missing /\ lane'.recovery = lane.recovery
  BY <1>2, StepOfLane
<1>4. Runtime!LaneIsContiguous' /\ Runtime!Lane' = Runtime!Lane
  BY <1>2, <1>3, SameLane
<1>5. /\ lifecycle' \in [Runtime!Lanes -> [Candles -> Runtime!Status]]
      /\ lifecycle'[Runtime!Lane][lane.c] = s
      /\ Runtime!RecoveryIsComplete' /\ (since["ACTIVE"] = 0 <=> checkpoint["ACTIVE"] = 0)'
  BY <1>1, <1>2, RowKeeps
<1>6. Runtime!SettledOnce'
  BY <1>3, <1>4, <1>5 DEF Runtime!RuntimeInv, Runtime!SettledOnce, Runtime!Decided
<1>7. Runtime!TypeOK'
  BY <1>3, <1>5 DEF Runtime!RuntimeInv, Runtime!TypeOK
<1>8. Runtime!Candidates(lane.fetched)' = Runtime!Candidates(lane.fetched)
  BY <1>3 DEF Runtime!Candidates, Runtime!Complete
<1>9. Runtime!BatchIsAnchored'
  BY <1>1, <1>2, <1>3, <1>8 DEF Runtime!BatchIsAnchored
<1> QED BY <1>4, <1>5, <1>6, <1>7, <1>9 DEF Runtime!RuntimeInv, Runtime!LatchHolds

\* A step of a lane that moves no checkpoint.
LEMMA LaneStepKeeps ==
  ASSUME Runtime!RuntimeInv, lane.at \in Runtime!InLane, lane' \in Runtime!LaneWork,
         lane'.fetched = lane.fetched, lane'.recovery = lane.recovery,
         UNCHANGED <<now, limitOn, checkpoint, since>>,
         lifecycle' \in [Runtime!Lanes -> [Candles -> Runtime!Status]], latched' \in [Runtime!Days -> BOOLEAN],
         Runtime!RecoveryIsComplete', Runtime!LatchHolds', Runtime!LaneIsContiguous', Runtime!SettledOnce'
  PROVE  Runtime!RuntimeInv'
<1>1. /\ lane.fetched <= now
      /\ lane.recovery => checkpoint["ACTIVE"] # 0 /\ Runtime!Candidates(lane.fetched) # {}
  BY AtLane
<1>2. lane'.at \in Runtime!InLane /\ lane'.at \notin {"batch", "page"}
  BY DEF Runtime!LaneWork, Runtime!InLane
<1>3. Runtime!TypeOK'
  BY DEF Runtime!RuntimeInv, Runtime!TypeOK
<1>4. Runtime!Candidates(lane.fetched)' = Runtime!Candidates(lane.fetched)
  BY DEF Runtime!Candidates, Runtime!Complete
<1>5. Runtime!BatchIsAnchored'
  BY <1>1, <1>2, <1>4 DEF Runtime!BatchIsAnchored
<1> QED BY <1>3, <1>5 DEF Runtime!RuntimeInv

\* The ACTIVE lane gives a live candle up without a checkpoint; TEST goes on.
LEMMA GiveUpKeeps ==
  ASSUME Runtime!RuntimeInv, lane.at \in Runtime!InLane, Runtime!Lane = "ACTIVE", ~lane.recovery,
         ~Runtime!Decided("ACTIVE", lane.c), NEW s \in Runtime!Status,
         lifecycle' = Runtime!Upsert("ACTIVE", lane.c, s),
         NEW b \in BOOLEAN, lane' = [lane EXCEPT !.at = "lane", !.todo = Tail(@), !.off = b],
         UNCHANGED <<now, limitOn, checkpoint, since, latched, entries>>
  PROVE  Runtime!RuntimeInv'
<1>1. lane \in Runtime!LaneWork /\ Tail(lane.todo) = <<"TEST">> /\ lane.c \in Candles
  BY AtLane
<1>2. lane' = [lane EXCEPT !.at = "lane", !.todo = <<"TEST">>, !.off = b]
  BY <1>1
<1>3. /\ lane' \in Runtime!LaneWork /\ lane'.at = "lane" /\ lane'.fetched = lane.fetched
      /\ lane'.todo = <<"TEST">> /\ lane'.missing = lane.missing /\ lane'.recovery = lane.recovery
  BY <1>1, <1>2 DEF Runtime!LaneWork, Runtime!InLane
<1>4. Runtime!Lane' = "TEST"
  BY <1>3, LanesInOrder DEF Runtime!Lane
<1>5. Runtime!LaneIsContiguous'
  BY <1>3, <1>4 DEF Runtime!RuntimeInv, Runtime!LaneIsContiguous
<1>6. Runtime!SettledOnce'
  BY <1>3 DEF Runtime!RuntimeInv, Runtime!SettledOnce
<1>7. lifecycle' \in [Runtime!Lanes -> [Candles -> Runtime!Status]] /\ Runtime!RecoveryIsComplete'
  BY <1>1, RowKeeps DEF Runtime!Lanes
<1>8. latched' \in [Runtime!Days -> BOOLEAN] /\ Runtime!LatchHolds'
  BY DEF Runtime!RuntimeInv, Runtime!TypeOK, Runtime!LatchHolds
<1> QED BY <1>3, <1>5, <1>6, <1>7, <1>8, LaneStepKeeps

\* The order is sent with the limit it was decided under.
LEMMA SendOrderKeeps ==
  ASSUME Runtime!RuntimeInv, Runtime!SendOrder
  PROVE  Runtime!RuntimeInv'
<1>1. /\ lane.at = "approved" /\ lane.at \in Runtime!InLane
      /\ UNCHANGED <<now, limitOn, checkpoint, since, lifecycle, latched>>
  BY DEF Runtime!SendOrder, Runtime!env, Runtime!loss, Runtime!InLane
<1> DEFINE e == [c |-> lane.c, day |-> Runtime!Day(now), late |-> Runtime!Stale(lane.c),
                 latched |-> latched[Runtime!Day(now)], off |-> lane.off]
<1>2. entries' = entries \cup {e}
  BY DEF Runtime!SendOrder
<1>3. e.latched => e.off
  BY <1>1 DEF Runtime!RuntimeInv, Runtime!SettledOnce
<1> HIDE DEF e
<1>4. Runtime!LatchHolds'
  BY <1>2, <1>3 DEF Runtime!RuntimeInv, Runtime!LatchHolds
<1>5. PICK a \in {"filled", "unknown"} : lane' = [lane EXCEPT !.at = a, !.off = FALSE]
  BY DEF Runtime!SendOrder
<1>6. a \in Runtime!InLane
  BY DEF Runtime!InLane
<1>7. /\ lane' \in Runtime!LaneWork /\ lane'.at = a /\ lane'.c = lane.c /\ lane'.fetched = lane.fetched
      /\ lane'.todo = lane.todo /\ lane'.missing = lane.missing /\ lane'.recovery = lane.recovery
  BY <1>1, <1>5, <1>6, StepOfLane
<1>8. Runtime!LaneIsContiguous' /\ Runtime!Lane' = Runtime!Lane
  BY <1>1, <1>6, <1>7, SameLane
<1>9. Runtime!SettledOnce'
  BY <1>1, <1>7, <1>8 DEF Runtime!RuntimeInv, Runtime!SettledOnce, Runtime!Decided
<1>10. /\ lifecycle' \in [Runtime!Lanes -> [Candles -> Runtime!Status]] /\ latched' \in [Runtime!Days -> BOOLEAN]
       /\ Runtime!RecoveryIsComplete'
  BY <1>1 DEF Runtime!RuntimeInv, Runtime!TypeOK, Runtime!RecoveryIsComplete
<1> QED BY <1>1, <1>4, <1>7, <1>8, <1>9, <1>10, LaneStepKeeps

\* The verdict that approves an entry read the latch of the day.
LEMMA EvaluateRiskKeeps ==
  ASSUME Runtime!RuntimeInv, Runtime!EvaluateRisk
  PROVE  Runtime!RuntimeInv'
<1>1. /\ lane.at = "lane" /\ lane.at \in Runtime!InLane /\ Runtime!Lane = "ACTIVE" /\ ~lane.recovery
      /\ ~Runtime!Decided("ACTIVE", lane.c) /\ ~Runtime!Blocked
      /\ lifecycle' = Runtime!Upsert("ACTIVE", lane.c, "risk_recorded")
      /\ lane' = [lane EXCEPT !.at = "approved", !.off = ~limitOn]
      /\ UNCHANGED <<now, limitOn, checkpoint, since, latched, entries>>
  BY DEF Runtime!EvaluateRisk, Runtime!Intends, Runtime!Undecided, Runtime!Save, Runtime!Seen, Runtime!env,
         Runtime!loss, Runtime!InLane
<1>2. "approved" \in Runtime!InLane /\ "risk_recorded" \in Runtime!Status /\ "risk_recorded" \notin Runtime!Final
  BY DEF Runtime!InLane, Runtime!Status, Runtime!Final
<1> DEFINE b == ~limitOn
<1>3. b \in BOOLEAN
  OBVIOUS
<1>4. /\ lane' \in Runtime!LaneWork /\ lane'.at = "approved" /\ lane'.c = lane.c /\ lane'.fetched = lane.fetched
      /\ lane'.off = ~limitOn /\ lane.c \in Candles
      /\ lane'.todo = lane.todo /\ lane'.missing = lane.missing /\ lane'.recovery = lane.recovery
  BY <1>1, <1>2, <1>3, StepOfLane, AtLane, ZenonT(60)
<1>5. Runtime!LaneIsContiguous' /\ Runtime!Lane' = Runtime!Lane
  BY <1>1, <1>2, <1>4, SameLane
<1>6. /\ lifecycle' \in [Runtime!Lanes -> [Candles -> Runtime!Status]] /\ Runtime!RecoveryIsComplete'
      /\ lifecycle'["ACTIVE"][lane.c] = "risk_recorded"
  BY <1>1, <1>2, <1>4, RowKeeps DEF Runtime!Lanes
<1>7. Runtime!SettledOnce'
  <2>1. latched[Runtime!Day(now)] => ~limitOn
    BY <1>1 DEF Runtime!Blocked
  <2>2. ~Runtime!Decided(Runtime!Lane, lane.c)'
    BY <1>1, <1>2, <1>4, <1>5, <1>6 DEF Runtime!Decided
  <2> QED BY <1>1, <1>4, <1>5, <2>1, <2>2 DEF Runtime!RuntimeInv, Runtime!SettledOnce
<1>8. latched' \in [Runtime!Days -> BOOLEAN] /\ Runtime!LatchHolds'
  BY <1>1 DEF Runtime!RuntimeInv, Runtime!TypeOK, Runtime!LatchHolds
<1> QED BY <1>1, <1>4, <1>5, <1>6, <1>7, <1>8, LaneStepKeeps

\* The day is latched, durably, and then somebody is told.
LEMMA LatchKeeps ==
  ASSUME Runtime!RuntimeInv, Runtime!Latch \/ Runtime!Notify
  PROVE  Runtime!RuntimeInv'
<1> DEFINE a == IF lane.at = "lane" THEN "notify" ELSE "lane"
<1>1. /\ lane.at \in {"lane", "notify"} /\ lane.at \in Runtime!InLane /\ Runtime!Lane = "ACTIVE" /\ ~lane.recovery
      /\ ~Runtime!Decided("ACTIVE", lane.c) /\ lane' = [lane EXCEPT !.at = a]
      /\ latched' \in [Runtime!Days -> BOOLEAN] /\ \A d \in Runtime!Days : latched'[d] => d <= Runtime!Day(now)
      /\ UNCHANGED <<now, limitOn, checkpoint, since, lifecycle, entries>>
  <2>1. Runtime!Day(now) \in Runtime!Days /\ Runtime!Day(now) <= Runtime!Day(now)
    BY DaysPass, CandlesAreInterval DEF Runtime!RuntimeInv, Runtime!TypeOK, Runtime!Days, Runtime!Day
  <2>2. /\ latched \in [Runtime!Days -> BOOLEAN] /\ \A d \in Runtime!Days : latched[d] => d <= Runtime!Day(now)
    BY DEF Runtime!RuntimeInv, Runtime!TypeOK, Runtime!SettledOnce
  <2>3. CASE Runtime!Latch
    BY <2>1, <2>2, <2>3 DEF Runtime!Latch, Runtime!Intends, Runtime!Undecided, Runtime!LatchDay, Runtime!env,
          Runtime!history, Runtime!InLane
  <2>4. CASE Runtime!Notify
    BY <2>2, <2>4 DEF Runtime!Notify, Runtime!env, Runtime!history, Runtime!InLane, Runtime!RuntimeInv,
          Runtime!SettledOnce
  <2> QED BY <2>3, <2>4
<1>2. lane \in Runtime!LaneWork
  BY <1>1, AtLane
<1>3. /\ lane' \in Runtime!LaneWork /\ lane'.at = a /\ a \in {"lane", "notify"} /\ lane'.c = lane.c
      /\ lane'.fetched = lane.fetched
      /\ lane'.todo = lane.todo /\ lane'.missing = lane.missing /\ lane'.recovery = lane.recovery
  BY <1>1, <1>2 DEF Runtime!LaneWork, Runtime!InLane
<1>4. Runtime!LaneIsContiguous' /\ Runtime!Lane' = Runtime!Lane
  BY <1>1, <1>3, SameLane DEF Runtime!InLane
<1>5. Runtime!SettledOnce'
  BY <1>1, <1>3, <1>4 DEF Runtime!SettledOnce, Runtime!Decided
<1>6. /\ lifecycle' \in [Runtime!Lanes -> [Candles -> Runtime!Status]]
      /\ Runtime!RecoveryIsComplete' /\ Runtime!LatchHolds'
  BY <1>1 DEF Runtime!RuntimeInv, Runtime!TypeOK, Runtime!RecoveryIsComplete, Runtime!LatchHolds
<1> QED BY <1>1, <1>3, <1>4, <1>5, <1>6, LaneStepKeeps

\* The checkpoint of the ACTIVE lane moves to the candle after it, at most.
LEMMA ActiveCheckpointKeeps ==
  ASSUME Runtime!RuntimeInv, Runtime!Checkpoint, Runtime!Lane = "ACTIVE"
  PROVE  Runtime!RuntimeInv'
<1>1. /\ lane.at = "checkpoint" /\ lane.at \in Runtime!InLane /\ lane' = Runtime!NextStep
      /\ checkpoint' = [checkpoint EXCEPT !["ACTIVE"] = lane.c]
      /\ since' = [since EXCEPT !["ACTIVE"] = IF @ = 0 THEN lane.c ELSE @]
      /\ UNCHANGED <<now, limitOn, lifecycle, latched, entries>>
  BY DEF Runtime!Checkpoint, Runtime!env, Runtime!loss, Runtime!history, Runtime!InLane
<1>2. /\ lane \in Runtime!LaneWork /\ Tail(lane.todo) = <<"TEST">> /\ lane.c \in Candles /\ lane.fetched \in Candles
      /\ Len(lane.todo) = 2 /\ lane.fetched <= now
      /\ lane.recovery => checkpoint["ACTIVE"] # 0 /\ Runtime!Candidates(lane.fetched) # {}
  BY <1>1, AtLane
<1>3. lane' = [lane EXCEPT !.at = "lane", !.todo = <<"TEST">>]
  <2>1. Len(lane.todo) > 1
    BY <1>2
  <2>2. lane' = [lane EXCEPT !.at = "lane", !.todo = Tail(lane.todo)]
    BY <1>1, <2>1 DEF Runtime!NextStep
  <2> QED BY <1>2, <2>2
<1>4. /\ lane' \in Runtime!LaneWork /\ lane'.at = "lane" /\ lane'.fetched = lane.fetched /\ lane'.c = lane.c
      /\ lane'.todo = <<"TEST">> /\ lane'.missing = lane.missing /\ lane'.recovery = lane.recovery
  BY <1>2, <1>3 DEF Runtime!LaneWork, Runtime!InLane
<1>5. Runtime!Lane' = "TEST"
  BY <1>4, LanesInOrder DEF Runtime!Lane
<1>6. /\ checkpoint \in [Runtime!Lanes -> Candles \cup {0}] /\ since \in [Runtime!Lanes -> Candles \cup {0}]
      /\ "ACTIVE" \in Runtime!Lanes /\ 0 \notin Candles
  BY CandlesAreInterval DEF Runtime!RuntimeInv, Runtime!TypeOK, Runtime!Lanes
<1>7. /\ checkpoint' \in [Runtime!Lanes -> Candles \cup {0}] /\ since' \in [Runtime!Lanes -> Candles \cup {0}]
      /\ checkpoint'["ACTIVE"] = lane.c
      /\ since'["ACTIVE"] = IF since["ACTIVE"] = 0 THEN lane.c ELSE since["ACTIVE"]
      /\ lane.c # 0
  BY <1>1, <1>2, <1>6
<1>8. Runtime!TypeOK'
  BY <1>1, <1>4, <1>7 DEF Runtime!RuntimeInv, Runtime!TypeOK
<1>9. Runtime!Candidates(lane.fetched)' = Runtime!Candidates(lane.fetched)
  BY <1>1, <1>4 DEF Runtime!Candidates, Runtime!Complete
<1>10. Runtime!BatchIsAnchored'
  <2>1. lane'.at \notin {"batch", "page"}
    BY <1>4
  <2> QED BY <1>1, <1>2, <1>4, <1>7, <1>9, <2>1 DEF Runtime!BatchIsAnchored
<1>11. Runtime!LaneIsContiguous'
  <2>1. /\ lane.recovery => \A d \in lane.missing : lane.c < d /\ \A e \in (lane.c + 1)..d : e \in lane.missing
        /\ ~lane.recovery => lane.missing = {}
    BY <1>1 DEF Runtime!RuntimeInv, Runtime!LaneIsContiguous
  <2> QED BY <1>4, <1>5, <1>7, <2>1 DEF Runtime!LaneIsContiguous
<1>12. Runtime!SettledOnce'
  BY <1>1, <1>4 DEF Runtime!RuntimeInv, Runtime!SettledOnce
<1>13. Runtime!RecoveryIsComplete'
  <2> SUFFICES ASSUME NEW d \in since'["ACTIVE"]..checkpoint'["ACTIVE"]
               PROVE  lifecycle["ACTIVE"][d] \in Runtime!Final
    BY <1>1 DEF Runtime!RecoveryIsComplete
  <2>1. lifecycle["ACTIVE"][lane.c] \in Runtime!Final
    BY <1>1 DEF Runtime!RuntimeInv, Runtime!SettledOnce, Runtime!Decided
  <2>2. lane.c \in Nat /\ since["ACTIVE"] \in Nat /\ checkpoint["ACTIVE"] \in Nat
    BY <1>2, <1>6, CandlesAreInterval
  <2>3. since["ACTIVE"] = 0 <=> checkpoint["ACTIVE"] = 0
    BY DEF Runtime!RuntimeInv
  <2>4. CASE since["ACTIVE"] = 0
    <3>1. d = lane.c
      BY <1>7, <2>2, <2>4
    <3> QED BY <2>1, <3>1
  <2>5. CASE since["ACTIVE"] # 0
    <3>1. lane.c <= checkpoint["ACTIVE"] + 1
      BY <1>1, <2>2, <2>3, <2>5 DEF Runtime!RuntimeInv, Runtime!LaneIsContiguous, Runtime!Contiguous
    <3>2. d = lane.c \/ d \in since["ACTIVE"]..checkpoint["ACTIVE"]
      BY <1>7, <2>2, <2>5, <3>1
    <3>3. \A x \in since["ACTIVE"]..checkpoint["ACTIVE"] : lifecycle["ACTIVE"][x] \in Runtime!Final
      BY <2>3, <2>5 DEF Runtime!RuntimeInv, Runtime!RecoveryIsComplete
    <3> QED BY <2>1, <3>2, <3>3
  <2> QED BY <2>4, <2>5
<1>14. (since["ACTIVE"] = 0 <=> checkpoint["ACTIVE"] = 0)'
  BY <1>7
<1> QED BY <1>1, <1>8, <1>10, <1>11, <1>12, <1>13, <1>14 DEF Runtime!RuntimeInv, Runtime!LatchHolds

\* After TEST the next missing candle, the next batch, or the end of the cycle.
LEMMA TestCheckpointKeeps ==
  ASSUME Runtime!RuntimeInv, Runtime!Checkpoint, Runtime!Lane # "ACTIVE"
  PROVE  Runtime!RuntimeInv'
<1>1. /\ lane.at = "checkpoint" /\ lane.at \in Runtime!InLane /\ lane' = Runtime!NextStep
      /\ checkpoint' = [checkpoint EXCEPT ![Runtime!Lane] = lane.c]
      /\ since' = [since EXCEPT ![Runtime!Lane] = IF @ = 0 THEN lane.c ELSE @]
      /\ UNCHANGED <<now, limitOn, lifecycle, latched, entries>>
  BY DEF Runtime!Checkpoint, Runtime!env, Runtime!loss, Runtime!history, Runtime!InLane
<1>2. /\ lane \in Runtime!LaneWork /\ lane.c \in Candles /\ lane.fetched \in Candles
      /\ Len(lane.todo) = 1 /\ lane.fetched <= now /\ Runtime!Lane \in Runtime!Lanes
      /\ lane.recovery => checkpoint["ACTIVE"] # 0 /\ Runtime!Candidates(lane.fetched) # {}
  BY <1>1, AtLane
<1>3. /\ checkpoint' \in [Runtime!Lanes -> Candles \cup {0}] /\ since' \in [Runtime!Lanes -> Candles \cup {0}]
      /\ checkpoint'["ACTIVE"] = checkpoint["ACTIVE"] /\ since'["ACTIVE"] = since["ACTIVE"]
  BY <1>1, <1>2 DEF Runtime!RuntimeInv, Runtime!TypeOK, Runtime!Lanes
<1>4. /\ lane.recovery => \A d \in lane.missing : lane.c < d /\ \A e \in (lane.c + 1)..d : e \in lane.missing
      /\ lane.recovery => checkpoint["ACTIVE"] = lane.c
      /\ ~lane.recovery => lane.missing = {}
  BY <1>1 DEF Runtime!RuntimeInv, Runtime!LaneIsContiguous
<1>5. /\ (since["ACTIVE"] = 0 <=> checkpoint["ACTIVE"] = 0)' /\ Runtime!RecoveryIsComplete' /\ Runtime!LatchHolds'
      /\ \A d \in Runtime!Days : latched'[d] => d <= Runtime!Day(now)'
  BY <1>1, <1>3 DEF Runtime!RuntimeInv, Runtime!RecoveryIsComplete, Runtime!LatchHolds, Runtime!SettledOnce
<1>6. CASE lane.missing # {}
  <2> DEFINE next == Runtime!OldestOf(lane.missing)
             m == lane.missing \ {next}
  <2>1. lane.recovery /\ lane.missing \in SUBSET Candles /\ lane.missing \in SUBSET Nat /\ lane.c \in Nat
    BY <1>2, <1>4, <1>6, CandlesAreInterval DEF Runtime!LaneWork
  <2>2. next \in lane.missing /\ \A d \in lane.missing : next <= d
    BY <1>6, <2>1, OldestIsFirst
  <2>3. next = lane.c + 1
    <3>1. next \in Nat /\ lane.c < next /\ lane.c + 1 \in (lane.c + 1)..next
      BY <1>4, <2>1, <2>2
    <3>2. lane.c + 1 \in lane.missing
      BY <1>4, <2>1, <2>2, <3>1
    <3>3. next <= lane.c + 1
      BY <2>2, <3>2
    <3> QED BY <2>1, <3>1, <3>3
  <2>4. lane' = [lane EXCEPT !.at = "lane", !.todo = <<"ACTIVE", "TEST">>, !.c = next, !.missing = m]
    BY <1>1, <1>2, <1>6 DEF Runtime!NextStep
  <2>5. m \in SUBSET Candles /\ next \in Candles
    BY <2>1, <2>2
  <2>6. \A d \in m : next < d /\ \A e \in (next + 1)..d : e \in m
    <3> SUFFICES ASSUME NEW d \in m PROVE next < d /\ \A e \in (next + 1)..d : e \in m
      OBVIOUS
    <3>1. d \in lane.missing /\ d # next /\ d \in Nat /\ next \in Nat /\ next <= d
      BY <2>1, <2>2
    <3>2. \A e \in (lane.c + 1)..d : e \in lane.missing
      BY <1>4, <2>1, <3>1
    <3>3. \A e \in (next + 1)..d : e \in lane.missing /\ e # next
      BY <2>1, <2>3, <3>1, <3>2
    <3> QED BY <3>1, <3>3
  <2> HIDE DEF m, next
  <2>7. /\ lane' \in Runtime!LaneWork /\ lane'.at = "lane" /\ lane'.fetched = lane.fetched /\ lane'.c = next
        /\ lane'.todo = <<"ACTIVE", "TEST">> /\ lane'.missing = m /\ lane'.recovery
    BY <1>2, <2>1, <2>4, <2>5 DEF Runtime!LaneWork, Runtime!InLane
  <2>8. Runtime!Lane' = "ACTIVE"
    BY <2>7, LanesInOrder DEF Runtime!Lane
  <2>9. Runtime!TypeOK'
    BY <1>1, <1>3, <2>7 DEF Runtime!RuntimeInv, Runtime!TypeOK
  <2>10. Runtime!Candidates(lane.fetched)' = Runtime!Candidates(lane.fetched)
    BY <1>1, <2>7 DEF Runtime!Candidates, Runtime!Complete
  <2>11. Runtime!BatchIsAnchored'
    <3>1. lane'.at \notin {"batch", "page"}
      BY <2>7
    <3> QED BY <1>1, <1>2, <1>3, <2>1, <2>7, <2>10, <3>1 DEF Runtime!BatchIsAnchored
  <2>12. Runtime!LaneIsContiguous'
    <3>1. checkpoint'["ACTIVE"] = next - 1
      BY <1>3, <1>4, <2>1, <2>3
    <3> QED BY <2>6, <2>7, <2>8, <3>1 DEF Runtime!LaneIsContiguous
  <2>13. Runtime!SettledOnce'
    BY <1>5, <2>7 DEF Runtime!SettledOnce
  <2> QED BY <1>5, <2>9, <2>11, <2>12, <2>13 DEF Runtime!RuntimeInv
<1>7. CASE lane.missing = {} /\ lane.recovery
  <2>1. lane' = [at |-> "batch", fetched |-> lane.fetched]
    BY <1>1, <1>2, <1>7 DEF Runtime!NextStep
  <2>2. lane' \in Runtime!FetchWork /\ lane'.at = "batch" /\ lane'.fetched = lane.fetched
        /\ "batch" \notin Runtime!InLane
    BY <1>2, <2>1 DEF Runtime!FetchWork, Runtime!InLane
  <2>3. Runtime!TypeOK'
    BY <1>1, <1>3, <2>2 DEF Runtime!RuntimeInv, Runtime!TypeOK
  <2>4. Runtime!Candidates(lane.fetched)' = Runtime!Candidates(lane.fetched)
    BY <1>1, <2>2 DEF Runtime!Candidates, Runtime!Complete
  <2>5. Runtime!BatchIsAnchored' /\ Runtime!LaneIsContiguous' /\ Runtime!SettledOnce'
    BY <1>1, <1>2, <1>3, <1>5, <1>7, <2>2, <2>4 DEF Runtime!BatchIsAnchored, Runtime!LaneIsContiguous,
       Runtime!SettledOnce
  <2> QED BY <1>5, <2>3, <2>5 DEF Runtime!RuntimeInv
<1>8. CASE lane.missing = {} /\ ~lane.recovery
  <2>1. lane' = Runtime!Idle /\ lane'.at = "idle" /\ "idle" \notin Runtime!InLane
    BY <1>1, <1>2, <1>8 DEF Runtime!NextStep, Runtime!Idle, Runtime!InLane
  <2>2. Runtime!TypeOK'
    BY <1>1, <1>3, <2>1 DEF Runtime!RuntimeInv, Runtime!TypeOK
  <2>3. Runtime!BatchIsAnchored' /\ Runtime!LaneIsContiguous' /\ Runtime!SettledOnce'
    BY <1>5, <2>1 DEF Runtime!BatchIsAnchored, Runtime!LaneIsContiguous, Runtime!SettledOnce
  <2> QED BY <1>5, <2>2, <2>3 DEF Runtime!RuntimeInv
<1> QED BY <1>6, <1>7, <1>8

\* Steps that settle a candle of the lane.
LEMMA SettlingKeeps ==
  ASSUME Runtime!RuntimeInv,
         \/ Runtime!NoSignal \/ Runtime!NoIntent \/ Runtime!StaleEntrySuppressed \/ Runtime!TestSimulated
         \/ Runtime!DailyLossBlocks \/ Runtime!RiskRejected \/ Runtime!Paused \/ Runtime!Completed
         \/ (Runtime!Resume /\ Runtime!Settle("completed"))
  PROVE  Runtime!RuntimeInv'
<1>1. lane.at \in Runtime!InLane
  BY DEF Runtime!NoSignal, Runtime!NoIntent, Runtime!StaleEntrySuppressed, Runtime!TestSimulated,
         Runtime!DailyLossBlocks, Runtime!RiskRejected, Runtime!Paused, Runtime!Completed, Runtime!Resume, Runtime!Intends,
         Runtime!Undecided, Runtime!InLane
<1>2. UNCHANGED <<now, limitOn, checkpoint, since, latched, entries>>
  BY DEF Runtime!NoSignal, Runtime!NoIntent, Runtime!StaleEntrySuppressed, Runtime!TestSimulated,
         Runtime!DailyLossBlocks, Runtime!RiskRejected, Runtime!Paused, Runtime!Completed, Runtime!Resume, Runtime!Seen,
         Runtime!env, Runtime!loss, Runtime!history
<1>3. lane \in Runtime!LaneWork /\ lane.off \in BOOLEAN
  BY <1>1, AtLane DEF Runtime!LaneWork
<1>4. \E s \in Runtime!Final, b \in BOOLEAN :
         /\ lifecycle' = Runtime!Upsert(Runtime!Lane, lane.c, s)
         /\ lane' = [lane EXCEPT !.at = "checkpoint", !.off = b]
  <2>1. [lane EXCEPT !.at = "checkpoint"] = [lane EXCEPT !.at = "checkpoint", !.off = lane.off]
    BY <1>3 DEF Runtime!LaneWork
  <2>2. CASE Runtime!Paused
    BY <2>2 DEF Runtime!Paused, Runtime!Save, Runtime!Final
  <2>3. CASE ~Runtime!Paused
    <3>1. \E s \in Runtime!Final : Runtime!Settle(s)
      BY <2>3 DEF Runtime!NoSignal, Runtime!NoIntent, Runtime!StaleEntrySuppressed, Runtime!TestSimulated,
         Runtime!DailyLossBlocks, Runtime!RiskRejected, Runtime!Completed, Runtime!Final
    <3> QED BY <1>3, <2>1, <3>1 DEF Runtime!Settle, Runtime!Save
  <2> QED BY <2>2, <2>3
<1> QED BY <1>1, <1>2, <1>4, SettleKeeps

\* Steps that leave a candle for a later cycle.
LEMMA LeavingKeeps ==
  ASSUME Runtime!RuntimeInv,
         \/ Runtime!ExecutionError \/ Runtime!InDoubt \/ (Runtime!Resume /\ ~Runtime!Settle("completed"))
  PROVE  Runtime!RuntimeInv'
<1>1. /\ lane.at \in Runtime!InLane /\ Runtime!Lane = "ACTIVE" /\ ~lane.recovery /\ ~Runtime!Decided("ACTIVE", lane.c)
  BY DEF Runtime!ExecutionError, Runtime!InDoubt, Runtime!Resume, Runtime!Intends, Runtime!Undecided,
         Runtime!InLane, Runtime!RuntimeInv, Runtime!SettledOnce
<1>2. UNCHANGED <<now, limitOn, checkpoint, since, latched, entries>>
  BY DEF Runtime!ExecutionError, Runtime!InDoubt, Runtime!Resume, Runtime!Seen, Runtime!env, Runtime!loss,
         Runtime!history
<1>3. lane \in Runtime!LaneWork /\ lane.off \in BOOLEAN /\ Len(lane.todo) = 2
  BY <1>1, AtLane DEF Runtime!LaneWork
<1>4. /\ "execution_unknown" \in Runtime!Status /\ "execution_error" \in Runtime!Status
  BY DEF Runtime!Status
<1>5. [lane EXCEPT !.at = "lane", !.todo = Tail(@)] = [lane EXCEPT !.at = "lane", !.todo = Tail(@), !.off = lane.off]
  BY <1>3 DEF Runtime!LaneWork
<1>6. \E s \in Runtime!Status, b \in BOOLEAN :
         /\ lifecycle' = Runtime!Upsert("ACTIVE", lane.c, s)
         /\ lane' = [lane EXCEPT !.at = "lane", !.todo = Tail(@), !.off = b]
  <2>1. CASE Runtime!ExecutionError
    BY <1>1, <1>4, <2>1 DEF Runtime!ExecutionError, Runtime!Save
  <2>2. CASE Runtime!InDoubt
    <3>1. /\ lifecycle' = Runtime!Upsert("ACTIVE", lane.c, "execution_unknown")
          /\ lane' = [lane EXCEPT !.at = "lane", !.todo = Tail(@), !.off = lane.off]
      BY <1>1, <1>5, <2>2 DEF Runtime!InDoubt, Runtime!Save
    <3> QED BY <1>3, <1>4, <3>1
  <2>3. CASE Runtime!Resume /\ ~Runtime!Settle("completed")
    <3>1. Runtime!Save("execution_unknown") /\ lane' = Runtime!NextStep
      BY <2>3 DEF Runtime!Resume
    <3>2. lane' = [lane EXCEPT !.at = "lane", !.todo = Tail(@)]
      <4>1. Len(lane.todo) > 1
        BY <1>3
      <4> QED BY <3>1, <4>1 DEF Runtime!NextStep
    <3>3. /\ lifecycle' = Runtime!Upsert("ACTIVE", lane.c, "execution_unknown")
          /\ lane' = [lane EXCEPT !.at = "lane", !.todo = Tail(@), !.off = lane.off]
      BY <1>1, <1>5, <3>1, <3>2 DEF Runtime!Save
    <3> QED BY <1>3, <1>4, <3>3
  <2> QED BY <2>1, <2>2, <2>3
<1> QED BY <1>1, <1>2, <1>6, GiveUpKeeps

LEMMA RuntimeStep ==
  ASSUME Runtime!RuntimeInv, [Runtime!Next]_(Runtime!vars)
  PROVE  Runtime!RuntimeInv'
<1>1. CASE \/ Runtime!Unavailable \/ Runtime!PageFails \/ Runtime!MissingCandle \/ Runtime!RegimeConflict
           \/ Runtime!RecoveryDone \/ Runtime!Die
  <2>1. lane' = Runtime!Idle /\ UNCHANGED <<now, limitOn, checkpoint, since, lifecycle, latched, entries>>
    BY <1>1 DEF Runtime!Unavailable, Runtime!PageFails, Runtime!MissingCandle, Runtime!RegimeConflict,
          Runtime!RecoveryDone, Runtime!Die, Runtime!Fail, Runtime!rest, Runtime!env, Runtime!loss, Runtime!history
  <2> QED BY <2>1, IdleKeeps
<1>2. CASE Runtime!AlreadyProcessed
  <2>1. /\ lane.at = "lane" /\ lane.at \in Runtime!InLane /\ Runtime!Decided(Runtime!Lane, lane.c)
        /\ lane' = [lane EXCEPT !.at = "checkpoint"]
        /\ UNCHANGED <<now, limitOn, checkpoint, since, lifecycle, latched, entries>>
    BY <1>2 DEF Runtime!AlreadyProcessed, Runtime!rest, Runtime!env, Runtime!loss, Runtime!history, Runtime!InLane
  <2>2. lane \in Runtime!LaneWork
    BY <2>1, AtLane
  <2>3. /\ lane' \in Runtime!LaneWork /\ lane'.at = "checkpoint" /\ lane'.c = lane.c /\ lane'.fetched = lane.fetched
        /\ lane'.todo = lane.todo /\ lane'.missing = lane.missing /\ lane'.recovery = lane.recovery
    BY <2>1, <2>2 DEF Runtime!LaneWork, Runtime!InLane
  <2>4. Runtime!LaneIsContiguous' /\ Runtime!Lane' = Runtime!Lane
    BY <2>1, <2>3, SameLane DEF Runtime!InLane
  <2>5. Runtime!SettledOnce'
    BY <2>1, <2>3, <2>4 DEF Runtime!RuntimeInv, Runtime!SettledOnce, Runtime!Decided
  <2>6. /\ lifecycle' \in [Runtime!Lanes -> [Candles -> Runtime!Status]] /\ latched' \in [Runtime!Days -> BOOLEAN]
        /\ Runtime!RecoveryIsComplete' /\ Runtime!LatchHolds'
    BY <2>1 DEF Runtime!RuntimeInv, Runtime!TypeOK, Runtime!RecoveryIsComplete, Runtime!LatchHolds
  <2> QED BY <2>1, <2>3, <2>4, <2>5, <2>6, LaneStepKeeps
<1>3. CASE UNCHANGED Runtime!vars
  <2>1. UNCHANGED <<now, limitOn, checkpoint, since, lifecycle, latched, lane, entries>>
    BY <1>3 DEF Runtime!vars, Runtime!env, Runtime!loss, Runtime!history
  <2> QED BY <2>1 DEF Runtime!RuntimeInv, Runtime!TypeOK, Runtime!BatchIsAnchored, Runtime!LaneIsContiguous,
          Runtime!SettledOnce, Runtime!RecoveryIsComplete, Runtime!LatchHolds, Runtime!Candidates,
          Runtime!Complete, Runtime!Contiguous, Runtime!Lane, Runtime!Decided, Runtime!Day
<1> QED BY <1>1, <1>2, <1>3, TickKeeps, EditKeeps, FetchKeeps, ChooseKeeps, RecoverKeeps, StartRecoveryKeeps,
           StartBatchKeeps, FetchPageKeeps, BatchProvenKeeps, SettlingKeeps, LeavingKeeps, LatchKeeps,
           EvaluateRiskKeeps, SendOrderKeeps, ActiveCheckpointKeeps, TestCheckpointKeeps DEF Runtime!Next

LEMMA RuntimeStart ==
  ASSUME Runtime!Init PROVE Runtime!RuntimeInv
<1>1. lane = Runtime!Idle /\ lane.at = "idle" /\ "idle" \notin Runtime!InLane /\ 2 \in Candles
  BY CandlesAreInterval DEF Runtime!Init, Runtime!Idle, Runtime!InLane
<1>2. Runtime!TypeOK
  BY <1>1 DEF Runtime!Init, Runtime!TypeOK, Runtime!Status
<1>3. Runtime!BatchIsAnchored /\ Runtime!LaneIsContiguous /\ Runtime!SettledOnce
  BY <1>1 DEF Runtime!Init, Runtime!BatchIsAnchored, Runtime!LaneIsContiguous, Runtime!SettledOnce
<1> QED BY <1>2, <1>3 DEF Runtime!Init, Runtime!RuntimeInv, Runtime!RecoveryIsComplete, Runtime!LatchHolds,
           Runtime!Lanes

-----------------------------------------------------------------------------
(* The paper runtimes.                                                     *)

LEMMA PaperCandlesAreInterval ==
  /\ \E n \in Nat : PaperCandles = 1..n
  /\ PaperCandles \in SUBSET Nat /\ 2 \in PaperCandles /\ Window \in Nat /\ 1 \in Sets /\ 0 \notin PaperCandles
BY PaperAssumption DEF Paper!PaperConstants

LEMMA PaperOldestIsFirst ==
  ASSUME NEW S \in SUBSET Nat, S # {}
  PROVE  Paper!Oldest(S) \in S
<1>1. \E c \in S : \A d \in S : c <= d
  BY LeastExists
<1> QED BY <1>1 DEF Paper!Oldest

LEMMA PaperNewestIsLast ==
  ASSUME NEW S \in SUBSET PaperCandles, S # {}
  PROVE  Paper!Newest(S) \in S
<1>1. PICK n \in Nat : PaperCandles = 1..n
  BY PaperCandlesAreInterval
<1> DEFINE T == {m \in Nat : n - m \in S}
<1>2. T \in SUBSET Nat /\ T # {}
  <2>1. PICK c \in S : TRUE
    OBVIOUS
  <2>2. c \in Int /\ n - c \in Nat /\ n - (n - c) = c
    BY <1>1
  <2> QED BY <2>1, <2>2
<1>3. PICK m \in T : \A k \in T : m <= k
  BY <1>2, LeastExists
<1>4. \A d \in S : d <= n - m
  <2> SUFFICES ASSUME NEW d \in S PROVE d <= n - m
    OBVIOUS
  <2>1. d \in Int /\ n - d \in Nat /\ n - (n - d) = d
    BY <1>1
  <2>2. m <= n - d
    BY <1>3, <2>1
  <2> QED BY <1>1, <1>3, <2>1, <2>2
<1>5. \E c \in S : \A d \in S : d <= c
  BY <1>3, <1>4
<1> QED BY <1>5 DEF Paper!Newest

\* A cycle that chooses a candle chooses the successor of the checkpoint.
LEMMA NextIsContiguous ==
  ASSUME Paper!TypeOK, NEW k \in Paper!Keys, Paper!NextCompleted(mark[k]) > 0
  PROVE  /\ Paper!NextCompleted(mark[k]) \in PaperCandles
         /\ mark[k] = 0 \/ Paper!NextCompleted(mark[k]) = mark[k] + 1
<1> DEFINE fresh == {c \in Paper!Candidates : c > mark[k]}
<1>1. /\ Paper!Candidates \in SUBSET PaperCandles /\ fresh \in SUBSET Nat /\ fresh \in SUBSET PaperCandles
  BY PaperCandlesAreInterval DEF Paper!Candidates
<1>2. mark[k] \in PaperCandles \cup {0} /\ ~(0 > 0) /\ ~(-1 > 0)
  BY DEF Paper!TypeOK
<1>3. Paper!NextCompleted(mark[k]) = IF Paper!Candidates = {} THEN 0
         ELSE IF mark[k] = 0 THEN Paper!Newest(Paper!Candidates)
         ELSE IF fresh = {} THEN 0
         ELSE IF Paper!Oldest(fresh) = mark[k] + 1 THEN mark[k] + 1 ELSE -1
  BY DEF Paper!NextCompleted
<1> HIDE DEF fresh
<1>4. Paper!Candidates # {}
  BY <1>2, <1>3
<1>5. CASE mark[k] = 0
  <2>1. Paper!Newest(Paper!Candidates) \in Paper!Candidates
    BY <1>1, <1>4, PaperNewestIsLast
  <2> QED BY <1>1, <1>3, <1>4, <1>5, <2>1
<1>6. CASE mark[k] # 0
  <2>1. fresh # {} /\ Paper!Oldest(fresh) = mark[k] + 1 /\ Paper!NextCompleted(mark[k]) = mark[k] + 1
    BY <1>2, <1>3, <1>4, <1>6
  <2>2. Paper!Oldest(fresh) \in fresh
    BY <1>1, <2>1, PaperOldestIsFirst
  <2> QED BY <1>1, <2>1, <2>2
<1> QED BY <1>5, <1>6

\* What a working process remembers.
LEMMA AtPaperLane ==
  ASSUME Paper!PaperInv, step.at \in Paper!Working
  PROVE  /\ step \in Paper!LaneWork /\ step.c \in PaperCandles /\ step.key \in Paper!Keys
         /\ step.todo \in SUBSET Sets /\ step.c \in Nat
         /\ mark[step.key] \in PaperCandles \cup {0} /\ mark[step.key] \in Nat
<1>1. step \in Paper!LaneWork
  BY DEF Paper!PaperInv, Paper!TypeOK, Paper!Idle, Paper!Working, Paper!Undecided
<1>2. step.c \in PaperCandles /\ step.key \in Paper!Keys /\ step.todo \in SUBSET Sets
  BY <1>1 DEF Paper!LaneWork
<1>3. mark \in [Paper!Keys -> PaperCandles \cup {0}]
  BY DEF Paper!PaperInv, Paper!TypeOK
<1> QED BY <1>1, <1>2, <1>3, PaperCandlesAreInterval

\* Moving the process on changes no record.
LEMMA MoveOn ==
  ASSUME Paper!PaperInv, step.at \in Paper!Working, NEW a \in Paper!Working,
         step' = [step EXCEPT !.at = a]
  PROVE  /\ step' \in Paper!LaneWork /\ step'.at = a /\ step'.c = step.c /\ step'.key = step.key
         /\ step'.todo = step.todo
BY AtPaperLane DEF Paper!LaneWork

\* The state outside the tables.
LEMMA PaperTypes ==
  ASSUME Paper!PaperInv, step' = Paper!Idle \/ step' = [at |-> "dead"] \/ step' \in Paper!LaneWork,
         clock' \in PaperCandles, active' \in Sets, testing' \in SUBSET Sets,
         mark' \in [Paper!Keys -> PaperCandles \cup {0}], first' \in [Paper!Keys -> PaperCandles \cup {0}],
         fate' \in [Paper!Keys -> [PaperCandles -> Paper!Status]],
         paper' \in [Paper!Keys -> [PaperCandles -> {"none", "created", "submitting", "submitted", "filled"}]]
  PROVE  Paper!TypeOK'
BY DEF Paper!TypeOK

\* An idle process has nothing to keep but the tables.
LEMMA PaperRests ==
  ASSUME Paper!PaperInv, UNCHANGED <<mark, first, fate, paper, paperFills>>,
         clock' \in PaperCandles, active' \in Sets, testing' \in SUBSET Sets,
         step' = Paper!Idle \/ step' = [at |-> "dead"]
  PROVE  Paper!PaperInv'
<1>1. Paper!TypeOK'
  BY PaperTypes DEF Paper!PaperInv, Paper!TypeOK
<1>2. step'.at \notin Paper!Working /\ step'.at \notin Paper!Undecided /\ step'.at \notin {"fill", "filled", "checkpoint"}
  BY DEF Paper!Idle, Paper!Working, Paper!Undecided
<1>3. Paper!LaneIsContiguous' /\ Paper!StepsInOrder'
  BY <1>2 DEF Paper!LaneIsContiguous, Paper!StepsInOrder
<1>4. (\A k \in Paper!Keys : first[k] = 0 <=> mark[k] = 0)'
  BY DEF Paper!PaperInv
<1>5. Paper!HistoryHasNoHoles'
  BY DEF Paper!PaperInv, Paper!HistoryHasNoHoles
<1> QED BY <1>1, <1>3, <1>4, <1>5 DEF Paper!PaperInv

\* A cycle begins at a candle: the tables stay.
LEMMA PaperStarts ==
  ASSUME Paper!PaperInv, UNCHANGED <<mark, first, fate, paper, paperFills, clock, active, testing>>,
         step' \in Paper!LaneWork, step'.at = "lane",
         step'.key = Paper!Paper => mark[Paper!Paper] = 0 \/ step'.c <= mark[Paper!Paper] + 1
  PROVE  Paper!PaperInv'
<1>1. Paper!TypeOK'
  BY PaperTypes DEF Paper!PaperInv, Paper!TypeOK
<1>2. Paper!StepsInOrder'
  BY DEF Paper!StepsInOrder, Paper!Undecided
<1>3. Paper!LaneIsContiguous'
  BY DEF Paper!LaneIsContiguous, Paper!Key
<1>4. (\A k \in Paper!Keys : first[k] = 0 <=> mark[k] = 0)'
  BY DEF Paper!PaperInv
<1>5. Paper!HistoryHasNoHoles'
  BY DEF Paper!PaperInv, Paper!HistoryHasNoHoles
<1> QED BY <1>1, <1>2, <1>3, <1>4, <1>5 DEF Paper!PaperInv

\* A lane decides without writing: it turns to another step of the same candle.
LEMMA PaperTurns ==
  ASSUME Paper!PaperInv, UNCHANGED <<mark, first, fate, paper, paperFills, clock, active, testing>>,
         step.at \in Paper!Working, NEW a \in Paper!Working \ {"lane", "fill", "filled"},
         step' = [step EXCEPT !.at = a],
         mark[step.key] = 0 \/ step.c <= mark[step.key] + 1,
         a = "checkpoint" <=> fate[step.key][step.c] \in Paper!Final
  PROVE  Paper!PaperInv'
<1>1. /\ step' \in Paper!LaneWork /\ step'.at = a /\ step'.c = step.c /\ step'.key = step.key
  BY MoveOn
<1>2. Paper!TypeOK'
  BY <1>1, PaperTypes DEF Paper!PaperInv, Paper!TypeOK
<1>3. Paper!StepsInOrder'
  BY <1>1 DEF Paper!StepsInOrder, Paper!Outcome, Paper!Key, Paper!Undecided
<1>4. Paper!LaneIsContiguous'
  BY <1>1 DEF Paper!LaneIsContiguous, Paper!Key
<1>5. (\A k \in Paper!Keys : first[k] = 0 <=> mark[k] = 0)'
  BY DEF Paper!PaperInv
<1>6. Paper!HistoryHasNoHoles'
  BY DEF Paper!PaperInv, Paper!HistoryHasNoHoles
<1> QED BY <1>2, <1>3, <1>4, <1>5, <1>6 DEF Paper!PaperInv

\* A lane writes the lifecycle of a candle that is not decided: what was final
\* stays, and a completed candle has its fill.
LEMMA SavedRow ==
  ASSUME Paper!PaperInv, NEW k \in Paper!Keys, NEW c \in PaperCandles, NEW s \in Paper!Status,
         fate[k][c] \notin Paper!Final, fate' = [fate EXCEPT ![k][c] = s],
         UNCHANGED <<mark, first, paper, paperFills>>,
         s = "completed" => <<k, c>> \in paperFills /\ paper[k][c] = "filled"
  PROVE  /\ fate' \in [Paper!Keys -> [PaperCandles -> Paper!Status]] /\ fate'[k][c] = s
         /\ (\A j \in Paper!Keys : first[j] = 0 <=> mark[j] = 0)'
         /\ Paper!HistoryHasNoHoles'
<1>1. fate \in [Paper!Keys -> [PaperCandles -> Paper!Status]]
  BY DEF Paper!PaperInv, Paper!TypeOK
<1>2. fate' \in [Paper!Keys -> [PaperCandles -> Paper!Status]] /\ fate'[k][c] = s
  BY <1>1
<1>3. \A j \in Paper!Keys, d \in PaperCandles : (j # k \/ d # c) => fate'[j][d] = fate[j][d]
  BY <1>1
<1>4. \A j \in Paper!Keys, d \in PaperCandles : fate[j][d] \in Paper!Final => fate'[j][d] \in Paper!Final
  BY <1>3
<1>5. \A j \in Paper!Keys, d \in PaperCandles : fate'[j][d] = "completed" =>
          <<j, d>> \in paperFills /\ paper[j][d] = "filled"
  BY <1>2, <1>3 DEF Paper!PaperInv, Paper!HistoryHasNoHoles
<1>6. Paper!HistoryHasNoHoles'
  <2> SUFFICES ASSUME NEW j \in Paper!Keys
               PROVE  /\ mark[j] \in {d \in PaperCandles : fate'[j][d] \in Paper!Final} \cup {0}
                      /\ mark[j] # 0 => first[j]..mark[j] \subseteq {d \in PaperCandles : fate'[j][d] \in Paper!Final}
                      /\ \A d \in PaperCandles : fate'[j][d] = "completed" =>
                            <<j, d>> \in paperFills /\ paper[j][d] = "filled"
    BY DEF Paper!HistoryHasNoHoles
  <2>1. {d \in PaperCandles : fate[j][d] \in Paper!Final} \subseteq {d \in PaperCandles : fate'[j][d] \in Paper!Final}
    BY <1>4
  <2>2. /\ mark[j] \in {d \in PaperCandles : fate[j][d] \in Paper!Final} \cup {0}
        /\ mark[j] # 0 => first[j]..mark[j] \subseteq {d \in PaperCandles : fate[j][d] \in Paper!Final}
    BY DEF Paper!PaperInv, Paper!HistoryHasNoHoles
  <2> QED BY <1>5, <2>1, <2>2
<1> QED BY <1>2, <1>6 DEF Paper!PaperInv

LEMMA PaperSaves ==
  ASSUME Paper!PaperInv, UNCHANGED <<mark, first, paper, paperFills, clock, active, testing>>,
         step.at \in Paper!Working, NEW s \in Paper!Status, fate[step.key][step.c] \notin Paper!Final,
         fate' = [fate EXCEPT ![step.key][step.c] = s],
         s = "completed" => <<step.key, step.c>> \in paperFills /\ paper[step.key][step.c] = "filled",
         NEW a \in Paper!Working \ {"lane", "fill", "filled"}, step' = [step EXCEPT !.at = a],
         mark[step.key] = 0 \/ step.c <= mark[step.key] + 1,
         a = "checkpoint" <=> s \in Paper!Final
  PROVE  Paper!PaperInv'
<1>0. /\ step.key \in Paper!Keys /\ step.c \in PaperCandles
  BY AtPaperLane
<1>1. /\ step' \in Paper!LaneWork /\ step'.at = a /\ step'.c = step.c /\ step'.key = step.key
  BY MoveOn
<1>2. /\ fate' \in [Paper!Keys -> [PaperCandles -> Paper!Status]] /\ fate'[step.key][step.c] = s
      /\ (\A j \in Paper!Keys : first[j] = 0 <=> mark[j] = 0)'
      /\ Paper!HistoryHasNoHoles'
  BY <1>0, SavedRow
<1>3. Paper!TypeOK'
  BY <1>1, <1>2, PaperTypes DEF Paper!PaperInv, Paper!TypeOK
<1>4. Paper!StepsInOrder'
  BY <1>1, <1>2 DEF Paper!StepsInOrder, Paper!Outcome, Paper!Key, Paper!Undecided
<1>5. Paper!LaneIsContiguous'
  BY <1>1 DEF Paper!LaneIsContiguous, Paper!Key
<1> QED BY <1>2, <1>3, <1>4, <1>5 DEF Paper!PaperInv

\* The execution row and the fill of a candle that is being decided.
LEMMA PaperExecutes ==
  ASSUME Paper!PaperInv, UNCHANGED <<mark, first, fate, clock, active, testing>>,
         step.at \in Paper!Undecided, NEW e \in {"created", "submitting", "submitted", "filled"},
         \/ paper' = [paper EXCEPT ![step.key][step.c] = e]
         \/ UNCHANGED paper,
         paperFills \subseteq paperFills',
         NEW a \in Paper!Undecided, step' = [step EXCEPT !.at = a],
         a \in {"fill", "filled"} => <<step.key, step.c>> \in paperFills',
         a = "filled" => paper' = [paper EXCEPT ![step.key][step.c] = "filled"]
  PROVE  Paper!PaperInv'
<1>0. /\ step.key \in Paper!Keys /\ step.c \in PaperCandles /\ step.at \in Paper!Working /\ a \in Paper!Working
      /\ step.at # "lane" /\ step.at # "checkpoint" /\ a # "lane" /\ a # "checkpoint"
  BY AtPaperLane DEF Paper!Working, Paper!Undecided
<1>1. /\ step' \in Paper!LaneWork /\ step'.at = a /\ step'.c = step.c /\ step'.key = step.key
  BY <1>0, MoveOn
<1>2. paper \in [Paper!Keys -> [PaperCandles -> {"none", "created", "submitting", "submitted", "filled"}]]
  BY DEF Paper!PaperInv, Paper!TypeOK
<1>3. /\ paper' \in [Paper!Keys -> [PaperCandles -> {"none", "created", "submitting", "submitted", "filled"}]]
      /\ \A j \in Paper!Keys, d \in PaperCandles : (j # step.key \/ d # step.c) => paper'[j][d] = paper[j][d]
      /\ a = "filled" => paper'[step.key][step.c] = "filled"
  BY <1>0, <1>2
<1>4. fate[step.key][step.c] \notin Paper!Final /\ fate[step.key][step.c] # "completed"
  BY DEF Paper!PaperInv, Paper!StepsInOrder, Paper!Outcome, Paper!Key, Paper!Final
<1>5. Paper!TypeOK'
  BY <1>1, <1>3, PaperTypes DEF Paper!PaperInv, Paper!TypeOK
<1>6. Paper!StepsInOrder'
  BY <1>0, <1>1, <1>3, <1>4 DEF Paper!StepsInOrder, Paper!Outcome, Paper!Key
<1>7. Paper!LaneIsContiguous'
  BY <1>0, <1>1 DEF Paper!PaperInv, Paper!LaneIsContiguous, Paper!Key
<1>8. (\A k \in Paper!Keys : first[k] = 0 <=> mark[k] = 0)'
  BY DEF Paper!PaperInv
<1>9. Paper!HistoryHasNoHoles'
  <2>1. \A j \in Paper!Keys, d \in PaperCandles : fate[j][d] = "completed" =>
          <<j, d>> \in paperFills' /\ paper'[j][d] = "filled"
    BY <1>3, <1>4 DEF Paper!PaperInv, Paper!HistoryHasNoHoles
  <2> QED BY <2>1 DEF Paper!PaperInv, Paper!HistoryHasNoHoles
<1> QED BY <1>5, <1>6, <1>7, <1>8, <1>9 DEF Paper!PaperInv

\* The process goes to the next lane, or the cycle ends.
LEMMA NextLaneIs ==
  ASSUME Paper!PaperInv, step.at \in Paper!Working, Paper!NextLane
  PROVE  \/ step' = Paper!Idle
         \/ step' \in Paper!LaneWork /\ step'.at = "lane" /\ step'.key # Paper!Paper
<1>1. step.c \in PaperCandles /\ step.todo \in SUBSET Sets
  BY AtPaperLane
<1>2. CASE step.todo = {}
  BY <1>2 DEF Paper!NextLane
<1>3. CASE step.todo # {}
  <2>1. PICK s \in step.todo :
           step' = [at |-> "lane", c |-> step.c, key |-> <<"TEST", s>>, todo |-> step.todo \ {s}]
    BY <1>3 DEF Paper!NextLane
  <2>2. <<"TEST", s>> \in Paper!Keys /\ <<"TEST", s>> # Paper!Paper /\ "lane" \in Paper!Working
    BY <1>1 DEF Paper!Keys, Paper!Paper, Paper!Working
  <2> QED BY <1>1, <2>1, <2>2 DEF Paper!LaneWork
<1> QED BY <1>2, <1>3

LEMMA PaperNext ==
  ASSUME Paper!PaperInv, step.at \in Paper!Working, Paper!NextLane,
         UNCHANGED <<paper, paperFills, clock, active, testing>>,
         mark' \in [Paper!Keys -> PaperCandles \cup {0}], first' \in [Paper!Keys -> PaperCandles \cup {0}],
         fate' \in [Paper!Keys -> [PaperCandles -> Paper!Status]],
         (\A k \in Paper!Keys : first[k] = 0 <=> mark[k] = 0)', Paper!HistoryHasNoHoles'
  PROVE  Paper!PaperInv'
<1>1. \/ step' = Paper!Idle
      \/ step' \in Paper!LaneWork /\ step'.at = "lane" /\ step'.key # Paper!Paper
  BY NextLaneIs
<1>2. Paper!TypeOK'
  BY <1>1, PaperTypes DEF Paper!PaperInv, Paper!TypeOK
<1>3. step'.at \notin {"fill", "filled", "checkpoint"} /\ step'.at \notin Paper!Undecided
      /\ (step'.at \in Paper!Working => step'.at = "lane" /\ step'.key # Paper!Paper)
  BY <1>1 DEF Paper!Idle, Paper!Undecided, Paper!Working
<1>4. Paper!StepsInOrder'
  BY <1>3 DEF Paper!StepsInOrder
<1>5. Paper!LaneIsContiguous'
  BY <1>3 DEF Paper!LaneIsContiguous, Paper!Key
<1> QED BY <1>2, <1>4, <1>5 DEF Paper!PaperInv

\* The checkpoint moves to a decided candle that leaves no hole.
LEMMA PaperCheckpointKeeps ==
  ASSUME Paper!PaperInv, Paper!Checkpoint
  PROVE  Paper!PaperInv'
<1> DEFINE k == step.key
           c == step.c
<1>1. /\ step.at = "checkpoint" /\ step.at \in Paper!Working /\ Paper!NextLane
      /\ mark' = [mark EXCEPT ![k] = c]
      /\ first' = [first EXCEPT ![k] = IF first[k] = 0 THEN c ELSE first[k]]
      /\ UNCHANGED <<fate, paper, paperFills, clock, active, testing>>
  BY DEF Paper!Checkpoint, Paper!Advance, Paper!Working, Paper!env, Paper!Key
<1>2. /\ k \in Paper!Keys /\ c \in PaperCandles /\ c # 0 /\ c \in Nat /\ mark[k] \in Nat
  BY <1>1, AtPaperLane, PaperCandlesAreInterval
<1>3. /\ fate[k][c] \in Paper!Final /\ (mark[k] = 0 \/ c <= mark[k] + 1)
  BY <1>1 DEF Paper!PaperInv, Paper!StepsInOrder, Paper!LaneIsContiguous, Paper!Outcome, Paper!Key
<1>4. /\ mark \in [Paper!Keys -> PaperCandles \cup {0}] /\ first \in [Paper!Keys -> PaperCandles \cup {0}]
      /\ \A j \in Paper!Keys : first[j] = 0 <=> mark[j] = 0
  BY DEF Paper!PaperInv, Paper!TypeOK
<1> HIDE DEF k, c
<1>5. /\ mark' \in [Paper!Keys -> PaperCandles \cup {0}] /\ first' \in [Paper!Keys -> PaperCandles \cup {0}]
      /\ mark'[k] = c /\ first'[k] = IF first[k] = 0 THEN c ELSE first[k]
      /\ \A j \in Paper!Keys : j # k => mark'[j] = mark[j] /\ first'[j] = first[j]
  BY <1>1, <1>2, <1>4
<1>6. (\A j \in Paper!Keys : first[j] = 0 <=> mark[j] = 0)'
  BY <1>2, <1>4, <1>5
<1>7. Paper!HistoryHasNoHoles'
  <2> SUFFICES ASSUME NEW j \in Paper!Keys
               PROVE  /\ mark'[j] \in {d \in PaperCandles : fate[j][d] \in Paper!Final} \cup {0}
                      /\ mark'[j] # 0 => first'[j]..mark'[j] \subseteq {d \in PaperCandles : fate[j][d] \in Paper!Final}
                      /\ \A d \in PaperCandles : fate[j][d] = "completed" =>
                            <<j, d>> \in paperFills /\ paper[j][d] = "filled"
    BY <1>1 DEF Paper!HistoryHasNoHoles
  <2>1. /\ mark[j] \in {d \in PaperCandles : fate[j][d] \in Paper!Final} \cup {0}
        /\ mark[j] # 0 => first[j]..mark[j] \subseteq {d \in PaperCandles : fate[j][d] \in Paper!Final}
        /\ \A d \in PaperCandles : fate[j][d] = "completed" => <<j, d>> \in paperFills /\ paper[j][d] = "filled"
    BY DEF Paper!PaperInv, Paper!HistoryHasNoHoles
  <2>2. CASE j # k
    BY <1>5, <2>1, <2>2
  <2>3. CASE j = k /\ mark[k] = 0
    <3>1. mark'[j] = c /\ first'[j] = c
      BY <1>4, <1>5, <1>2, <2>3
    <3>2. \A d \in c..c : d = c
      BY <1>2
    <3> QED BY <1>2, <1>3, <2>1, <2>3, <3>1, <3>2
  <2>4. CASE j = k /\ mark[k] # 0
    <3>1. mark'[j] = c /\ first'[j] = first[k] /\ c <= mark[k] + 1 /\ first[k] \in Nat
      BY <1>2, <1>3, <1>4, <1>5, <2>4, PaperCandlesAreInterval
    <3>2. \A d \in first[k]..c : d = c \/ d \in first[k]..mark[k]
      BY <1>2, <3>1
    <3>3. \A d \in first[k]..c : d \in PaperCandles /\ fate[k][d] \in Paper!Final
      BY <1>2, <1>3, <2>1, <2>4, <3>2
    <3> QED BY <1>2, <1>3, <2>1, <2>4, <3>1, <3>3
  <2> QED BY <2>2, <2>3, <2>4
<1>8. fate' \in [Paper!Keys -> [PaperCandles -> Paper!Status]]
  BY <1>1 DEF Paper!PaperInv, Paper!TypeOK
<1> QED BY <1>1, <1>5, <1>6, <1>7, <1>8, PaperNext

\* The time, the operator and the registry change nothing of a cycle.
LEMMA PaperEnvKeeps ==
  ASSUME Paper!PaperInv, UNCHANGED <<mark, first, fate, paper, paperFills, step>>,
         clock' \in PaperCandles, active' \in Sets, testing' \in SUBSET Sets
  PROVE  Paper!PaperInv'
<1>1. Paper!TypeOK'
  BY PaperTypes DEF Paper!PaperInv, Paper!TypeOK
<1>2. Paper!StepsInOrder'
  BY DEF Paper!PaperInv, Paper!StepsInOrder, Paper!Outcome, Paper!Key
<1>3. Paper!LaneIsContiguous'
  BY DEF Paper!PaperInv, Paper!LaneIsContiguous, Paper!Key
<1>4. (\A k \in Paper!Keys : first[k] = 0 <=> mark[k] = 0)'
  BY DEF Paper!PaperInv
<1>5. Paper!HistoryHasNoHoles'
  BY DEF Paper!PaperInv, Paper!HistoryHasNoHoles
<1> QED BY <1>1, <1>2, <1>3, <1>4, <1>5 DEF Paper!PaperInv

LEMMA PaperPolls ==
  ASSUME Paper!PaperInv, Paper!PollPaper \/ Paper!PollDual
  PROVE  Paper!PaperInv'
<1>0. /\ Paper!TypeOK /\ active \in Sets /\ testing \in SUBSET Sets /\ "lane" \in Paper!Working
      /\ Paper!Paper \in Paper!Keys /\ <<"ACTIVE", active>> \in Paper!Keys /\ <<"ACTIVE", active>> # Paper!Paper
  BY DEF Paper!PaperInv, Paper!TypeOK, Paper!Keys, Paper!Paper, Paper!Working
<1>1. CASE Paper!PollPaper
  <2> DEFINE c == Paper!NextCompleted(mark[Paper!Paper])
  <2>1. /\ c > 0 /\ step' = [at |-> "lane", c |-> c, key |-> Paper!Paper, todo |-> {}]
        /\ UNCHANGED <<mark, first, fate, paper, paperFills, clock, active, testing>>
    BY <1>1 DEF Paper!PollPaper, Paper!Last, Paper!env, Paper!durable, Paper!runtimeTables, Paper!executionTables
  <2>2. c \in PaperCandles /\ (mark[Paper!Paper] = 0 \/ c = mark[Paper!Paper] + 1)
    BY <1>0, <2>1, NextIsContiguous
  <2>3. mark[Paper!Paper] \in Nat
    BY <1>0, PaperCandlesAreInterval DEF Paper!TypeOK
  <2> HIDE DEF c
  <2>4. /\ step' \in Paper!LaneWork /\ step'.at = "lane" /\ step'.c = c
    BY <1>0, <2>1, <2>2 DEF Paper!LaneWork
  <2>5. mark[Paper!Paper] = 0 \/ step'.c <= mark[Paper!Paper] + 1
    BY <2>2, <2>3, <2>4
  <2> QED BY <2>1, <2>4, <2>5, PaperStarts
<1>2. CASE Paper!PollDual
  <2> DEFINE c == Paper!DualCandle
  <2>1. /\ c > 0 /\ step' = [at |-> "lane", c |-> c, key |-> <<"ACTIVE", active>>, todo |-> testing]
        /\ UNCHANGED <<mark, first, fate, paper, paperFills, clock, active, testing>>
    BY <1>2 DEF Paper!PollDual, Paper!env
  <2>2. c \in PaperCandles
    <3> DEFINE n == Paper!NextCompleted(mark[<<"ACTIVE", active>>])
    <3>1. c = IF n = 0 /\ Paper!Candidates # {} THEN Paper!Newest(Paper!Candidates) ELSE n
      BY DEF Paper!DualCandle, Paper!Last
    <3>2. n > 0 => n \in PaperCandles
      BY <1>0, NextIsContiguous
    <3>3. Paper!Candidates \in SUBSET PaperCandles
      BY DEF Paper!Candidates
    <3>4. Paper!Candidates # {} => Paper!Newest(Paper!Candidates) \in PaperCandles
      BY <3>3, PaperNewestIsLast
    <3> HIDE DEF n, c
    <3> QED BY <2>1, <3>1, <3>2, <3>4
  <2> HIDE DEF c
  <2>4. /\ step' \in Paper!LaneWork /\ step'.at = "lane" /\ step'.key # Paper!Paper
    BY <1>0, <2>1, <2>2 DEF Paper!LaneWork
  <2> QED BY <2>1, <2>4, PaperStarts
<1> QED BY <1>1, <1>2

\* A lane that does not leave the candle alone is contiguous with it.
LEMMA NotLeft ==
  ASSUME Paper!PaperInv, step.at = "lane", ~Paper!Leaves(step.key, step.c)
  PROVE  mark[step.key] = 0 \/ step.c <= mark[step.key] + 1
<1>1. step.at \in Paper!Working
  BY DEF Paper!Working
<1>2. step.c \in Nat /\ mark[step.key] \in Nat
  BY <1>1, AtPaperLane
<1>3. CASE step.key = Paper!Paper
  BY <1>1, <1>3 DEF Paper!PaperInv, Paper!LaneIsContiguous, Paper!Key
<1>4. CASE step.key # Paper!Paper
  <2>1. ~(mark[step.key] # 0 /\ step.c > mark[step.key] + 1)
    BY <1>4 DEF Paper!Leaves, Paper!Last
  <2> QED BY <1>2, <2>1
<1> QED BY <1>3, <1>4

\* Beyond the lane's entry the candle is contiguous and, until it is
\* checkpointed, undecided.
LEMMA BeingDecided ==
  ASSUME Paper!PaperInv, step.at \in Paper!Undecided
  PROVE  /\ step.at \in Paper!Working
         /\ mark[step.key] = 0 \/ step.c <= mark[step.key] + 1
         /\ fate[step.key][step.c] \notin Paper!Final
BY DEF Paper!PaperInv, Paper!LaneIsContiguous, Paper!StepsInOrder, Paper!Undecided, Paper!Working, Paper!Key,
       Paper!Outcome

LEMMA PaperDecides ==
  ASSUME Paper!PaperInv,
         \/ Paper!NoSignal \/ Paper!NoIntent \/ Paper!RiskRejected \/ Paper!TestRecorded
         \/ Paper!OperatorPaused \/ Paper!Completed \/ Paper!EvaluateRisk
  PROVE  Paper!PaperInv'
<1>1. /\ step.at \in Paper!Undecided
      /\ UNCHANGED <<mark, first, paper, paperFills, clock, active, testing>>
  BY DEF Paper!NoSignal, Paper!NoIntent, Paper!RiskRejected, Paper!TestRecorded, Paper!OperatorPaused,
         Paper!Completed, Paper!EvaluateRisk, Paper!Undecided, Paper!env
<1>2. /\ step.at \in Paper!Working
      /\ mark[step.key] = 0 \/ step.c <= mark[step.key] + 1
      /\ fate[step.key][step.c] \notin Paper!Final
  BY <1>1, BeingDecided
<1>3. CASE Paper!EvaluateRisk
  <2>1. PICK a \in {"rejected", "approved"} : step' = [step EXCEPT !.at = a]
    BY <1>3 DEF Paper!EvaluateRisk
  <2>2. /\ fate' = [fate EXCEPT ![step.key][step.c] = "risk_recorded"] /\ "risk_recorded" \in Paper!Status
        /\ "risk_recorded" \notin Paper!Final /\ a \in Paper!Working \ {"lane", "fill", "filled"} /\ a # "checkpoint"
    BY <1>3 DEF Paper!EvaluateRisk, Paper!Save, Paper!Key, Paper!Status, Paper!Final, Paper!Working, Paper!Undecided
  <2> QED BY <1>1, <1>2, <2>1, <2>2, PaperSaves
<1>4. CASE Paper!Completed
  <2>1. /\ fate' = [fate EXCEPT ![step.key][step.c] = "completed"] /\ step' = [step EXCEPT !.at = "checkpoint"]
        /\ step.at = "filled"
    BY <1>4 DEF Paper!Completed, Paper!Save, Paper!Key
  <2>2. <<step.key, step.c>> \in paperFills /\ paper[step.key][step.c] = "filled"
    BY <2>1 DEF Paper!PaperInv, Paper!StepsInOrder, Paper!Key
  <2>3. "completed" \in Paper!Status /\ "completed" \in Paper!Final /\ "checkpoint" \in Paper!Working \ {"lane", "fill", "filled"}
    BY DEF Paper!Status, Paper!Final, Paper!Working
  <2> QED BY <1>1, <1>2, <2>1, <2>2, <2>3, PaperSaves
<1>5. CASE \/ Paper!NoSignal \/ Paper!NoIntent \/ Paper!RiskRejected \/ Paper!TestRecorded
           \/ Paper!OperatorPaused
  <2>1. \E s \in Paper!Final \ {"completed"} : fate' = [fate EXCEPT ![step.key][step.c] = s]
    BY <1>5 DEF Paper!NoSignal, Paper!NoIntent, Paper!RiskRejected, Paper!TestRecorded, Paper!OperatorPaused,
         Paper!Save, Paper!Key, Paper!Final
  <2>2. step' = [step EXCEPT !.at = "checkpoint"]
    BY <1>5 DEF Paper!NoSignal, Paper!NoIntent, Paper!RiskRejected, Paper!TestRecorded, Paper!OperatorPaused
  <2>3. PICK s \in Paper!Final \ {"completed"} : fate' = [fate EXCEPT ![step.key][step.c] = s]
    BY <2>1
  <2>4. s \in Paper!Status /\ s # "completed" /\ "checkpoint" \in Paper!Working \ {"lane", "fill", "filled"}
    BY DEF Paper!Status, Paper!Working
  <2> QED BY <1>1, <1>2, <2>2, <2>3, <2>4, PaperSaves
<1> QED BY <1>3, <1>4, <1>5

LEMMA PaperTrades ==
  ASSUME Paper!PaperInv,
         \/ Paper!Reserve \/ Paper!Submitting \/ Paper!CreateOrder \/ Paper!SaveFill \/ Paper!Reconciled
  PROVE  Paper!PaperInv'
<1>1. /\ step.at \in Paper!Undecided
      /\ UNCHANGED <<mark, first, fate, clock, active, testing>>
  BY DEF Paper!Reserve, Paper!Submitting, Paper!CreateOrder, Paper!SaveFill, Paper!Reconciled, Paper!Undecided,
         Paper!env
<1>2. CASE Paper!Reserve \/ Paper!Submitting \/ Paper!CreateOrder
  <2>1. \E e \in {"created", "submitting", "submitted"} : paper' = [paper EXCEPT ![step.key][step.c] = e]
    BY <1>2 DEF Paper!Reserve, Paper!Submitting, Paper!CreateOrder, Paper!Update, Paper!Key
  <2>2. \E a \in {"reserved", "create", "reconcile"} : step' = [step EXCEPT !.at = a]
    BY <1>2 DEF Paper!Reserve, Paper!Submitting, Paper!CreateOrder
  <2>3. UNCHANGED paperFills
    BY <1>2 DEF Paper!Reserve, Paper!Submitting, Paper!CreateOrder
  <2>4. PICK e \in {"created", "submitting", "submitted"} : paper' = [paper EXCEPT ![step.key][step.c] = e]
    BY <2>1
  <2>5. PICK a \in {"reserved", "create", "reconcile"} : step' = [step EXCEPT !.at = a]
    BY <2>2
  <2>6. a \in Paper!Undecided /\ a \notin {"fill", "filled"} /\ paperFills \subseteq paperFills'
    BY <2>3 DEF Paper!Undecided
  <2> QED BY <1>1, <2>4, <2>5, <2>6, PaperExecutes
<1>3. CASE Paper!SaveFill
  <2>1. /\ UNCHANGED paper /\ step' = [step EXCEPT !.at = "fill"] /\ paperFills \subseteq paperFills'
        /\ <<step.key, step.c>> \in paperFills' /\ "fill" \in Paper!Undecided
    BY <1>3 DEF Paper!SaveFill, Paper!RecordFill, Paper!Key, Paper!Undecided
  <2> QED BY <1>1, <2>1, PaperExecutes
<1>4. CASE Paper!Reconciled
  <2>1. /\ step.at = "fill" /\ paper' = [paper EXCEPT ![step.key][step.c] = "filled"]
        /\ step' = [step EXCEPT !.at = "filled"] /\ UNCHANGED paperFills /\ "filled" \in Paper!Undecided
    BY <1>4 DEF Paper!Reconciled, Paper!Update, Paper!Key, Paper!Undecided
  <2>2. <<step.key, step.c>> \in paperFills
    BY <2>1 DEF Paper!PaperInv, Paper!StepsInOrder, Paper!Key
  <2> QED BY <1>1, <2>1, <2>2, PaperExecutes
<1> QED BY <1>2, <1>3, <1>4

LEMMA PaperEnters ==
  ASSUME Paper!PaperInv, Paper!AlreadyDurable \/ Paper!EvaluateTrigger \/ Paper!Resume
  PROVE  Paper!PaperInv'
<1>1. UNCHANGED <<mark, first, paper, paperFills, clock, active, testing>>
  BY DEF Paper!AlreadyDurable, Paper!EvaluateTrigger, Paper!Resume, Paper!env, Paper!durable, Paper!runtimeTables,
         Paper!executionTables
<1>2. CASE Paper!AlreadyDurable
  <2>1. /\ step.at = "lane" /\ ~Paper!Leaves(step.key, step.c) /\ fate[step.key][step.c] \in Paper!Final
        /\ step' = [step EXCEPT !.at = "checkpoint"] /\ UNCHANGED fate /\ step.at \in Paper!Working
        /\ "checkpoint" \in Paper!Working \ {"lane", "fill", "filled"}
    BY <1>2 DEF Paper!AlreadyDurable, Paper!Outcome, Paper!Key, Paper!durable, Paper!runtimeTables, Paper!Working
  <2>2. mark[step.key] = 0 \/ step.c <= mark[step.key] + 1
    BY <2>1, NotLeft
  <2> QED BY <1>1, <2>1, <2>2, PaperTurns
<1>3. CASE Paper!EvaluateTrigger
  <2>1. /\ step.at = "lane" /\ ~Paper!Leaves(step.key, step.c) /\ fate[step.key][step.c] \notin Paper!Final
        /\ fate' = [fate EXCEPT ![step.key][step.c] = "trigger_evaluated"] /\ step.at \in Paper!Working
        /\ "trigger_evaluated" \in Paper!Status /\ "trigger_evaluated" \notin Paper!Final
    BY <1>3 DEF Paper!EvaluateTrigger, Paper!Outcome, Paper!Key, Paper!Save, Paper!Working, Paper!Status, Paper!Final
  <2>2. PICK a \in {"signal", "nosignal"} : step' = [step EXCEPT !.at = a]
    BY <1>3 DEF Paper!EvaluateTrigger
  <2>3. a \in Paper!Working \ {"lane", "fill", "filled"} /\ a # "checkpoint"
    BY DEF Paper!Working, Paper!Undecided
  <2>4. mark[step.key] = 0 \/ step.c <= mark[step.key] + 1
    BY <2>1, NotLeft
  <2> QED BY <1>1, <2>1, <2>2, <2>3, <2>4, PaperSaves
<1>4. CASE Paper!Resume
  <2>1. /\ step.at \in Paper!Undecided /\ step' = [step EXCEPT !.at = "reconcile"] /\ UNCHANGED fate
        /\ "reconcile" \in Paper!Working \ {"lane", "fill", "filled"}
    BY <1>4 DEF Paper!Resume, Paper!Undecided, Paper!Working, Paper!durable, Paper!runtimeTables
  <2> QED BY <1>1, <2>1, BeingDecided, PaperTurns
<1> QED BY <1>2, <1>3, <1>4

LEMMA PaperLeaves ==
  ASSUME Paper!PaperInv, Paper!SkipLane \/ Paper!ExecutionError
  PROVE  Paper!PaperInv'
<1>0. /\ mark \in [Paper!Keys -> PaperCandles \cup {0}] /\ first \in [Paper!Keys -> PaperCandles \cup {0}]
      /\ fate \in [Paper!Keys -> [PaperCandles -> Paper!Status]]
  BY DEF Paper!PaperInv, Paper!TypeOK
<1>1. CASE Paper!SkipLane
  <2>1. /\ step.at \in Paper!Working /\ Paper!NextLane
        /\ UNCHANGED <<mark, first, fate, paper, paperFills, clock, active, testing>>
    BY <1>1 DEF Paper!SkipLane, Paper!env, Paper!durable, Paper!runtimeTables, Paper!executionTables, Paper!Working
  <2>2. (\A k \in Paper!Keys : first[k] = 0 <=> mark[k] = 0)'
    BY <2>1 DEF Paper!PaperInv
  <2>3. Paper!HistoryHasNoHoles'
    BY <2>1 DEF Paper!PaperInv, Paper!HistoryHasNoHoles
  <2> QED BY <1>0, <2>1, <2>2, <2>3, PaperNext
<1>2. CASE Paper!ExecutionError
  <2>1. /\ step.at \in Paper!Undecided /\ Paper!NextLane
        /\ fate' = [fate EXCEPT ![step.key][step.c] = "execution_error"]
        /\ UNCHANGED <<mark, first, paper, paperFills, clock, active, testing>>
        /\ "execution_error" \in Paper!Status
    BY <1>2 DEF Paper!ExecutionError, Paper!env, Paper!Undecided, Paper!Save, Paper!Key, Paper!Status
  <2>2. step.at \in Paper!Working /\ fate[step.key][step.c] \notin Paper!Final
    BY <2>1, BeingDecided
  <2>3. step.key \in Paper!Keys /\ step.c \in PaperCandles
    BY <2>2, AtPaperLane
  <2>4. /\ fate' \in [Paper!Keys -> [PaperCandles -> Paper!Status]]
        /\ (\A j \in Paper!Keys : first[j] = 0 <=> mark[j] = 0)'
        /\ Paper!HistoryHasNoHoles'
    BY <2>1, <2>2, <2>3, SavedRow
  <2> QED BY <1>0, <2>1, <2>2, <2>4, PaperNext
<1> QED BY <1>1, <1>2

LEMMA PaperStart ==
  ASSUME Paper!Init
  PROVE  Paper!PaperInv
<1>1. Paper!TypeOK
  BY PaperCandlesAreInterval DEF Paper!Init, Paper!TypeOK, Paper!Status
<1>2. step.at \notin Paper!Working /\ step.at \notin Paper!Undecided /\ step.at \notin {"fill", "filled", "checkpoint"}
  BY DEF Paper!Init, Paper!Idle, Paper!Working, Paper!Undecided
<1>3. Paper!LaneIsContiguous /\ Paper!StepsInOrder
  BY <1>2 DEF Paper!LaneIsContiguous, Paper!StepsInOrder
<1>4. \A k \in Paper!Keys : mark[k] = 0 /\ first[k] = 0 /\ \A c \in PaperCandles : fate[k][c] = "none"
  BY DEF Paper!Init
<1>5. Paper!HistoryHasNoHoles
  BY <1>4 DEF Paper!HistoryHasNoHoles
<1> QED BY <1>1, <1>3, <1>4, <1>5 DEF Paper!PaperInv

LEMMA PaperStep ==
  ASSUME Paper!PaperInv, [Paper!Next]_(Paper!vars)
  PROVE  Paper!PaperInv'
<1>0. clock \in PaperCandles /\ active \in Sets /\ testing \in SUBSET Sets
  BY DEF Paper!PaperInv, Paper!TypeOK
<1>1. CASE UNCHANGED (Paper!vars)
  BY <1>0, <1>1, PaperEnvKeeps DEF Paper!vars, Paper!env, Paper!durable, Paper!runtimeTables, Paper!executionTables
<1>2. CASE Paper!Tick \/ Paper!Toggle
  <2>1. UNCHANGED <<mark, first, fate, paper, paperFills, step, active, testing>> /\ clock' \in PaperCandles
    BY <1>0, <1>2 DEF Paper!Tick, Paper!Toggle, Paper!durable, Paper!runtimeTables, Paper!executionTables
  <2> QED BY <1>0, <2>1, PaperEnvKeeps
<1>3. CASE \E s \in Sets : Paper!CreateSet(s) \/ Paper!Promote(s)
  <2>1. UNCHANGED <<mark, first, fate, paper, paperFills, step, clock>> /\ active' \in Sets /\ testing' \in SUBSET Sets
    BY <1>0, <1>3 DEF Paper!CreateSet, Paper!Promote, Paper!durable, Paper!runtimeTables, Paper!executionTables
  <2> QED BY <1>0, <2>1, PaperEnvKeeps
<1>4. CASE Paper!RegimeConflict \/ Paper!Die
  <2>1. /\ UNCHANGED <<mark, first, fate, paper, paperFills, clock, active, testing>>
        /\ step' = Paper!Idle \/ step' = [at |-> "dead"]
    BY <1>4 DEF Paper!RegimeConflict, Paper!Die, Paper!env, Paper!durable, Paper!runtimeTables, Paper!executionTables
  <2> QED BY <1>0, <2>1, PaperRests
<1> QED BY <1>1, <1>2, <1>3, <1>4, PaperPolls, PaperLeaves, PaperEnters, PaperDecides, PaperTrades,
           PaperCheckpointKeeps DEF Paper!Next

-----------------------------------------------------------------------------
(* The books.                                                              *)

\* A whole quotient.
LEMMA WholeQuotient ==
  ASSUME NEW a \in Int, NEW b \in Nat \ {0}
  PROVE  /\ a \div b \in Int
         /\ a % b = 0 => (a \div b) * b = a
<1> DEFINE k == a \div b
<1>1. k \in Int /\ a = b * k + (a % b) /\ a % b \in Int
  OBVIOUS
<1> QED BY <1>1

\* A product divided by a factor.
LEMMA QuotientOfProduct ==
  ASSUME NEW c \in Int, NEW b \in Nat \ {0}
  PROVE  (c * b) \div b = c
<1> DEFINE k == (c * b) \div b
           r == (c * b) % b
<1>1. k \in Int /\ c * b = b * k + r /\ r \in 0..(b - 1)
  OBVIOUS
<1> HIDE DEF k, r
<1>2. b * (c - k) = r /\ c - k \in Int
  BY <1>1
<1>3. CASE c - k >= 1
  BY <1>1, <1>2, <1>3
<1>4. CASE c - k <= -1
  BY <1>1, <1>2, <1>4
<1>5. c - k = 0
  BY <1>2, <1>3, <1>4, <1>1
<1> QED BY <1>1, <1>5 DEF k

\* A product leaves no remainder.
LEMMA ProductIsMultiple ==
  ASSUME NEW b \in Nat \ {0}, NEW c \in Int
  PROVE  (b * c) % b = 0
<1> DEFINE k == (b * c) \div b
           r == (b * c) % b
<1>1. k = c
  <2>1. b * c = c * b
    OBVIOUS
  <2> QED BY <2>1, QuotientOfProduct
<1>2. b * c = b * k + r /\ r \in Int
  OBVIOUS
<1> QED BY <1>1, <1>2

\* The instance's sum is the sum.
LEMMA BooksSumIsSum ==
  ASSUME NEW h, NEW S
  PROVE  Books!SumFunctionOnSet(h, S) = SumFunctionOnSet(h, S)
BY DEF Books!SumFunctionOnSet, Books!FoldFunctionOnSet, Books!MapThenFoldSet,
     SumFunctionOnSet, FoldFunctionOnSet, MapThenFoldSet

\* So are finiteness and cardinality.
LEMMA BooksSetIsFinite ==
  ASSUME NEW S
  PROVE  (Books!IsFiniteSet(S) <=> IsFiniteSet(S)) /\ Books!Cardinality(S) = Cardinality(S)
BY DEF Books!IsFiniteSet, Books!Cardinality, IsFiniteSet, Cardinality

\* Fills with quantities, prices and fees that can be added.
Priced(X) == IsFiniteSet(X) /\ \A f \in X : f.q \in Nat \ {0} /\ f.p \in Int /\ f.fee \in Int
CashOf(X) == SumFunctionOnSet([f \in X |-> Books!Cash(f)], X)

\* Their sums are integers, and the quantity of some fills is positive.
LEMMA SumsAreIntegers ==
  ASSUME NEW X, Priced(X)
  PROVE  /\ Books!Qty(X) \in Int /\ Books!Notional(X) \in Int /\ Books!Fees(X) \in Int /\ CashOf(X) \in Int
         /\ X # {} => Books!Qty(X) > 0
         /\ [f \in X |-> f.q * f.p] \in [X -> Int] /\ [f \in X |-> f.fee] \in [X -> Int]
         /\ [f \in X |-> Books!Cash(f)] \in [X -> Int]
<1> DEFINE q == [f \in X |-> f.q]
           n == [f \in X |-> f.q * f.p]
           e == [f \in X |-> f.fee]
           c == [f \in X |-> Books!Cash(f)]
<1>1. IsFiniteSet(X) /\ X \in SUBSET X
  BY DEF Priced
<1>2. q \in [X -> Int] /\ e \in [X -> Int] /\ \A f \in X : q[f] > 0
  BY DEF Priced
<1>3. ASSUME NEW f \in X PROVE f.q * f.p \in Int /\ Books!Cash(f) \in Int
  <2>1. f.q \in Int /\ f.p \in Int /\ f.fee \in Int
    BY DEF Priced
  <2>2. f.q * f.p \in Int /\ (- f.q) * f.p \in Int /\ - f.q * f.p \in Int
    BY <2>1
  <2> QED BY <2>1, <2>2 DEF Books!Cash
<1>4. n \in [X -> Int] /\ c \in [X -> Int]
  BY <1>3
<1>8. /\ Books!Qty(X) = SumFunctionOnSet(q, X) /\ Books!Notional(X) = SumFunctionOnSet(n, X)
      /\ Books!Fees(X) = SumFunctionOnSet(e, X) /\ CashOf(X) = SumFunctionOnSet(c, X)
  BY BooksSumIsSum, Zenon DEF Books!Qty, Books!Notional, Books!Fees, CashOf
<1> HIDE DEF q, n, e, c
<1>5. SumFunctionOnSet(q, X) \in Int /\ SumFunctionOnSet(e, X) \in Int
  BY <1>1, <1>2, SumIsInteger
<1>6. SumFunctionOnSet(n, X) \in Int /\ SumFunctionOnSet(c, X) \in Int
  BY <1>1, <1>4, SumIsInteger
<1>7. X # {} => SumFunctionOnSet(q, X) > 0
  BY <1>1, <1>2, SumIsPositive
<1>9. /\ Books!Qty(X) \in Int /\ Books!Notional(X) \in Int /\ Books!Fees(X) \in Int /\ CashOf(X) \in Int
      /\ X # {} => Books!Qty(X) > 0
  BY <1>5, <1>6, <1>7, <1>8
<1> QED BY <1>2, <1>4, <1>9 DEF n, e, c

\* Sales bring in their price and pay fees.
LEMMA CashOfSales ==
  ASSUME NEW X, Priced(X), \A f \in X : ~((f.direction = "LONG") = f.open)
  PROVE  CashOf(X) = Books!Notional(X) - Books!Fees(X)
<1> DEFINE n == [f \in X |-> f.q * f.p]
           e == [f \in X |-> f.fee]
           c == [f \in X |-> Books!Cash(f)]
<1>1. n \in [X -> Int] /\ e \in [X -> Int] /\ c \in [X -> Int] /\ IsFiniteSet(X)
  BY SumsAreIntegers DEF Priced
<1>2. ASSUME NEW f \in X PROVE n[f] = c[f] + e[f]
  <2>1. Books!Cash(f) = f.q * f.p - f.fee
    BY DEF Books!Cash
  <2>2. f.q * f.p \in Int /\ f.fee \in Int
    BY <1>1
  <2> QED BY <2>1, <2>2
<1>8. /\ Books!Notional(X) = SumFunctionOnSet(n, X) /\ Books!Fees(X) = SumFunctionOnSet(e, X)
      /\ CashOf(X) = SumFunctionOnSet(c, X)
  BY BooksSumIsSum, Zenon DEF Books!Notional, Books!Fees, CashOf
<1> HIDE DEF n, e, c
<1>3. n = [f \in X |-> c[f] + e[f]]
  BY <1>1, <1>2
<1>4. SumFunctionOnSet([f \in X |-> c[f] + e[f]], X) = SumFunctionOnSet(c, X) + SumFunctionOnSet(e, X)
  BY <1>1, SumOfSums
<1>5. SumFunctionOnSet(n, X) = SumFunctionOnSet(c, X) + SumFunctionOnSet(e, X)
  BY <1>3, <1>4
<1>6. Books!Notional(X) = CashOf(X) + Books!Fees(X)
  BY <1>5, <1>8
<1> QED BY <1>6, SumsAreIntegers

\* Purchases cost their price and pay fees.
LEMMA CashOfPurchases ==
  ASSUME NEW X, Priced(X), \A f \in X : (f.direction = "LONG") = f.open
  PROVE  CashOf(X) = - Books!Notional(X) - Books!Fees(X)
<1> DEFINE n == [f \in X |-> f.q * f.p]
           e == [f \in X |-> f.fee]
           c == [f \in X |-> Books!Cash(f)]
           m == [f \in X |-> c[f] + e[f]]
           z == [f \in X |-> n[f] + m[f]]
<1>1. n \in [X -> Int] /\ e \in [X -> Int] /\ c \in [X -> Int] /\ IsFiniteSet(X)
  BY SumsAreIntegers DEF Priced
<1>2. ASSUME NEW f \in X PROVE n[f] + (c[f] + e[f]) = 0
  <2>1. f.q \in Int /\ f.p \in Int /\ f.fee \in Int
    BY DEF Priced
  <2>2. Books!Cash(f) = - f.q * f.p - f.fee
    BY DEF Books!Cash
  <2>3. f.q * f.p + ((- f.q * f.p - f.fee) + f.fee) = 0
    BY <2>1
  <2> QED BY <2>2, <2>3
<1>8. /\ Books!Notional(X) = SumFunctionOnSet(n, X) /\ Books!Fees(X) = SumFunctionOnSet(e, X)
      /\ CashOf(X) = SumFunctionOnSet(c, X)
  BY BooksSumIsSum, Zenon DEF Books!Notional, Books!Fees, CashOf
<1> HIDE DEF n, e, c
<1>3. m \in [X -> Int] /\ z \in [X -> Int] /\ \A f \in X : z[f] = 0
  BY <1>1, <1>2
<1>4. SumFunctionOnSet(m, X) = SumFunctionOnSet(c, X) + SumFunctionOnSet(e, X)
  BY <1>1, SumOfSums
<1> HIDE DEF m
<1>5. SumFunctionOnSet(z, X) = SumFunctionOnSet(n, X) + SumFunctionOnSet(m, X)
  BY <1>1, <1>3, SumOfSums
<1> HIDE DEF z
<1>6. SumFunctionOnSet(z, X) = 0
  BY <1>1, <1>3, SumOfZeros
<1>7. 0 = Books!Notional(X) + (CashOf(X) + Books!Fees(X))
  BY <1>4, <1>5, <1>6, <1>8
<1> QED BY <1>7, SumsAreIntegers

\* When the entries and the exits of a trade have one quantity and an average
\* that is whole, the result is the cash of its fills.
LEMMA CloseIsCash ==
  ASSUME NEW F, Priced(F), \A f \in F : f.open \in BOOLEAN,
         Books!Opens(F) # {}, Books!Exits(F) # {},
         \/ Books!CloseFuturesTrade(F) # Nil
         \/ Cardinality({<<f.direction, f.source>> : f \in F}) = 1 /\ ~\E f \in F : f.fee < 0,
         Books!Qty(Books!Opens(F)) = Books!Qty(Books!Exits(F)),
         Books!Notional(Books!Opens(F)) % Books!Qty(Books!Opens(F)) = 0,
         Books!Notional(Books!Exits(F)) % Books!Qty(Books!Exits(F)) = 0
  PROVE  Books!CloseFuturesTrade(F).net = CashOf(F)
<1> DEFINE in == Books!Opens(F)
           out == Books!Exits(F)
           d == (CHOOSE f \in in : TRUE).direction
           q == Books!Qty(in)
           a == Books!ComputeVwap(in)
           b == Books!ComputeVwap(out)
           entryFee == (Books!Fees(in) * Books!Qty(out)) \div Books!Qty(in)
<1>1. /\ in \subseteq F /\ out \subseteq F /\ F = in \cup out /\ in \cap out = {}
      /\ \A f \in in : f.open = TRUE
      /\ \A f \in out : f.open = FALSE
  BY DEF Books!Opens, Books!Exits
<1>2. Priced(in) /\ Priced(out)
  BY <1>1, FS_Subset DEF Priced
<1>3. /\ Cardinality({<<f.direction, f.source>> : f \in F}) = 1
      /\ Books!CloseFuturesTrade(F).net = Books!GrossPnl(d, Books!Qty(out), a, b) - entryFee - Books!Fees(out)
  <2> DEFINE raises == \/ Cardinality({<<f.direction, f.source>> : f \in F}) # 1
                       \/ Books!Qty(out) > Books!Qty(in)
                       \/ \E f \in F : f.fee < 0
             result == [quantity |-> Books!Qty(out), source |-> (CHOOSE f \in F : TRUE).source,
                        closedAt |-> Books!Max({f.at : f \in out}),
                        net |-> Books!GrossPnl(d, Books!Qty(out), a, b) - entryFee - Books!Fees(out)]
  <2>1. Books!CloseFuturesTrade(F) = IF raises THEN Nil ELSE result
    BY BooksSetIsFinite, Zenon DEF Books!CloseFuturesTrade
  <2>2. result.net = Books!GrossPnl(d, Books!Qty(out), a, b) - entryFee - Books!Fees(out)
    OBVIOUS
  <2> HIDE DEF result
  <2>3. ~(Books!Qty(out) > Books!Qty(in))
    <3>1. Books!Qty(in) \in Int
      BY <1>2, SumsAreIntegers
    <3> QED BY <3>1
  <2>4. ~raises
    BY <2>1, <2>3
  <2>5. Books!CloseFuturesTrade(F) = result
    BY <2>1, <2>4
  <2> QED BY <2>2, <2>4, <2>5
<1>4. \A f \in F : f.direction = d
  <2> DEFINE g == [f \in F |-> <<f.direction, f.source>>]
             G == {g[f] : f \in F}
  <2>1. IsFiniteSet(G)
    <3>1. IsFiniteSet(F)
      BY DEF Priced
    <3> HIDE DEF g
    <3> QED BY <3>1, ImageIsFinite
  <2>2. {<<f.direction, f.source>> : f \in F} = G
    OBVIOUS
  <2>3. PICK x : G = {x}
    BY <1>3, <2>1, <2>2, FS_Singleton
  <2>4. \A f, e \in F : f.direction = e.direction
    <3> SUFFICES ASSUME NEW f \in F, NEW e \in F PROVE f.direction = e.direction
      OBVIOUS
    <3>1. <<f.direction, f.source>> = <<e.direction, e.source>>
      BY <2>3
    <3> QED BY <3>1
  <2>5. (CHOOSE f \in in : TRUE) \in F
    BY <1>1
  <2> QED BY <2>4, <2>5
<1>5. q \in Nat \ {0} /\ Books!Qty(out) = q
  BY <1>2, SumsAreIntegers
<1>6. a * q = Books!Notional(in) /\ a \in Int
  <2>1. Books!Notional(in) \in Int
    BY <1>2, SumsAreIntegers
  <2> QED BY <1>5, <2>1, WholeQuotient DEF Books!ComputeVwap
<1>7. b * q = Books!Notional(out) /\ b \in Int
  <2>1. Books!Notional(out) \in Int
    BY <1>2, SumsAreIntegers
  <2> QED BY <1>5, <2>1, WholeQuotient DEF Books!ComputeVwap
<1>8. entryFee = Books!Fees(in)
  <2>1. Books!Fees(in) \in Int
    BY <1>2, SumsAreIntegers
  <2> QED BY <1>5, <2>1, QuotientOfProduct
<1>9. CashOf(F) = CashOf(in) + CashOf(out)
  <2> DEFINE c == [f \in F |-> Books!Cash(f)]
             ci == [f \in in |-> Books!Cash(f)]
             co == [f \in out |-> Books!Cash(f)]
  <2>1. c \in [F -> Int] /\ ci \in [in -> Int] /\ co \in [out -> Int]
    BY <1>2, SumsAreIntegers
  <2>2. (\A f \in in : c[f] = ci[f]) /\ (\A f \in out : c[f] = co[f])
    BY <1>1
  <2>3. IsFiniteSet(in) /\ IsFiniteSet(out)
    BY <1>2 DEF Priced
  <2>4. /\ CashOf(F) = SumFunctionOnSet(c, F) /\ CashOf(in) = SumFunctionOnSet(ci, in)
        /\ CashOf(out) = SumFunctionOnSet(co, out)
    BY Zenon DEF CashOf
  <2> HIDE DEF c, ci, co, in, out
  <2>5. SumFunctionOnSet(c, in \cup out) = SumFunctionOnSet(c, in) + SumFunctionOnSet(c, out)
    BY <1>1, <2>1, <2>3, SumOfUnion
  <2>6. SumFunctionOnSet(c, in) = SumFunctionOnSet(ci, in)
    BY <1>1, <2>1, <2>2, <2>3, SumOfSame
  <2>7. SumFunctionOnSet(c, out) = SumFunctionOnSet(co, out)
    BY <1>1, <2>1, <2>2, <2>3, SumOfSame
  <2> QED BY <1>1, <2>4, <2>5, <2>6, <2>7
<1>10. /\ Books!Notional(in) \in Int /\ Books!Notional(out) \in Int
       /\ Books!Fees(in) \in Int /\ Books!Fees(out) \in Int
  BY <1>2, SumsAreIntegers
<1> HIDE DEF in, out, d, q, a, b, entryFee
<1>11. CASE d = "LONG"
  <2>1. Books!GrossPnl(d, q, a, b) = b * q - a * q
    BY <1>5, <1>6, <1>7, <1>11 DEF Books!GrossPnl
  <2>2. CashOf(in) = - Books!Notional(in) - Books!Fees(in)
    BY <1>1, <1>2, <1>4, <1>11, CashOfPurchases
  <2>3. CashOf(out) = Books!Notional(out) - Books!Fees(out)
    BY <1>1, <1>2, <1>4, <1>11, CashOfSales
  <2> QED BY <1>3, <1>5, <1>6, <1>7, <1>8, <1>9, <1>10, <2>1, <2>2, <2>3
<1>12. CASE d # "LONG"
  <2>1. Books!GrossPnl(d, q, a, b) = a * q - b * q
    BY <1>5, <1>6, <1>7, <1>12 DEF Books!GrossPnl
  <2>2. CashOf(in) = Books!Notional(in) - Books!Fees(in)
    BY <1>1, <1>2, <1>4, <1>12, CashOfSales
  <2>3. CashOf(out) = - Books!Notional(out) - Books!Fees(out)
    BY <1>1, <1>2, <1>4, <1>12, CashOfPurchases
  <2> QED BY <1>3, <1>5, <1>6, <1>7, <1>8, <1>9, <1>10, <2>1, <2>2, <2>3
<1> QED BY <1>11, <1>12

\* One fill's sums, and its average.
LEMMA SumsOfOne ==
  ASSUME NEW x, Priced({x})
  PROVE  /\ Books!Qty({x}) = x.q /\ Books!Notional({x}) = x.q * x.p
         /\ Books!Notional({x}) % Books!Qty({x}) = 0
<1> DEFINE X == {x}
           q == [f \in X |-> f.q]
           n == [f \in X |-> f.q * f.p]
<1>1. x.q \in Nat \ {0} /\ x.p \in Int /\ x.q * x.p \in Int
  BY DEF Priced
<1>2. q \in [X -> Int] /\ n \in [X -> Int] /\ q[x] = x.q /\ n[x] = x.q * x.p
  BY <1>1
<1>3. Books!Qty({x}) = SumFunctionOnSet(q, X) /\ Books!Notional({x}) = SumFunctionOnSet(n, X)
  BY BooksSumIsSum, Zenon DEF Books!Qty, Books!Notional
<1>4. IsFiniteSet(X) /\ X \in SUBSET X /\ x \in X /\ \A y \in X \ {x} : FALSE
  BY FS_Singleton
<1> HIDE DEF X, q, n
<1>5. SumFunctionOnSet(q, X) = x.q
  <2>1. \A y \in X \ {x} : q[y] = 0
    BY <1>4
  <2>2. SumFunctionOnSet(q, X) = IF x \in X THEN q[x] ELSE 0
    BY <1>2, <1>4, <2>1, SumOfOnlyOne
  <2> QED BY <1>2, <1>4, <2>2
<1>6. SumFunctionOnSet(n, X) = x.q * x.p
  <2>1. \A y \in X \ {x} : n[y] = 0
    BY <1>4
  <2>2. SumFunctionOnSet(n, X) = IF x \in X THEN n[x] ELSE 0
    BY <1>2, <1>4, <2>1, SumOfOnlyOne
  <2> QED BY <1>2, <1>4, <2>2
<1>7. (x.q * x.p) % x.q = 0
  BY <1>1, ProductIsMultiple
<1> QED BY <1>3, <1>5, <1>6, <1>7

\* Executions can be priced.
LEMMA ExecutionsArePriced ==
  ASSUME Books!ExecutedOnce, NEW X \in SUBSET executed
  PROVE  Priced(X) /\ \A e \in X : e.open \in BOOLEAN
<1>1. IsFiniteSet(X)
  BY BooksSetIsFinite, FS_Subset DEF Books!ExecutedOnce
<1>2. ASSUME NEW e \in X PROVE e.q \in Nat \ {0} /\ e.p \in Int /\ e.fee \in Int /\ e.open \in BOOLEAN
  <2>1. PICK x \in scenario.live : Books!Executes(e, x)
    BY DEF Books!ExecutedOnce
  <2>2. x.q \in Nat \ {0} /\ x.p \in Int /\ x.fee \in Int /\ x.open \in BOOLEAN
    BY BooksAssumption DEF Books!ExecutedOnce, Books!BooksConstants
  <2> QED BY <2>1, <2>2 DEF Books!Executes
<1> QED BY <1>1, <1>2 DEF Priced

\* Quantity and notional do not depend on what else a fill carries.
LEMMA ImageSums ==
  ASSUME NEW X, NEW Y, NEW g \in [X -> Y], \A e, f \in X : g[e] = g[f] => e = f,
         Y = {g[e] : e \in X}, Priced(X), Priced(Y), \A e \in X : g[e].q = e.q /\ g[e].p = e.p
  PROVE  Books!Qty(X) = Books!Qty(Y) /\ Books!Notional(X) = Books!Notional(Y)
<1>1. IsFiniteSet(X)
  BY DEF Priced
<1>2. \A w \in Y : \E x \in X : w = g[x]
  OBVIOUS
<1> DEFINE q == [f \in X |-> f.q]
           n == [f \in X |-> f.q * f.p]
           r == [f \in Y |-> f.q]
           o == [f \in Y |-> f.q * f.p]
<1>3. q \in [X -> Int] /\ n \in [X -> Int] /\ r \in [Y -> Int] /\ o \in [Y -> Int]
  BY SumsAreIntegers DEF Priced
<1>4. (\A e \in X : q[e] = r[g[e]]) /\ (\A e \in X : n[e] = o[g[e]])
  OBVIOUS
<1>5. /\ Books!Qty(X) = SumFunctionOnSet(q, X) /\ Books!Qty(Y) = SumFunctionOnSet(r, Y)
      /\ Books!Notional(X) = SumFunctionOnSet(n, X) /\ Books!Notional(Y) = SumFunctionOnSet(o, Y)
  BY BooksSumIsSum, Zenon DEF Books!Qty, Books!Notional
<1> HIDE DEF q, n, r, o
<1>6. SumFunctionOnSet(q, X) = SumFunctionOnSet(r, Y)
  BY <1>1, <1>2, <1>3, <1>4, SumOfImage
<1>7. SumFunctionOnSet(n, X) = SumFunctionOnSet(o, Y)
  BY <1>1, <1>2, <1>3, <1>4, SumOfImage
<1> QED BY <1>5, <1>6, <1>7

\* The average of executions of one side of a trade is whole.
LEMMA AverageIsWhole ==
  ASSUME Books!ExecutedOnce, NEW X \in SUBSET executed, X # {},
         \A e, f \in X : e.trade = f.trade /\ e.open = f.open
  PROVE  Books!Notional(X) % Books!Qty(X) = 0
<1> DEFINE g == [e \in X |-> CHOOSE x \in scenario.live : Books!Executes(e, x)]
           Y == {g[e] : e \in X}
<1>1. ASSUME NEW e \in X PROVE g[e] \in scenario.live /\ Books!Executes(e, g[e])
  <2>1. \E x \in scenario.live : Books!Executes(e, x)
    BY DEF Books!ExecutedOnce
  <2> QED BY <2>1
<1>2. g \in [X -> Y] /\ Y \in SUBSET scenario.live /\ Y # {}
  BY <1>1
<1> HIDE DEF g
<1>3. \A e, f \in X : g[e] = g[f] => e = f
  <2> SUFFICES ASSUME NEW e \in X, NEW f \in X, g[e] = g[f] PROVE e = f
    OBVIOUS
  <2>1. e.id = f.id
    BY <1>1 DEF Books!Executes
  <2> QED BY <2>1 DEF Books!ExecutedOnce
<1>4. \A x, y \in Y : x.trade = y.trade /\ x.open = y.open
  <2> SUFFICES ASSUME NEW e \in X, NEW f \in X PROVE g[e].trade = g[f].trade /\ g[e].open = g[f].open
    OBVIOUS
  <2> QED BY <1>1 DEF Books!Executes
<1> HIDE DEF Y
<1>5. Books!Notional(Y) % Books!Qty(Y) = 0
  BY <1>2, <1>4, BooksAssumption DEF Books!ExecutedOnce, Books!BooksConstants
<1>6. Priced(X) /\ Priced(Y)
  <2>1. Priced(X)
    BY ExecutionsArePriced
  <2>2. IsFiniteSet(Y)
    BY <2>1, ImageIsFinite DEF Priced, Y
  <2>3. \A y \in Y : y.q \in Nat \ {0} /\ y.p \in Int /\ y.fee \in Int
    BY <1>2, BooksAssumption DEF Books!ExecutedOnce, Books!BooksConstants
  <2> QED BY <2>1, <2>2, <2>3 DEF Priced
<1>7. \A e \in X : g[e].q = e.q /\ g[e].p = e.p
  BY <1>1 DEF Books!Executes
<1>8. Books!Qty(X) = Books!Qty(Y) /\ Books!Notional(X) = Books!Notional(Y)
  BY <1>2, <1>3, <1>6, <1>7, ImageSums DEF Y
<1> QED BY <1>5, <1>8

\* The largest element of a set that has one.
LEMMA MaxOf ==
  ASSUME NEW S \in SUBSET Int, NEW m \in S, \A y \in S : y <= m
  PROVE  Books!Max(S) = m
<1>1. \E x \in S : \A y \in S : x >= y
  OBVIOUS
<1>2. Books!Max(S) \in S /\ \A y \in S : Books!Max(S) >= y
  BY <1>1 DEF Books!Max
<1>3. Books!Max(S) \in Int /\ m \in Int /\ Books!Max(S) >= m /\ Books!Max(S) <= m
  BY <1>2
<1> QED BY <1>3

\* The larger of two.
LEMMA MaxOfTwo ==
  ASSUME NEW x \in Int, NEW y \in Int
  PROVE  /\ Books!Max({x, y}) \in Int /\ Books!Max({x, y}) >= x /\ Books!Max({x, y}) >= y
         /\ Books!Max({x, y}) = x \/ Books!Max({x, y}) = y
<1>1. CASE x >= y
  <2>1. Books!Max({x, y}) = x
    BY <1>1, MaxOf
  <2> QED BY <1>1, <2>1
<1>2. CASE ~(x >= y)
  <2>1. Books!Max({x, y}) = y
    BY <1>2, MaxOf
  <2> QED BY <1>2, <2>1
<1> QED BY <1>1, <1>2

\* The fields of a snapshot.
LEMMA SnapshotFields ==
  \A s \in Books!Snapshot : s.equity \in Int /\ s.peak \in Int /\ s.maxDrawdown \in Int
BY DEF Books!Snapshot

\* The snapshots' own peaks are the peaks of the history.
LEMMA PeaksAreExact ==
  ASSUME snapshots \in Seq(Books!Snapshot), Books!PeaksStand
  PROVE  Books!DrawdownIsExact
<1> DEFINE n == Len(snapshots)
           equities(i) == {snapshots[j].equity : j \in 1..i}
           peak(i) == Books!Max(equities(i))
           drawdowns == {peak(i) - snapshots[i].equity : i \in 1..n}
<1>1. n \in Nat /\ \A i \in 1..n : /\ snapshots[i].equity \in Int /\ snapshots[i].peak \in Int
                                   /\ snapshots[i].maxDrawdown \in Int
  <2>1. n \in Nat /\ \A i \in 1..n : snapshots[i] \in Books!Snapshot
    OBVIOUS
  <2> QED BY <2>1, SnapshotFields
<1>2. ASSUME NEW i \in 1..n PROVE peak(i) = snapshots[i].peak
  <2>1. equities(i) \in SUBSET Int /\ snapshots[i].peak \in equities(i)
    BY <1>1 DEF Books!PeaksStand
  <2>2. \A y \in equities(i) : y <= snapshots[i].peak
    BY DEF Books!PeaksStand
  <2> HIDE DEF equities
  <2> QED BY <2>1, <2>2, MaxOf
<1>3. ASSUME n > 0 PROVE snapshots[n].maxDrawdown = Books!Max(drawdowns)
  <2> HIDE DEF peak
  <2>1. n \in 1..n
    BY <1>1, <1>3
  <2>2. drawdowns \in SUBSET Int
    BY <1>1, <1>2
  <2>3. snapshots[n].maxDrawdown \in drawdowns
    BY <1>2, <2>1 DEF Books!PeaksStand
  <2>4. \A y \in drawdowns : y <= snapshots[n].maxDrawdown
    BY <1>2, <2>1 DEF Books!PeaksStand
  <2> HIDE DEF drawdowns
  <2> QED BY <2>2, <2>3, <2>4, MaxOf
<1>4. ASSUME n > 0 PROVE snapshots[n].peak = peak(n)
  BY <1>1, <1>2, <1>4
<1> QED BY <1>3, <1>4 DEF Books!DrawdownIsExact

\* A snapshot continues the peak and the drawdown of the one before.
LEMMA SnapshotKeeps ==
  ASSUME snapshots \in Seq(Books!Snapshot), Books!PeaksStand, equity \in Int, bookTime \in Int,
         Books!PersistAccountSnapshot
  PROVE  snapshots' \in Seq(Books!Snapshot) /\ Books!PeaksStand'
<1> DEFINE n == Len(snapshots)
           v == equity
           previous == IF snapshots = <<>> THEN Nil ELSE snapshots[n]
           s == Books!CalculateDrawdownSnapshot(v, previous)
<1>1. n \in Nat /\ \A i \in 1..n : /\ snapshots[i] \in Books!Snapshot /\ snapshots[i].equity \in Int
                                   /\ snapshots[i].peak \in Int /\ snapshots[i].maxDrawdown \in Int
  <2>1. n \in Nat /\ \A i \in 1..n : snapshots[i] \in Books!Snapshot
    OBVIOUS
  <2> QED BY <2>1, SnapshotFields
<1>2. snapshots' = Append(snapshots, s)
  BY DEF Books!PersistAccountSnapshot
<1>3. CASE n = 0
  <2>1. previous = Nil
    BY <1>3
  <2>2. Books!Max({0, v - v}) = 0
    BY MaxOf
  <2>3. s = [at |-> bookTime, equity |-> v, peak |-> v, maxDrawdown |-> 0]
    BY <2>1, <2>2 DEF Books!CalculateDrawdownSnapshot
  <2> HIDE DEF s
  <2>4. s \in Books!Snapshot /\ s.equity = v /\ s.peak = v /\ s.maxDrawdown = 0
    BY <2>3 DEF Books!Snapshot
  <2>5. snapshots' \in Seq(Books!Snapshot) /\ Len(snapshots') = 1 /\ snapshots'[1] = s
    BY <1>2, <1>3, <2>4
  <2> QED BY <2>4, <2>5 DEF Books!PeaksStand
<1>4. CASE n > 0
  <2> DEFINE p == snapshots[n]
             peak == Books!Max({v, p.peak})
             drop == Books!Max({p.maxDrawdown, peak - v})
  <2>1. p \in Books!Snapshot /\ previous = p /\ p # Nil /\ p.peak \in Int /\ p.maxDrawdown \in Int
    BY <1>1, <1>4, SnapshotFields, BooksAssumption DEF Books!BooksConstants
  <2>2. s = [at |-> bookTime, equity |-> v, peak |-> peak, maxDrawdown |-> drop]
    BY <2>1 DEF Books!CalculateDrawdownSnapshot
  <2>3. peak \in Int /\ peak >= v /\ peak >= p.peak /\ (peak = v \/ peak = p.peak)
    BY <2>1, MaxOfTwo
  <2> HIDE DEF peak
  <2>4. drop \in Int /\ drop >= p.maxDrawdown /\ drop >= peak - v /\ (drop = p.maxDrawdown \/ drop = peak - v)
    <3>1. peak - v \in Int
      BY <2>3
    <3> HIDE DEF p
    <3> QED BY <2>1, <3>1, MaxOfTwo
  <2> HIDE DEF drop, s
  <2>5. s \in Books!Snapshot /\ s.equity = v /\ s.peak = peak /\ s.maxDrawdown = drop
    BY <2>2, <2>3, <2>4 DEF Books!Snapshot
  <2>6. /\ snapshots' \in Seq(Books!Snapshot) /\ Len(snapshots') = n + 1 /\ snapshots'[n + 1] = s
        /\ \A i \in 1..n : snapshots'[i] = snapshots[i]
    BY <1>2, <2>5
  <2>7. ASSUME NEW i \in 1..n
        PROVE  /\ \A j \in 1..i : /\ snapshots'[j].equity <= snapshots'[i].peak
                                  /\ snapshots'[j].peak - snapshots'[j].equity <= snapshots'[i].maxDrawdown
               /\ \E j \in 1..i : snapshots'[i].peak = snapshots'[j].equity
               /\ \E j \in 1..i : snapshots'[i].maxDrawdown = snapshots'[j].peak - snapshots'[j].equity
    <3>1. \A j \in 1..i : j \in 1..n /\ snapshots'[j] = snapshots[j]
      BY <1>1, <2>6
    <3> QED BY <2>6, <3>1 DEF Books!PeaksStand
  <2>8. /\ \A j \in 1..n : /\ snapshots[j].equity <= p.peak
                           /\ snapshots[j].peak - snapshots[j].equity <= p.maxDrawdown
        /\ \E j \in 1..n : p.peak = snapshots[j].equity
        /\ \E j \in 1..n : p.maxDrawdown = snapshots[j].peak - snapshots[j].equity
    <3>1. n \in 1..n
      BY <1>1, <1>4
    <3> QED BY <3>1 DEF Books!PeaksStand
  <2> HIDE DEF p
  <2>9. \A j \in 1..(n + 1) : /\ snapshots'[j].equity <= peak
                             /\ snapshots'[j].peak - snapshots'[j].equity <= drop
    <3> SUFFICES ASSUME NEW j \in 1..(n + 1)
                 PROVE  snapshots'[j].equity <= peak /\ snapshots'[j].peak - snapshots'[j].equity <= drop
      OBVIOUS
    <3>1. CASE j = n + 1
      BY <2>3, <2>4, <2>5, <2>6, <3>1
    <3>2. CASE j # n + 1
      <4>1. j \in 1..n /\ snapshots'[j] = snapshots[j]
        BY <1>1, <2>6, <3>2
      <4>2. snapshots[j].equity <= p.peak /\ snapshots[j].peak - snapshots[j].equity <= p.maxDrawdown
        BY <2>8, <4>1
      <4>3. snapshots[j].equity \in Int /\ snapshots[j].peak \in Int
        BY <1>1, <4>1
      <4> QED BY <2>1, <2>3, <2>4, <4>1, <4>2, <4>3
    <3> QED BY <3>1, <3>2
  <2>10. \E j \in 1..(n + 1) : peak = snapshots'[j].equity
    <3>1. CASE peak = v
      BY <1>1, <2>5, <2>6, <3>1
    <3>2. CASE peak = p.peak
      <4>1. PICK j \in 1..n : p.peak = snapshots[j].equity
        BY <2>8
      <4>2. j \in 1..(n + 1) /\ peak = snapshots'[j].equity
        BY <1>1, <2>6, <3>2, <4>1
      <4> QED BY <4>2
    <3> QED BY <2>3, <3>1, <3>2
  <2>11. \E j \in 1..(n + 1) : drop = snapshots'[j].peak - snapshots'[j].equity
    <3>1. CASE drop = peak - v
      BY <1>1, <2>5, <2>6, <3>1
    <3>2. CASE drop = p.maxDrawdown
      <4>1. PICK j \in 1..n : p.maxDrawdown = snapshots[j].peak - snapshots[j].equity
        BY <2>8
      <4>2. j \in 1..(n + 1) /\ drop = snapshots'[j].peak - snapshots'[j].equity
        BY <1>1, <2>6, <3>2, <4>1
      <4> QED BY <4>2
    <3> QED BY <2>4, <3>1, <3>2
  <2>12. ASSUME NEW i \in 1..Len(snapshots')
         PROVE  /\ \A j \in 1..i : /\ snapshots'[j].equity <= snapshots'[i].peak
                                   /\ snapshots'[j].peak - snapshots'[j].equity <= snapshots'[i].maxDrawdown
                /\ \E j \in 1..i : snapshots'[i].peak = snapshots'[j].equity
                /\ \E j \in 1..i : snapshots'[i].maxDrawdown = snapshots'[j].peak - snapshots'[j].equity
    <3>1. CASE i = n + 1
      BY <2>5, <2>6, <2>9, <2>10, <2>11, <3>1
    <3>2. CASE i # n + 1
      <4>1. i \in 1..n
        BY <1>1, <2>6, <3>2
      <4> QED BY <2>7, <4>1
    <3> QED BY <3>1, <3>2
  <2> QED BY <2>6, <2>12 DEF Books!PeaksStand
<1> QED BY <1>1, <1>3, <1>4

\* On a latched day the record that an evaluation finds is the latched one.
LEMMA LatchIsFound ==
  ASSUME NEW failing, record[Books!Today] # Nil
  PROVE  Books!RecordForDay(failing) = Nil \/ Books!RecordForDay(failing) = record[Books!Today]
<1> DEFINE e == IF "get_record" \in failing THEN Nil ELSE record[Books!Today]
<1>1. CASE e # Nil
  BY <1>1 DEF Books!RecordForDay
<1>2. CASE e = Nil
  BY <1>2 DEF Books!RecordForDay, Books!Reread
<1> QED BY <1>1, <1>2

\* On a latched day the worker's evaluation blocks, whatever fails.
LEMMA EvaluateBlocks ==
  ASSUME NEW failing, Books!Evaluate(failing)
  PROVE  Books!LatchStands'
<1> DEFINE day == Books!RecordForDay(failing)
           uncertain == day = Nil \/ "realized" \in failing
           latching == ~uncertain /\ ~day.latched /\ Books!Reached(day.baseline)
<1>1. verdict' = [by |-> "worker", day |-> Books!Today,
                  latched |-> record[Books!Today] # Nil /\ record[Books!Today].latched,
                  blocked |-> uncertain \/ latching \/ day.latched]
  BY Zenon DEF Books!Evaluate
<1> HIDE DEF day
<1>2. /\ verdict'.latched = (record[Books!Today] # Nil /\ record[Books!Today].latched)
      /\ verdict'.blocked = (uncertain \/ latching \/ day.latched)
  BY <1>1
<1>3. ASSUME verdict'.latched PROVE verdict'.blocked
  <2>1. record[Books!Today] # Nil /\ record[Books!Today].latched
    BY <1>2, <1>3
  <2>2. day = Nil \/ day = record[Books!Today]
    BY <2>1, LatchIsFound DEF day
  <2> QED BY <1>2, <2>1, <2>2
<1> QED BY <1>3 DEF Books!LatchStands

\* So does the evaluation of the dashboard.
LEMMA ReadOnlyBlocks ==
  ASSUME Books!ReadOnly
  PROVE  Books!LatchStands'
<1> DEFINE snap == Books!FirstSnapshot(Books!Today)
           day == IF record[Books!Today] # Nil THEN record[Books!Today]
                  ELSE IF snap # Nil THEN Books!NewRecord(snap.equity) ELSE Nil
<1>1. verdict' = [by |-> "dashboard", day |-> Books!Today,
                  latched |-> record[Books!Today] # Nil /\ record[Books!Today].latched,
                  blocked |-> day = Nil \/ day.latched \/ Books!Reached(day.baseline)]
  BY Zenon DEF Books!ReadOnly
<1>2. record[Books!Today] # Nil => day = record[Books!Today]
  OBVIOUS
<1> HIDE DEF day
<1>3. /\ verdict'.latched = (record[Books!Today] # Nil /\ record[Books!Today].latched)
      /\ verdict'.blocked = (day = Nil \/ day.latched \/ Books!Reached(day.baseline))
  BY <1>1
<1>4. ASSUME verdict'.latched PROVE verdict'.blocked
  <2>1. record[Books!Today] # Nil /\ record[Books!Today].latched
    BY <1>3, <1>4
  <2> QED BY <1>2, <1>3, <2>1
<1> QED BY <1>4 DEF Books!LatchStands

\* A trade is closed once, with the cash of its fills.
LEMMA NewTradeKeeps ==
  ASSUME Books!NetIsCash, NEW t, NEW F, trades' = trades \cup {Books!ClosedTrade(t, F)},
         \A u \in trades : u.trade # t,
         Books!Qty(Books!Opens(F)) = Books!Qty(Books!Exits(F)) => Books!CloseFuturesTrade(F).net = CashOf(F)
  PROVE  Books!NetIsCash'
<1> DEFINE n == Books!ClosedTrade(t, F)
<1>1. n.trade = t /\ n.of = F /\ n.result = Books!CloseFuturesTrade(F)
  BY DEF Books!ClosedTrade
<1> HIDE DEF n
<1>2. Books!Qty(Books!Opens(n.of)) = Books!Qty(Books!Exits(n.of)) =>
          n.result.net = Books!SumFunctionOnSet([f \in n.of |-> Books!Cash(f)], n.of)
  BY <1>1, BooksSumIsSum DEF CashOf
<1>3. \A u \in trades : Books!Qty(Books!Opens(u.of)) = Books!Qty(Books!Exits(u.of)) =>
          u.result.net = Books!SumFunctionOnSet([f \in u.of |-> Books!Cash(f)], u.of)
  BY Zenon DEF Books!NetIsCash
<1>4. \A u \in trades' : u \in trades \/ u = n
  BY DEF n
<1>5. \A u \in trades' : Books!Qty(Books!Opens(u.of)) = Books!Qty(Books!Exits(u.of)) =>
          u.result.net = Books!SumFunctionOnSet([f \in u.of |-> Books!Cash(f)], u.of)
  BY <1>2, <1>3, <1>4, Zenon
<1>6. \A u, w \in trades' : u.trade = w.trade => u = w
  <2>1. \A u, w \in trades : u.trade = w.trade => u = w
    BY Zenon DEF Books!NetIsCash
  <2> QED BY <1>1, <1>4, <2>1
<1> QED BY <1>5, <1>6, Zenon DEF Books!NetIsCash

\* The result of the bridge is the cash of its fills, which are executions.
LEMMA BridgeClosesWithCash ==
  ASSUME Books!ExecutedOnce, NEW F \in SUBSET executed, \A e, f \in F : e.trade = f.trade,
         Books!Opens(F) # {}, Books!Exits(F) # {}, Books!CloseFuturesTrade(F) # Nil,
         Books!Qty(Books!Opens(F)) = Books!Qty(Books!Exits(F))
  PROVE  Books!CloseFuturesTrade(F).net = CashOf(F)
<1>1. Priced(F) /\ \A f \in F : f.open \in BOOLEAN
  BY ExecutionsArePriced
<1>2. /\ Books!Opens(F) \in SUBSET executed /\ Books!Exits(F) \in SUBSET executed
      /\ \A e, f \in Books!Opens(F) : e.trade = f.trade /\ e.open = f.open
      /\ \A e, f \in Books!Exits(F) : e.trade = f.trade /\ e.open = f.open
  BY <1>1 DEF Books!Opens, Books!Exits
<1>3. Books!Notional(Books!Opens(F)) % Books!Qty(Books!Opens(F)) = 0
  BY <1>2, AverageIsWhole
<1>4. Books!Notional(Books!Exits(F)) % Books!Qty(Books!Exits(F)) = 0
  BY <1>2, AverageIsWhole
<1> QED BY <1>1, <1>3, <1>4, CloseIsCash

\* The bridge closes a trade once, with the cash of its fills.
LEMMA TryCloseKeeps ==
  ASSUME Books!ExecutedOnce, Books!FillsAreExecuted, Books!NetIsCash, Books!TryCloseTrade
  PROVE  Books!NetIsCash'
<1> DEFINE t == clerk.trade
           F == Books!FillsOf(t)
<1>1. /\ clerk.at = "bridge"
      /\ trades' = IF \/ Books!Opens(F) = {} \/ Books!Exits(F) = {} \/ Books!CloseFuturesTrade(F) = Nil
                      \/ \E u \in trades : u.trade = t
                   THEN trades ELSE trades \cup {Books!ClosedTrade(t, F)}
  BY Zenon DEF Books!TryCloseTrade
<1>2. CASE \/ Books!Opens(F) = {} \/ Books!Exits(F) = {} \/ Books!CloseFuturesTrade(F) = Nil
           \/ \E u \in trades : u.trade = t
  <2>1. trades' = trades
    BY <1>1, <1>2
  <2> QED BY <2>1, Zenon DEF Books!NetIsCash
<1>3. CASE ~(\/ Books!Opens(F) = {} \/ Books!Exits(F) = {} \/ Books!CloseFuturesTrade(F) = Nil
             \/ \E u \in trades : u.trade = t)
  <2>1. F \in SUBSET executed /\ \A e, f \in F : e.trade = f.trade
    <3>1. PICK x \in scenario.live : t = x.trade
      BY <1>1 DEF Books!FillsAreExecuted
    <3>2. \A s \in scenario.test : x.trade # s.trade
      BY BooksAssumption DEF Books!ExecutedOnce, Books!BooksConstants
    <3> QED BY <3>1, <3>2 DEF Books!FillsAreExecuted, Books!FillsOf
  <2> HIDE DEF F
  <2>2. Books!Qty(Books!Opens(F)) = Books!Qty(Books!Exits(F)) => Books!CloseFuturesTrade(F).net = CashOf(F)
    BY <1>3, <2>1, BridgeClosesWithCash
  <2>3. trades' = trades \cup {Books!ClosedTrade(t, F)} /\ \A u \in trades : u.trade # t
    BY <1>1, <1>3
  <2> QED BY <2>2, <2>3, NewTradeKeeps
<1> QED BY <1>2, <1>3

\* A simulated trade enters and leaves with one fill each.
LEMMA SimulationKeeps ==
  ASSUME Books!ExecutedOnce, Books!NetIsCash, NEW s \in scenario.test, NEW n \in 1..3,
         Books!SimulateClosedTrade(s, n)
  PROVE  Books!NetIsCash'
<1> DEFINE a == Books!SimFill(s, TRUE)
           b == Books!SimFill(s, FALSE)
           F == {a, b}
<1>1. /\ \A u \in trades : u.trade # s.trade
      /\ trades' = IF n = 3 THEN trades \cup {Books!ClosedTrade(s.trade, F)} ELSE trades
  BY Zenon DEF Books!SimulateClosedTrade
<1>2. s.q \in Nat \ {0} /\ s.p \in Int /\ s.fee \in Int /\ s.fee >= 0
  BY BooksAssumption DEF Books!ExecutedOnce, Books!BooksConstants
<1>3. /\ a.q = s.q /\ a.p = s.p /\ a.fee = s.fee /\ a.open = TRUE
      /\ b.q = s.q /\ b.p = s.p /\ b.fee = s.fee /\ b.open = FALSE
      /\ a.direction = "LONG" /\ a.source = "test_simulation"
      /\ b.direction = "LONG" /\ b.source = "test_simulation"
  BY DEF Books!SimFill
<1> HIDE DEF a, b
<1>4. Books!Opens(F) = {a} /\ Books!Exits(F) = {b}
  BY <1>3 DEF Books!Opens, Books!Exits
<1>5. IsFiniteSet({a}) /\ IsFiniteSet({b}) /\ IsFiniteSet(F)
  <2>1. IsFiniteSet({a}) /\ IsFiniteSet({b})
    BY FS_Singleton
  <2>2. IsFiniteSet({a} \cup {b})
    BY <2>1, FS_AddElement
  <2>3. F = {a} \cup {b}
    OBVIOUS
  <2> QED BY <2>1, <2>2, <2>3
<1>6. Priced({a}) /\ Priced({b}) /\ Priced(F) /\ \A f \in F : f.open \in BOOLEAN
  BY <1>2, <1>3, <1>5 DEF Priced
<1>7. Cardinality({<<f.direction, f.source>> : f \in F}) = 1
  <2>1. {<<f.direction, f.source>> : f \in F} = {<<"LONG", "test_simulation">>}
    BY <1>3
  <2> QED BY <2>1, FS_Singleton
<1>10. ~\E f \in F : f.fee < 0
  BY <1>2, <1>3
<1> HIDE DEF F
<1>8. Books!CloseFuturesTrade(F).net = CashOf(F)
  <2>1. /\ Books!Qty({a}) = s.q /\ Books!Qty({b}) = s.q
        /\ Books!Notional({a}) % Books!Qty({a}) = 0 /\ Books!Notional({b}) % Books!Qty({b}) = 0
    BY <1>3, <1>6, SumsOfOne
  <2>2. /\ Books!Opens(F) # {} /\ Books!Exits(F) # {}
        /\ Books!Qty(Books!Opens(F)) = Books!Qty(Books!Exits(F))
        /\ Books!Notional(Books!Opens(F)) % Books!Qty(Books!Opens(F)) = 0
        /\ Books!Notional(Books!Exits(F)) % Books!Qty(Books!Exits(F)) = 0
    BY <1>4, <2>1
  <2> QED BY <1>6, <1>7, <1>10, <2>2, CloseIsCash
<1>9. CASE n # 3
  BY <1>1, <1>9 DEF Books!NetIsCash
<1> QED BY <1>1, <1>8, <1>9, NewTradeKeeps

\* An execution is new and of the market.
LEMMA ExecuteKeeps ==
  ASSUME Books!ExecutedOnce, Books!FillsAreExecuted, NEW x \in scenario.live, Books!Execute(x)
  PROVE  Books!ExecutedOnce' /\ Books!FillsAreExecuted'
<1> DEFINE n == Books!Executed(x)
<1>1. /\ \A e \in executed : e.id # x.id
      /\ executed' = executed \cup {n} /\ UNCHANGED <<bookTime, scenario, equity, booked, clerk>>
  BY DEF Books!Execute, Books!books
<1>2. n.source = "exchange" /\ Books!Executes(n, x) /\ n.id = x.id
  BY DEF Books!Executed, Books!Executes
<1> HIDE DEF n
<1>3. Books!IsFiniteSet(executed')
  BY <1>1, BooksSetIsFinite, FS_AddElement DEF Books!ExecutedOnce
<1>4. \A e \in executed' : e.source = "exchange" /\ \E y \in scenario.live : Books!Executes(e, y)
  BY <1>1, <1>2 DEF Books!ExecutedOnce
<1>5. \A e, f \in executed' : e.id = f.id => e = f
  BY <1>1, <1>2 DEF Books!ExecutedOnce
<1>6. Books!ExecutedOnce'
  BY <1>1, <1>3, <1>4, <1>5 DEF Books!ExecutedOnce, Books!Executes
<1> QED BY <1>1, <1>6 DEF Books!FillsAreExecuted

\* The invariant of the books holds at the start.
LEMMA BooksStart ==
  ASSUME Books!Init
  PROVE  Books!BooksInv
<1>1. Books!ExecutedOnce
  <2>1. Books!IsFiniteSet({})
    BY BooksSetIsFinite, FS_EmptySet
  <2> QED BY <2>1 DEF Books!Init, Books!ExecutedOnce
<1>2. Books!FillsAreExecuted /\ Books!LatchStands
  BY DEF Books!Init, Books!FillsAreExecuted, Books!LatchStands, Books!Idle
<1>3. Books!NetIsCash
  BY DEF Books!Init, Books!NetIsCash
<1>4. snapshots \in Seq(Books!Snapshot) /\ Books!PeaksStand
  BY DEF Books!Init, Books!PeaksStand
<1> QED BY <1>1, <1>2, <1>3, <1>4 DEF Books!BooksInv

\* What a step leaves alone keeps its part of the invariant.
LEMMA BooksRest ==
  ASSUME Books!BooksInv
  PROVE  /\ UNCHANGED <<bookTime, scenario, equity, executed>> => Books!ExecutedOnce'
         /\ UNCHANGED <<scenario, executed, booked>> /\ clerk' = Books!Idle => Books!FillsAreExecuted'
         /\ UNCHANGED <<scenario, executed, booked, clerk>> => Books!FillsAreExecuted'
         /\ UNCHANGED trades => Books!NetIsCash'
         /\ UNCHANGED snapshots => snapshots' \in Seq(Books!Snapshot) /\ Books!PeaksStand'
         /\ verdict' = Nil \/ UNCHANGED verdict => Books!LatchStands'
<1> USE DEF Books!BooksInv
<1>1. UNCHANGED <<bookTime, scenario, equity, executed>> => Books!ExecutedOnce'
  BY DEF Books!ExecutedOnce, Books!Executes
<1>2. UNCHANGED <<scenario, executed, booked>> /\ clerk' = Books!Idle => Books!FillsAreExecuted'
  BY DEF Books!FillsAreExecuted, Books!Idle
<1>3. UNCHANGED <<scenario, executed, booked, clerk>> => Books!FillsAreExecuted'
  BY DEF Books!FillsAreExecuted
<1>4. UNCHANGED trades => Books!NetIsCash'
  BY Zenon DEF Books!NetIsCash
<1>5. UNCHANGED snapshots => snapshots' \in Seq(Books!Snapshot) /\ Books!PeaksStand'
  BY DEF Books!PeaksStand
<1>6. verdict' = Nil \/ UNCHANGED verdict => Books!LatchStands'
  BY DEF Books!LatchStands
<1> QED BY <1>1, <1>2, <1>3, <1>4, <1>5, <1>6

\* Every step of the books keeps their invariant.
LEMMA BooksStep ==
  ASSUME Books!BooksInv, [Books!Next]_(Books!vars)
  PROVE  Books!BooksInv'
<1> USE DEF Books!BooksInv, Books!books
<1>0. bookTime \in Int /\ equity \in Int
  BY BooksAssumption DEF Books!ExecutedOnce, Books!BooksConstants
<1>1. CASE Books!Tick
  <2>1. /\ bookTime' = bookTime + 1 /\ verdict' = Nil
        /\ UNCHANGED <<scenario, equity, executed, booked, trades, snapshots, clerk>>
    BY <1>1 DEF Books!Tick
  <2>2. Books!ExecutedOnce'
    BY <1>0, <2>1 DEF Books!ExecutedOnce, Books!Executes
  <2> QED BY <2>1, <2>2, BooksRest
<1>2. ASSUME NEW x \in scenario.live, Books!Execute(x) PROVE Books!BooksInv'
  <2>1. verdict' = Nil /\ UNCHANGED <<trades, snapshots>>
    BY <1>2 DEF Books!Execute
  <2> QED BY <1>2, <2>1, ExecuteKeeps, BooksRest
<1>3. ASSUME NEW v \in Equities, Books!AccountChanges(v) PROVE Books!BooksInv'
  <2>1. /\ equity' = v /\ verdict' = Nil
        /\ UNCHANGED <<bookTime, scenario, executed, booked, trades, snapshots, clerk>>
    BY <1>3 DEF Books!AccountChanges
  <2>2. Books!ExecutedOnce'
    BY <2>1 DEF Books!ExecutedOnce, Books!Executes
  <2> QED BY <2>1, <2>2, BooksRest
<1>4. ASSUME NEW x \in scenario.live, Books!FetchExecutions(x.trade, x.open) PROVE Books!BooksInv'
  <2>1. /\ clerk' = [at |-> "bridge", trade |-> x.trade,
                     todo |-> {e \in executed : e.trade = x.trade /\ e.open = x.open}]
        /\ verdict' = Nil /\ UNCHANGED <<bookTime, scenario, equity, executed, booked, trades, snapshots>>
    BY <1>4 DEF Books!FetchExecutions
  <2>2. Books!FillsAreExecuted'
    BY <2>1 DEF Books!FillsAreExecuted
  <2> QED BY <2>1, <2>2, BooksRest
<1>5. ASSUME NEW f \in executed, Books!RecordFill(f) PROVE Books!BooksInv'
  <2>1. /\ clerk.at = "bridge" /\ booked' = booked \cup {f}
        /\ clerk' = [clerk EXCEPT !.todo = clerk.todo \ {f}]
        /\ verdict' = Nil /\ UNCHANGED <<bookTime, scenario, equity, executed, trades, snapshots>>
    BY <1>5 DEF Books!RecordFill
  <2>2. Books!FillsAreExecuted'
    <3>1. \A g \in booked' : g \in executed \/ \E s \in scenario.test : g.trade = s.trade
      BY <2>1 DEF Books!FillsAreExecuted
    <3>2. clerk'.at = "bridge" => /\ clerk'.todo \subseteq executed
                                 /\ \E x \in scenario.live : clerk'.trade = x.trade
      BY <2>1 DEF Books!FillsAreExecuted
    <3> QED BY <2>1, <3>1, <3>2 DEF Books!FillsAreExecuted
  <2> QED BY <2>1, <2>2, BooksRest
<1>6. CASE Books!TryCloseTrade
  <2>1. /\ clerk' = Books!Idle /\ verdict' = Nil
        /\ UNCHANGED <<bookTime, scenario, equity, executed, booked, snapshots>>
    BY <1>6 DEF Books!TryCloseTrade
  <2>2. Books!NetIsCash'
    BY <1>6, TryCloseKeeps
  <2> QED BY <2>1, <2>2, BooksRest
<1>7. ASSUME NEW s \in scenario.test, NEW n \in 1..3, Books!SimulateClosedTrade(s, n) PROVE Books!BooksInv'
  <2>1. /\ \A f \in booked' : f \in booked \/ f \in {Books!SimFill(s, TRUE), Books!SimFill(s, FALSE)}
        /\ verdict' = Nil
        /\ UNCHANGED <<bookTime, scenario, equity, executed, snapshots, clerk>>
    BY <1>7 DEF Books!SimulateClosedTrade
  <2>2. Books!NetIsCash'
    BY <1>7, SimulationKeeps
  <2>3. Books!FillsAreExecuted'
    <3>1. Books!SimFill(s, TRUE).trade = s.trade /\ Books!SimFill(s, FALSE).trade = s.trade
      BY DEF Books!SimFill
    <3> QED BY <2>1, <3>1 DEF Books!FillsAreExecuted
  <2> QED BY <2>1, <2>2, <2>3, BooksRest
<1>8. CASE Books!PersistAccountSnapshot
  <2>1. verdict' = Nil /\ UNCHANGED <<bookTime, scenario, equity, executed, booked, trades, clerk>>
    BY <1>8 DEF Books!PersistAccountSnapshot
  <2>2. snapshots' \in Seq(Books!Snapshot) /\ Books!PeaksStand'
    BY <1>0, <1>8, SnapshotKeeps
  <2> QED BY <2>1, <2>2, BooksRest
<1>9. ASSUME NEW failing, Books!Evaluate(failing) PROVE Books!BooksInv'
  <2>1. UNCHANGED <<bookTime, scenario, equity, executed, booked, trades, snapshots, clerk>>
    BY <1>9 DEF Books!Evaluate
  <2>2. Books!LatchStands'
    BY <1>9, EvaluateBlocks
  <2> QED BY <2>1, <2>2, BooksRest
<1>10. CASE Books!ReadOnly
  <2>1. UNCHANGED <<bookTime, scenario, equity, executed, booked, trades, snapshots, clerk>>
    BY <1>10 DEF Books!ReadOnly
  <2>2. Books!LatchStands'
    BY <1>10, ReadOnlyBlocks
  <2> QED BY <2>1, <2>2, BooksRest
<1>11. CASE Books!Die
  <2>1. /\ clerk' = Books!Idle /\ verdict' = Nil
        /\ UNCHANGED <<bookTime, scenario, equity, executed, booked, trades, snapshots>>
    BY <1>11 DEF Books!Die
  <2> QED BY <2>1, BooksRest
<1>12. CASE UNCHANGED Books!vars
  <2>1. UNCHANGED <<bookTime, scenario, equity, executed, booked, trades, snapshots, clerk, verdict>>
    BY <1>12 DEF Books!vars
  <2> QED BY <2>1, BooksRest
<1> QED BY <1>1, <1>2, <1>3, <1>4, <1>5, <1>6, <1>7, <1>8, <1>9, <1>10, <1>11, <1>12 DEF Books!Next

-----------------------------------------------------------------------------
\* A behaviour is one part's: its kind does not change and the others rest.
LEMMA OnePart ==
  ASSUME [AllNext]_allVars
  PROVE  /\ kind' = kind
         /\ kind = "stores" => [Stores!Next]_(Stores!vars)
         /\ kind = "gate" => [Gate!Next]_(Gate!vars)
         /\ kind = "paper" => [Paper!Next]_(Paper!vars)
         /\ kind = "runtime" => [Runtime!Next]_(Runtime!vars)
         /\ kind = "accounting" => [Books!Next]_(Books!vars)
<1> USE DEF allVars, exchangeVars, candleVars, AllNext, Rest
<1>1. kind' = kind
  OBVIOUS
<1>2. ASSUME kind = "stores" PROVE [Stores!Next]_(Stores!vars)
  BY <1>2 DEF storeVars, Stores!vars
<1>3. ASSUME kind = "gate" PROVE [Gate!Next]_(Gate!vars)
  BY <1>3 DEF gateVars, Gate!vars
<1>4. ASSUME kind = "paper" PROVE [Paper!Next]_(Paper!vars)
  BY <1>4 DEF paperVars, Paper!vars, Paper!env, Paper!durable, Paper!runtimeTables, Paper!executionTables,
              Paper!counts
<1>5. ASSUME kind = "runtime" PROVE [Runtime!Next]_(Runtime!vars)
  BY <1>5 DEF runtimeVars, Runtime!vars, Runtime!env, Runtime!loss, Runtime!history
<1>6. ASSUME kind = "accounting" PROVE [Books!Next]_(Books!vars)
  BY <1>6 DEF bookVars, Books!vars, Books!books
<1> QED BY <1>1, <1>2, <1>3, <1>4, <1>5, <1>6

(***************************************************************************)
(* For any workers, intents and calls on either backend: of the reserves   *)
(* of one intent one answers created, no two orders share a client order   *)
(* id, and on SQLite a symbol has one live position                        *)
(* (futures_execution_store, futures_position_store).                      *)
(***************************************************************************)
THEOREM StoresAreExclusive == AllSpec => []StoresHold
<1> DEFINE Held == kind = "stores" => Stores!StoresInv
<1>1. AllInit => Held
  BY StoresStart DEF AllInit
<1>2. Held /\ [AllNext]_allVars => Held'
  <2> SUFFICES ASSUME Held, [AllNext]_allVars, kind' = "stores" PROVE Stores!StoresInv'
    OBVIOUS
  <2>1. kind = "stores" /\ [Stores!Next]_(Stores!vars)
    BY OnePart
  <2> QED BY <2>1, StoresStep
<1>3. Held => StoresHold
  BY DEF StoresHold, Stores!StoresInv
<1> QED BY <1>1, <1>2, <1>3, PTL DEF AllSpec

(***************************************************************************)
(* For any closes, rules, accounts and grids: the entry that was sent is   *)
(* within the limits on the account it was computed from, after all the    *)
(* rounding (futures_entry, futures sizing and the risk manager).          *)
(***************************************************************************)
THEOREM EntriesAreBounded == AllSpec => []EntryIsBounded
<1> DEFINE Held == kind = "gate" => Gate!GateInv
<1>1. AllInit => Held
  BY GateStart DEF AllInit
<1>2. Held /\ [AllNext]_allVars => Held'
  <2> SUFFICES ASSUME Held, [AllNext]_allVars, kind' = "gate" PROVE Gate!GateInv'
    OBVIOUS
  <2>1. kind = "gate" /\ [Gate!Next]_(Gate!vars)
    BY OnePart
  <2> QED BY <2>1, GateStep
<1>3. Held => EntryIsBounded
  BY DEF EntryIsBounded, Gate!GateInv
<1> QED BY <1>1, <1>2, <1>3, PTL DEF AllSpec

(***************************************************************************)
(* For any number of candles, window, batch, markets and trigger sets, and *)
(* wherever the process dies: every candle between the first and the last  *)
(* checkpoint of a lane has its final outcome, a completed one its fill,   *)
(* and an entry sent on a latched day was decided with the limit off       *)
(* (PaperTradingRuntime, DualLaneRuntime, FuturesDualLaneRuntime).         *)
(***************************************************************************)
THEOREM CandlesAreKept == AllSpec => []NoCandleIsLost
<1> DEFINE Held == /\ kind = "paper" => Paper!PaperInv
                   /\ kind = "runtime" => Runtime!RuntimeInv
<1>1. AllInit => Held
  BY PaperStart, RuntimeStart DEF AllInit
<1>2. Held /\ [AllNext]_allVars => Held'
  <2> SUFFICES ASSUME Held, [AllNext]_allVars PROVE Held'
    OBVIOUS
  <2>1. ASSUME kind' = "paper" PROVE Paper!PaperInv'
    <3>1. kind = "paper" /\ [Paper!Next]_(Paper!vars)
      BY <2>1, OnePart
    <3> QED BY <3>1, PaperStep
  <2>2. ASSUME kind' = "runtime" PROVE Runtime!RuntimeInv'
    <3>1. kind = "runtime" /\ [Runtime!Next]_(Runtime!vars)
      BY <2>2, OnePart
    <3> QED BY <3>1, RuntimeStep
  <2> QED BY <2>1, <2>2
<1>3. Held => NoCandleIsLost
  BY DEF NoCandleIsLost, Paper!PaperInv, Runtime!RuntimeInv
<1> QED BY <1>1, <1>2, <1>3, PTL DEF AllSpec

(***************************************************************************)
(* For any executions, accounts and failing statements, and wherever the   *)
(* worker dies: the net result of a trade closed in full is the cash its   *)
(* fills moved, long or short and however it was filled, a trade has one   *)
(* result, peak and drawdown are those of the whole history of snapshots,  *)
(* and an evaluation on a latched day blocks the entry                     *)
(* (futures_accounting_bridge, accounting/futures.py, daily_loss.py).      *)
(***************************************************************************)
THEOREM BooksBalance == AllSpec => []BooksAddUp
<1> DEFINE Held == kind = "accounting" => Books!BooksInv
<1>1. AllInit => Held
  BY BooksStart DEF AllInit
<1>2. Held /\ [AllNext]_allVars => Held'
  <2> SUFFICES ASSUME Held, [AllNext]_allVars, kind' = "accounting" PROVE Books!BooksInv'
    OBVIOUS
  <2>1. kind = "accounting" /\ [Books!Next]_(Books!vars)
    BY OnePart
  <2> QED BY <2>1, BooksStep
<1>3. Held => BooksAddUp
  BY PeaksAreExact DEF BooksAddUp, Books!BooksInv
<1> QED BY <1>1, <1>2, <1>3, PTL DEF AllSpec
=============================================================================
