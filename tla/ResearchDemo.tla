---------------------------- MODULE ResearchDemo ----------------------------
(***************************************************************************)
(* The durable execution of one research demo: its execution record, the   *)
(* start, recheck and recovery messages that drive it, the workers that    *)
(* dispatch them and the recovery a starting worker performs.              *)
(*                                                                         *)
(* A dispatch is one transaction on the worker's connection: it reads the  *)
(* record, marks it RUNNING by compare-and-set (from then on it holds the  *)
(* row), runs one trading cycle, writes the progress, appends the recheck  *)
(* and acknowledges its message.  The recovery is a READ COMMITTED         *)
(* transaction of its own: it reads the record first and the messages      *)
(* afterwards.                                                             *)
(***************************************************************************)
EXTENDS Naturals, FiniteSets

CONSTANTS
    Worker,       \* trading workers
    Duration,     \* market time a demo has to observe
    MaxTime,      \* bound: the market clock
    MaxRevision,  \* bound: revisions of the record a claim may start from
    MaxStart      \* bound: worker starts that run the recovery

DemoConstants == Duration \in Nat \ {0} /\ MaxTime \in Nat /\ MaxTime >= Duration

VARIABLES
    rec,          \* the execution record
    live,         \* messages that are PENDING or IN_FLIGHT
    consumed,     \* messages that are CONSUMED
    holder,       \* the claims: a set of <<worker, message>>
    disp,         \* the dispatch of each worker
    clock,        \* the time of the last closed candle
    recovery,     \* the recovery in progress: the records it has read
    starts        \* recoveries so far (the bound)

vars == <<rec, live, consumed, holder, disp, clock, recovery, starts>>

Rec == [st : {"PENDING", "RUNNING", "COMPLETED"}, rev : Nat, started : 0..MaxTime, seen : 0..MaxTime,
        elapsed : BOOLEAN]
Start == [kind |-> "start", rev |-> 0, attempt |-> 0]
Recheck(r) == [kind |-> "recheck", rev |-> r, attempt |-> 0]
Recovery(r, n) == [kind |-> "recovery", rev |-> r, attempt |-> n]

Terminal(r) == r.st = "COMPLETED"
NoDispatch == [pc |-> "idle"]
Locked == \E w \in Worker : disp[w].pc \in {"marked", "cycled"} /\ disp[w].held

\* A dispatch after each of its steps.
Claimed == [pc : {"claimed"}, msg : live \cup consumed]
Read == [pc : {"read"}, msg : live \cup consumed, base : Rec]
Marked == [pc : {"marked"}, msg : live \cup consumed, held : BOOLEAN, mine : Rec]
Cycled == [pc : {"cycled"}, msg : live \cup consumed, held : BOOLEAN, mine : Rec,
           outcome : {"wait", "progress", "terminal"}]

\* The state after the handoff transaction of submit.
Init ==
    /\ rec = [st |-> "PENDING", rev |-> 1, started |-> 0, seen |-> 0, elapsed |-> FALSE]
    /\ live = {Start} /\ consumed = {} /\ holder = {}
    /\ disp = [w \in Worker |-> NoDispatch]
    /\ clock = 0
    /\ recovery = {} /\ starts = 0

\* _progress and _monotonic_progress: progress only moves to a later candle, the
\* duration counts from the start, and an elapsed one stays elapsed.
MonotonicProgress(r, t) ==
    IF t <= r.seen THEN r
    ELSE [r EXCEPT !.seen = t, !.elapsed = @ \/ t >= r.started + Duration]

\* mark_running: the first one is the start, a later one keeps it.
StartedAt(r) == IF r.st = "PENDING" THEN clock ELSE r.started

-----------------------------------------------------------------------------
(* Dispatch *)

\* A free message is claimed, or one whose lease has lapsed.
Claim(w) ==
    /\ disp[w] = NoDispatch /\ rec.rev < MaxRevision
    /\ \E m \in live :
          /\ holder' = {h \in holder : h[2] # m} \cup {<<w, m>>}
          /\ disp' = [disp EXCEPT ![w] = [pc |-> "claimed", msg |-> m]]
    /\ UNCHANGED <<rec, live, consumed, clock, recovery, starts>>

Consume(w, more) ==
    /\ live' = (live \ {disp[w].msg}) \cup (more \ consumed)
    /\ consumed' = consumed \cup {disp[w].msg}
    /\ holder' = holder \ {<<w, disp[w].msg>>}
    /\ disp' = [disp EXCEPT ![w] = NoDispatch]

Owns(w) == <<w, disp[w].msg>> \in holder

\* dispatch reads the record: a terminal one is replayed and acknowledged.
ReadRecord(w) ==
    /\ disp[w].pc = "claimed"
    /\ \/ /\ Terminal(rec) /\ Owns(w)
          /\ Consume(w, {})
       \/ /\ ~Terminal(rec)
          /\ disp' = [disp EXCEPT ![w] = [pc |-> "read", msg |-> disp[w].msg, base |-> rec]]
          /\ UNCHANGED <<live, consumed, holder>>
    /\ UNCHANGED <<rec, clock, recovery, starts>>

\* Mutant: the conflict is retried without looking at the latest status.
MarkRunningMutant(w) ==
    /\ disp[w].pc = "read" /\ ~Locked
    /\ disp' = [disp EXCEPT ![w] =
          [pc |-> "marked", msg |-> disp[w].msg, held |-> TRUE,
           mine |-> [disp[w].base EXCEPT !.st = "RUNNING", !.rev = rec.rev + 1,
                                         !.started = StartedAt(disp[w].base)]]]
    /\ UNCHANGED <<rec, live, consumed, holder, clock, recovery, starts>>
\* mark_running and its compare-and-set.  On a conflict the latest record is
\* read: a terminal one is returned as it is, otherwise the record prepared
\* from the first read is written over it.
MarkRunning(w) ==
    /\ disp[w].pc = "read" /\ ~Locked
    /\ LET base == disp[w].base
           kept == rec.rev # base.rev /\ Terminal(rec)
           mine == IF kept THEN rec
                   ELSE [base EXCEPT !.st = "RUNNING", !.rev = rec.rev + 1,
                                     !.started = StartedAt(base)] IN
       disp' = [disp EXCEPT ![w] = [pc |-> "marked", msg |-> disp[w].msg,
                                    held |-> ~kept, mine |-> mine]]
    /\ UNCHANGED <<rec, live, consumed, holder, clock, recovery, starts>>

\* The executor's trading cycle: a wait state or a cycle without a factual
\* candle reports no progress; otherwise the progress is merged, and the demo
\* is over once the duration has elapsed and no obligation is unresolved.
Cycle(w) ==
    /\ disp[w].pc = "marked"
    /\ LET d == disp[w]
           next == MonotonicProgress(d.mine, clock) IN
       \E outcome \in {"wait", "progress"} \cup (IF next.elapsed THEN {"terminal"} ELSE {}) :
          disp' = [disp EXCEPT ![w] =
             [pc |-> "cycled", msg |-> d.msg, held |-> d.held, outcome |-> outcome,
              mine |-> IF ~d.held \/ outcome = "wait" THEN d.mine
                       ELSE IF outcome = "progress" THEN [next EXCEPT !.rev = @ + 1]
                       ELSE [d.mine EXCEPT !.st = "COMPLETED", !.rev = @ + 1]]]
    /\ UNCHANGED <<rec, live, consumed, holder, clock, recovery, starts>>

\* Mutant: the worker forgets to schedule the next cycle.
CommitMutant(w) ==
    LET d == disp[w] IN
    /\ d.pc = "cycled" /\ Owns(w)
    /\ rec' = IF d.held THEN d.mine ELSE rec
    /\ Consume(w, {})
    /\ UNCHANGED <<clock, recovery, starts>>
\* The recheck of the new revision is appended, the message acknowledged and
\* the transaction committed; a lost lease fails the acknowledgement.
Commit(w) ==
    LET d == disp[w] IN
    /\ d.pc = "cycled" /\ Owns(w)
    /\ rec' = IF d.held THEN d.mine ELSE rec
    /\ Consume(w, IF Terminal(d.mine) THEN {} ELSE {Recheck(d.mine.rev)})
    /\ UNCHANGED <<clock, recovery, starts>>

\* The worker dies, the lease is lost or the handler is blocked: the transaction
\* is rolled back and the message can be claimed again.
Rollback(w) ==
    /\ disp[w] # NoDispatch
    /\ disp' = [disp EXCEPT ![w] = NoDispatch]
    /\ UNCHANGED <<rec, live, consumed, holder, clock, recovery, starts>>

-----------------------------------------------------------------------------
(* Recovery at the start of a worker *)

ListResumeCandidates ==
    /\ starts < MaxStart /\ recovery = {}
    /\ rec.st = "RUNNING"
    /\ recovery' = {rec} /\ starts' = starts + 1
    /\ UNCHANGED <<rec, live, consumed, holder, disp, clock>>

RecoveryKey(m, r) == m = Recheck(r.rev) \/ (m.kind = "recovery" /\ m.rev = r.rev)

HasClaimable(r) == \E m \in live : RecoveryKey(m, r)

EnqueueStartupRecovery ==
    /\ \E r \in recovery :
          IF HasClaimable(r)
          THEN UNCHANGED live
          ELSE LET n == Cardinality({m \in consumed : RecoveryKey(m, r)}) + 1 IN
               live' = live \cup {Recovery(r.rev, n)}
    /\ recovery' = {}
    /\ UNCHANGED <<rec, consumed, holder, disp, clock, starts>>

Tick ==
    /\ clock < MaxTime
    /\ clock' = clock + 1
    /\ UNCHANGED <<rec, live, consumed, holder, disp, recovery, starts>>

Next ==
    \/ \E w \in Worker :
          \/ Claim(w) \/ ReadRecord(w) \/ MarkRunning(w) \/ Cycle(w) \/ Commit(w)
          \/ Rollback(w)
    \/ ListResumeCandidates \/ EnqueueStartupRecovery
    \/ Tick

Spec == Init /\ [][Next]_vars

-----------------------------------------------------------------------------
(* Properties *)

TypeOK ==
    /\ rec \in Rec /\ recovery \subseteq Rec /\ clock \in 0..MaxTime
    /\ \A m \in live \cup consumed : m.rev \in Nat
    /\ disp \in [Worker -> {NoDispatch} \cup Claimed \cup Read \cup Marked \cup Cycled]

\* A demo is never left with nobody to drive it: as long as its record is not
\* terminal, some message of it can still be claimed, whatever crashes, lapsed
\* leases and recoveries did.
DemoIsDriven == ~Terminal(rec) => live # {}

\* A completed demo observed its whole duration from the start it records and
\* stays as it is, even when a dispatch that began before the completion, or
\* before the start, commits after it.
CompletedIsFinal ==
    [][/\ Terminal(rec) => rec' = rec
       /\ (~Terminal(rec) /\ Terminal(rec')) => clock >= rec'.started + Duration]_vars

\* A dispatch that holds the row.
Holds(w) == disp[w].pc \in {"marked", "cycled"} /\ disp[w].held

\* One dispatch holds the row, of a demo that is not over, with a later
\* revision; one that was kept from it found the demo completed.  What a
\* dispatch read is the record or older.
DispatchIsSound ==
    /\ \A v, w \in Worker : Holds(v) /\ Holds(w) => v = w
    /\ \A w \in Worker :
         /\ disp[w].pc = "read" =>
              /\ ~Terminal(disp[w].base) /\ disp[w].base.rev <= rec.rev
              /\ disp[w].base.rev = rec.rev => disp[w].base = rec
         /\ disp[w].pc \in {"marked", "cycled"} =>
              IF disp[w].held THEN ~Terminal(rec) /\ disp[w].mine.rev > rec.rev
              ELSE Terminal(rec) /\ Terminal(disp[w].mine)
         /\ disp[w].pc = "marked" /\ disp[w].held => ~Terminal(disp[w].mine)

\* A record counts the duration as elapsed, or the demo as over, only once it
\* has passed since the start; one that has not begun has observed nothing.
OnTime(r) ==
    /\ r.elapsed \/ Terminal(r) => clock >= r.started + Duration
    /\ r.st = "PENDING" => ~r.elapsed

\* The record is on time, and so is what a dispatch has read or is to write.
ElapsedIsObserved ==
    /\ OnTime(rec)
    /\ \A w \in Worker :
         /\ disp[w].pc = "read" => OnTime(disp[w].base)
         /\ Holds(w) => OnTime(disp[w].mine) /\ disp[w].mine.st # "PENDING"

\* No message is about a revision that is still to be written.
MessagesAreOfThePast ==
    /\ \A m \in live \cup consumed : m.rev <= rec.rev
    /\ \A r \in recovery : r.rev <= rec.rev

\* The inductive invariant.
DemoInv == TypeOK /\ DispatchIsSound /\ ElapsedIsObserved /\ MessagesAreOfThePast /\ DemoIsDriven
=============================================================================
