-------------------------- MODULE PortfolioCooldown --------------------------
(***************************************************************************)
(* Cooldown pins of one symbol (portfolio_cooldown and                     *)
(* portfolio_cooldown_store): an authorized attempt pins the duration of   *)
(* the configuration it was booked under, order events of the attempt      *)
(* start, clear or dispute its cooldown, and the gate of the symbol        *)
(* blocks new entries while one runs or cannot be told.                    *)
(*                                                                         *)
(* apply_order_event reads the pin without a lock and computes the new pin *)
(* from it; the UPDATE is guarded by the revision alone.  Read and write   *)
(* are two steps of any number of appliers, and events arrive in any order *)
(* and any number of times.                                                *)
(***************************************************************************)
EXTENDS Integers

CONSTANTS
    Attempt,    \* (authorization_id, tranche_id) of the symbol
    Event,      \* order events: [attempt, rev, status, resolved, state, at]
    Duration,   \* values of the configured cooldown duration
    Applier,    \* connections that apply order events
    MaxTime,    \* bound: the clock stops here
    Nil

VARIABLES
    config,   \* the configured duration, which the operator may edit
    pin,      \* pin[a]: the attempt's row, or Nil
    booked,   \* booked[a]: the duration configured at the booking (history)
    applied,  \* events whose update was committed (history)
    raced,    \* attempts with a pin written over one its writer had not read (history)
    job,      \* job[x]: the event x applies, and the pin it has read for it
    now

vars == <<config, pin, booked, applied, raced, job, now>>

(***************************************************************************)
(* The lifecycle states under which an unproven acceptance is unresolved.  *)
(***************************************************************************)
LiveStates == {"PENDING_ENTRY", "PARTIALLY_FILLED", "OPEN", "CANCEL_PENDING",
               "CLOSE_PENDING", "RECONCILING"}

PinRow ==
    [state : {"PENDING_ACCEPTANCE", "ACTIVE", "CLEARED", "UNRESOLVED_ACCEPTANCE_TIME",
              "UNRESOLVED_CONFLICT"},
     duration : Nat, accepted : Nat \cup {Nil}, until : Nat \cup {Nil},
     last : Event \cup {Nil}]

JobRow == [event : Event, read : PinRow]

(***************************************************************************)
(* A proven acceptance is the factual one: ORDER_EVENT.md, "A higher       *)
(* lifecycle revision cannot change that timestamp".  Contradictory        *)
(* evidence is published as a CONFLICT.                                    *)
(***************************************************************************)
OneAcceptance ==
    \A e, f \in Event :
        e.attempt = f.attempt /\ e.status = "PROVEN" /\ f.status = "PROVEN" => e.at = f.at

CooldownConstants ==
    /\ \A e \in Event : /\ e.attempt \in Attempt /\ e.rev \in Nat /\ e.resolved \in BOOLEAN
                        /\ e.at \in Nat \cup {Nil} /\ (e.status = "PROVEN" => e.at \in Nat)
    /\ OneAcceptance
    /\ Duration \subseteq Nat
    /\ Nil \notin Nat \cup Event \cup PinRow \cup JobRow

TypeOK ==
    /\ config \in Duration /\ now \in Nat
    /\ pin \in [Attempt -> PinRow \cup {Nil}]
    /\ booked \in [Attempt -> Nat \cup {Nil}]
    /\ applied \subseteq Event /\ raced \subseteq Attempt
    /\ job \in [Applier -> JobRow \cup {Nil}]

Init ==
    /\ config \in Duration
    /\ pin = [a \in Attempt |-> Nil]
    /\ booked = [a \in Attempt |-> Nil]
    /\ applied = {} /\ raced = {}
    /\ job = [x \in Applier |-> Nil]
    /\ now = 0

Tick ==
    /\ now < MaxTime
    /\ now' = now + 1
    /\ UNCHANGED <<config, pin, booked, applied, raced, job>>

EditConfiguration(n) ==
    /\ config' = n
    /\ UNCHANGED <<pin, booked, applied, raced, job, now>>

(***************************************************************************)
(* create_pin, in the booking transaction                                  *)
(***************************************************************************)
Pinned(duration) == [state |-> "PENDING_ACCEPTANCE", duration |-> duration,
                     accepted |-> Nil, until |-> Nil, last |-> Nil]

CreatePin(a) ==
    /\ pin[a] = Nil
    /\ pin' = [pin EXCEPT ![a] = Pinned(config)]
    /\ booked' = [booked EXCEPT ![a] = config]
    /\ UNCHANGED <<config, applied, raced, job, now>>

(***************************************************************************)
(* apply_order_event_to_cooldown_pin.  A conflict yields to a resolution   *)
(* only; a cancelled zero fill ends the attempt's cooldown; a proven       *)
(* acceptance starts it at the factual time; an acceptance that is not     *)
(* proven while the order lives leaves it unresolved.                      *)
(***************************************************************************)
Seen(p, e, state, accepted, until) ==
    [p EXCEPT !.state = state, !.accepted = accepted, !.until = until, !.last = e]

\* Mutant: a proven acceptance lifts a conflict.
NewPinLiftingConflict(p, e) ==
    IF p.last # Nil /\ e.rev < p.last.rev THEN p
    ELSE IF e.status = "CONFLICT" THEN Seen(p, e, "UNRESOLVED_CONFLICT", e.at, Nil)
    ELSE IF e.status = "PROVEN" THEN Seen(p, e, "ACTIVE", e.at, e.at + p.duration)
    ELSE Seen(p, e, p.state, p.accepted, p.until)

NewPin(p, e) ==
    IF p.last # Nil /\ e.rev < p.last.rev THEN p
    ELSE IF p.state = "UNRESOLVED_CONFLICT" /\ ~e.resolved
      THEN Seen(p, e, "UNRESOLVED_CONFLICT", p.accepted, Nil)
    ELSE IF e.status = "CONFLICT"
      THEN Seen(p, e, "UNRESOLVED_CONFLICT", e.at, Nil)
    ELSE IF e.state = "CANCELLED_ZERO_FILL"
      THEN Seen(p, e, "CLEARED", p.accepted, p.until)
    ELSE IF e.status = "PROVEN"
      THEN Seen(p, e, "ACTIVE", e.at, e.at + p.duration)
    ELSE IF e.status = "UNAVAILABLE" /\ e.state \in LiveStates
      THEN Seen(p, e, "UNRESOLVED_ACCEPTANCE_TIME", Nil, Nil)
    ELSE Seen(p, e, p.state, p.accepted, p.until)

(***************************************************************************)
(* apply_order_event up to the computed pin: a pin the event does not      *)
(* change is not written.                                                  *)
(***************************************************************************)
ReadPin(x, e) ==
    /\ job[x] = Nil
    /\ pin[e.attempt] # Nil
    /\ NewPin(pin[e.attempt], e) # pin[e.attempt]
    /\ job' = [job EXCEPT ![x] = [event |-> e, read |-> pin[e.attempt]]]
    /\ UNCHANGED <<config, pin, booked, applied, raced, now>>

(***************************************************************************)
(* _update_pin writes what was computed from the pin read, unless a newer  *)
(* revision has been written; a write in between of an older or of the     *)
(* same revision goes unnoticed.                                           *)
(***************************************************************************)
\* Mutant: the UPDATE asks for no revision.
WritableAlways(p, rev) == TRUE

Writable(p, rev) == p.last = Nil \/ p.last.rev <= rev

UpdatePin(x) ==
    /\ job[x] # Nil
    /\ LET e == job[x].event
           a == e.attempt IN
       IF Writable(pin[a], e.rev)
       THEN /\ pin' = [pin EXCEPT ![a] = NewPin(job[x].read, e)]
            /\ applied' = applied \cup {e}
            /\ raced' = IF pin[a] = job[x].read THEN raced ELSE raced \cup {a}
       ELSE UNCHANGED <<pin, applied, raced>>
    /\ job' = [job EXCEPT ![x] = Nil]
    /\ UNCHANGED <<config, booked, now>>

Rollback(x) ==
    /\ job[x] # Nil
    /\ job' = [job EXCEPT ![x] = Nil]
    /\ UNCHANGED <<config, pin, booked, applied, raced, now>>

(***************************************************************************)
(* cooldown_gate_for_pins                                                  *)
(***************************************************************************)
Pins == {pin[a] : a \in {b \in Attempt : pin[b] # Nil}}

Gate ==
    IF \E p \in Pins : p.state \in {"UNRESOLVED_ACCEPTANCE_TIME", "UNRESOLVED_CONFLICT"}
      THEN "UNAVAILABLE"
    ELSE IF \E p \in Pins : p.state = "ACTIVE" /\ p.until > now THEN "BLOCKED"
    ELSE "PASS"

Next ==
    \/ Tick
    \/ \E n \in Duration : EditConfiguration(n)
    \/ \E a \in Attempt : CreatePin(a)
    \/ \E x \in Applier :
        \/ \E e \in Event : ReadPin(x, e)
        \/ UpdatePin(x)
        \/ Rollback(x)

Spec == Init /\ [][Next]_vars

-----------------------------------------------------------------------------
AppliedTo(a) == {e \in applied : e.attempt = a}

Latest(a) == {e \in AppliedTo(a) : \A f \in AppliedTo(a) : f.rev <= e.rev}

Accepted(e) == e.status = "PROVEN" /\ e.state # "CANCELLED_ZERO_FILL"

Unproven(e) == e.status = "UNAVAILABLE" /\ e.state \in LiveStates

Disputed(a) ==
    /\ \E e \in AppliedTo(a) : e.status = "CONFLICT"
    /\ \A e \in AppliedTo(a) : ~e.resolved

Ended(a) == \E e \in AppliedTo(a) : e.state = "CANCELLED_ZERO_FILL"

(***************************************************************************)
(* However appliers interleave, the gate obeys the newest revision applied *)
(* to an attempt: an older event, delivered late or written late, does not *)
(* undo that it disputes the acceptance, cannot prove it yet, or proved it *)
(* within the booked duration.                                             *)
(***************************************************************************)
ObeysLatest ==
    \A a \in Attempt :
        Latest(a) # {} =>
          /\ (\A e \in Latest(a) : e.status = "CONFLICT" \/ Unproven(e)) => Gate = "UNAVAILABLE"
          /\ (\A e \in Latest(a) : Accepted(e) /\ now < e.at + booked[a]) => Gate # "PASS"

(***************************************************************************)
(* And it remembers more than the newest revision of an attempt none of    *)
(* whose pins was written over another that its writer had not read: a     *)
(* disputed acceptance blocks until it is resolved, and an accepted        *)
(* attempt blocks from its factual acceptance for the duration it was      *)
(* booked under, unless a cancelled zero fill ended it; late, repeated and *)
(* reordered events, events of other attempts and edits of the             *)
(* configuration do not shorten this.                                      *)
(***************************************************************************)
Remembers ==
    \A a \in Attempt \ raced :
        /\ Disputed(a) => Gate = "UNAVAILABLE"
        /\ \A e \in AppliedTo(a) :
             e.status = "PROVEN" /\ now < e.at + booked[a] /\ ~Ended(a) => Gate # "PASS"

FailsClosed == ObeysLatest /\ Remembers

(***************************************************************************)
(* What PORTFOLIO_RULES.md demands of every attempt, raced or not: a       *)
(* disputed acceptance keeps the symbol blocked until it is resolved.      *)
(***************************************************************************)
ConflictStands == \A a \in Attempt : Disputed(a) => Gate = "UNAVAILABLE"

(***************************************************************************)
(* The inductive strengthening.  A pin says what the newest event applied  *)
(* says; of an attempt that was not raced it also tells all that was       *)
(* applied; and an applier at work has read a pin of the same duration     *)
(* that its event is not older than.                                       *)
(***************************************************************************)
Unresolved == {"UNRESOLVED_ACCEPTANCE_TIME", "UNRESOLVED_CONFLICT"}

Says(p, e) ==
    /\ e.status = "CONFLICT" => p.state = "UNRESOLVED_CONFLICT"
    /\ Unproven(e) => p.state \in Unresolved
    /\ Accepted(e) => \/ p.state = "UNRESOLVED_CONFLICT"
                      \/ p.state = "ACTIVE" /\ p.until = e.at + p.duration

PinSaysLatest ==
    \A a \in Attempt :
        /\ pin[a] # Nil => booked[a] = pin[a].duration
        /\ AppliedTo(a) # {} =>
             /\ pin[a] # Nil
             /\ pin[a].last \in Latest(a)
             /\ Says(pin[a], pin[a].last)

PinTells ==
    \A a \in Attempt \ raced :
        /\ Disputed(a) => pin[a].state = "UNRESOLVED_CONFLICT"
        /\ \A e \in AppliedTo(a) :
             e.status = "PROVEN" /\ ~Ended(a)
             => \/ pin[a].state \in Unresolved
                \/ pin[a].state = "ACTIVE" /\ pin[a].until = e.at + pin[a].duration

JobIsRead ==
    \A x \in Applier :
        job[x] # Nil =>
          /\ pin[job[x].event.attempt] # Nil
          /\ job[x].read.duration = pin[job[x].event.attempt].duration
          /\ Writable(job[x].read, job[x].event.rev)

CooldownInv == TypeOK /\ PinSaysLatest /\ PinTells /\ JobIsRead
=============================================================================
