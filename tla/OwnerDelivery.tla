---------------------------- MODULE OwnerDelivery ----------------------------
(***************************************************************************)
(* What the durable transport promises to the owners that use it, without  *)
(* workers, leases, inbox rows or retries: a message is sent at most once  *)
(* under its dedupe key, and its owner effect is committed at most once    *)
(* and never before everything the effect reads has been committed.        *)
(***************************************************************************)
CONSTANTS Message,      \* message identities the producers may use
          DedupeKey,      \* DedupeKey[m]: the producer's dedupe key of m
          DependsOn,    \* DependsOn[m]: messages sent with the rows m's handler reads
          Certified     \* messages whose route has a handler

VARIABLES sent,         \* messages whose producing transaction committed
          delivered     \* messages whose owner effect committed

vars == <<sent, delivered>>

Init == sent = {} /\ delivered = {}

Send(m) ==
    /\ \A k \in sent : DedupeKey[k] # DedupeKey[m]
    /\ sent' = sent \cup {m}
    /\ UNCHANGED delivered

Deliver(m) ==
    /\ m \in (sent \cap Certified) \ delivered
    /\ DependsOn[m] \subseteq sent
    /\ delivered' = delivered \cup {m}
    /\ UNCHANGED sent

Next == \E m \in Message : Send(m) \/ Deliver(m)

Spec == Init /\ [][Next]_vars
=============================================================================
