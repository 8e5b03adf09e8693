-------------------------- MODULE MCDurableMessages --------------------------
(***************************************************************************)
(* Two workers, the two halves of a start gate, which read each other's    *)
(* rows, and a research demo recheck with a delayed available_at.          *)
(***************************************************************************)
EXTENDS DurableMessages

CONSTANTS w1, w2, spec, auth, demo

MCConsumers == <<"Position", "Lifecycle", "ResearchDemo">>
MCResearchConsumers == {"ResearchDemo"}
MCConsumerOf == [m \in Message |-> IF m = demo THEN "ResearchDemo" ELSE "Lifecycle"]
MCDelayed   == {demo}
MCCertified == Message
MCDependsOn == [m \in Message |-> CASE m = spec -> {auth} [] m = auth -> {spec} [] OTHER -> {}]
MCDedupeKey == [m \in Message |-> m]
MCCreatedAt == [m \in Message |-> CASE m = spec -> 1 [] m = auth -> 2 [] m = demo -> 3]
=============================================================================
