------------------------- MODULE MCPlatformExchange -------------------------
(* Instances of PlatformExchange for TLC. *)
EXTENDS PlatformExchange

\* Two instances, one of which runs a single exchange.
CONSTANT Alone

TwoInstances == [p \in Clients |-> p = Alone]
=============================================================================
