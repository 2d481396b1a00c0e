------------------------------ MODULE MCGateway ------------------------------
(* Instances of the gateway for TLC. *)
EXTENDS GatewayProperties, TLC

CONSTANTS d1, d2, d3, d4, a1, a2

\* Action a1 is delivered twice or three times; the other deliveries are a
\* second action and a body that is not JSON.
Redelivered ==
  [d \in Deliveries |-> CASE d \in {d1, d2} -> a1 [] d = d3 -> a2 [] d = d4 -> NoAction]

Thrice == [d \in Deliveries |-> IF d = d4 THEN NoAction ELSE a1]

Redeliveries == Permutations({d1, d2, d3})
=============================================================================
