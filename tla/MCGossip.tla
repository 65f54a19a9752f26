------------------------------- MODULE MCGossip -------------------------------
(* Three nodes on two islands: a and b, of which a is installed with the   *)
(* row of b, and c by itself.  Every node may announce itself and a second *)
(* address of its own, which is no node.                                   *)
EXTENDS Gossip, TLC

CONSTANTS a, b, c, a2, b2, c2

Installed == a :> {b} @@ b :> {} @@ c :> {c}
Announced == a :> {a, a2} @@ b :> {b, b2} @@ c :> {c, c2}
=============================================================================
