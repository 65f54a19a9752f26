--------------------------- MODULE MCNodeDiscovery ---------------------------
(***************************************************************************)
(* Small networks for NodeDiscovery.                                       *)
(***************************************************************************)
EXTENDS NodeDiscovery, TLC

CONSTANTS a, b, d

\* a and b know each other.
Mutual == a :> {b} @@ b :> {a}

\* a knows b, nobody knows a; b knows an address where nobody listens.
Chain == a :> {b} @@ b :> {d}

\* The same, b also dialling its own server.
ChainSelf == a :> {b} @@ b :> {b, d}

\* a knows b, and b is installed with an empty database.
Bare == a :> {b} @@ b :> {}
=============================================================================
