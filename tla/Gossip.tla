------------------------------- MODULE Gossip -------------------------------
(***************************************************************************)
(* What node discovery promises, stated without threads, sockets or files. *)
(*                                                                         *)
(* Every node keeps a growing set of rows (its nodes.db).  A row names an  *)
(* address; the row of a live program is written as the node itself.  A    *)
(* node gains a row in two ways only: it announces itself, or it copies a  *)
(* row held by a neighbour, that is by a node it knows or by a node that   *)
(* knows it.  NodeDiscovery is shown to implement this module.             *)
(***************************************************************************)
EXTENDS Naturals

CONSTANTS
    Nodes,      \* the programs of the network, named by the row of their address
    Rows,       \* every row a nodes.db can hold
    Seed,       \* Seed[n]: the rows node n is installed with
    Announce    \* Announce[n]: the rows node n may write about itself

ASSUME GossipAssumption ==
    /\ Nodes \subseteq Rows
    /\ Seed \in [Nodes -> SUBSET Rows]
    /\ Announce \in [Nodes -> SUBSET Rows]

VARIABLE known

Neighbours(m, n) == m \in known[n] \/ n \in known[m]

Add(n, r) == known' = [known EXCEPT ![n] = @ \cup {r}]

Init == known = Seed

AnnounceSelf(n) == \E r \in Announce[n] : Add(n, r)

\* Fault: rows are taken from any node, known or not.
LearnFromAnyone(n, m) == \E r \in known[m] : Add(n, r)

Learn(n, m) ==
    /\ Neighbours(m, n)
    /\ \E r \in known[m] : Add(n, r)

Next == \E n \in Nodes : AnnounceSelf(n) \/ \E m \in Nodes : Learn(n, m)

Spec == Init /\ [][Next]_known

-----------------------------------------------------------------------------
TypeOK == known \in [Nodes -> SUBSET Rows]

(***************************************************************************)
(* An island is a set of nodes with no row leading in or out: what its     *)
(* members hold was seeded or announced inside it, and no other node names *)
(* one of its members.                                                     *)
(***************************************************************************)
Apart(S, rowsOf) ==
    /\ \A n \in S : rowsOf[n] \cap Nodes \subseteq S
    /\ \A n \in Nodes \ S : rowsOf[n] \cap S = {}

Local(S) == UNION {Seed[m] \cup Announce[m] : m \in S}

(* Rows never cross between two islands: if no seeded or announced row     *)
(* leads in or out of S, then no sequence of exchanges brings a member of  *)
(* S a row that no member of S was installed with or announced.  This is   *)
(* what "node discovery is about connecting to servers and grabbing their  *)
(* list of nodes" can and cannot do (node_discovery.c, lines 18-23).       *)
IslandsStayApart ==
    \A S \in SUBSET Nodes :
        Apart(S, Seed) /\ Apart(S, Announce)
            => /\ Apart(S, known)
               /\ \A n \in S : known[n] \subseteq Local(S)

(* A row once known is never forgotten.  Of this module that is plain, and *)
(* it is here for NodeDiscovery, where files are replaced and processes    *)
(* end: no exchange and no crash replaces a database.                      *)
NeverForgets == [][\A n \in Nodes : known[n] \subseteq known'[n]]_known
=============================================================================
