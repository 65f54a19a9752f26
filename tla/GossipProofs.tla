---------------------------- MODULE GossipProofs ----------------------------
(***************************************************************************)
(* Gossip, for every set of nodes and every rows they start with.          *)
(***************************************************************************)
EXTENDS Gossip, TLAPS

Inv == TypeOK /\ IslandsStayApart

(* Adding a row that is a row of the island to one of its members, and no  *)
(* row of it to anybody else, leaves the island apart.                     *)
LEMMA AddKeepsApart ==
    ASSUME NEW S \in SUBSET Nodes, NEW n \in Nodes, NEW r \in Rows,
           TypeOK, Add(n, r),
           Apart(S, known), \A m \in S : known[m] \subseteq Local(S),
           n \in S => r \in Local(S) /\ (r \in Nodes => r \in S),
           n \notin S => r \notin S
    PROVE  Apart(S, known)' /\ \A m \in S : known'[m] \subseteq Local(S)
<1>1. \A m \in Nodes : known'[m] = IF m = n THEN known[m] \cup {r} ELSE known[m]
    BY DEF Add, TypeOK
<1>2. \A m \in S : known'[m] \subseteq Local(S)
    BY <1>1
<1>3. \A m \in S : known'[m] \cap Nodes \subseteq S
    BY <1>1 DEF Apart
<1>4. \A m \in Nodes \ S : known'[m] \cap S = {}
    BY <1>1 DEF Apart
<1> QED
    BY <1>2, <1>3, <1>4 DEF Apart

(* Every step gives one node one row it announces or a neighbour holds.    *)
LEMMA InvStep == Inv /\ [Next]_known => Inv'
<1> SUFFICES ASSUME Inv, Next PROVE Inv'
    BY DEF Inv, TypeOK, IslandsStayApart, Apart
<1> USE GossipAssumption
<1>1. PICK n \in Nodes, r \in Rows :
        /\ Add(n, r)
        /\ \/ r \in Announce[n]
           \/ \E m \in Nodes : Neighbours(m, n) /\ r \in known[m]
    BY DEF Next, AnnounceSelf, Learn, Inv, TypeOK
<1>2. TypeOK'
    BY <1>1 DEF Inv, TypeOK, Add
<1>3. ASSUME NEW S \in SUBSET Nodes, Apart(S, Seed), Apart(S, Announce)
      PROVE  Apart(S, known)' /\ \A m \in S : known'[m] \subseteq Local(S)
    <2>1. Apart(S, known) /\ \A m \in S : known[m] \subseteq Local(S)
        BY <1>3 DEF Inv, IslandsStayApart
    <2>2. n \in S => r \in Local(S) /\ (r \in Nodes => r \in S)
        <3>1. CASE r \in Announce[n]
            BY <1>3, <3>1 DEF Apart, Local
        <3>2. CASE \E m \in Nodes : Neighbours(m, n) /\ r \in known[m]
            BY <2>1, <3>2 DEF Apart, Neighbours
        <3> QED BY <1>1, <3>1, <3>2
    <2>3. n \notin S => r \notin S
        <3>1. CASE r \in Announce[n]
            BY <1>3, <3>1 DEF Apart
        <3>2. CASE \E m \in Nodes : Neighbours(m, n) /\ r \in known[m]
            BY <2>1, <3>2 DEF Apart, Neighbours
        <3> QED BY <1>1, <3>1, <3>2
    <2> QED
        BY <1>1, <2>1, <2>2, <2>3, AddKeepsApart DEF Inv
<1> QED
    BY <1>2, <1>3 DEF Inv, IslandsStayApart, Apart, Local

(* Rows never cross between islands, whatever the network.                 *)
THEOREM GossipIslands == Spec => []IslandsStayApart
<1>1. Init => Inv
    BY GossipAssumption DEF Init, Inv, TypeOK, IslandsStayApart, Local
<1>2. Inv => IslandsStayApart
    BY DEF Inv
<1> QED
    BY <1>1, <1>2, InvStep, PTL DEF Spec

(* No step of the protocol takes back a row (for NodeDiscoveryProofs).     *)
LEMMA GossipNeverForgets == Spec => NeverForgets
<1>1. Init => TypeOK
    BY GossipAssumption DEF Init, TypeOK
<1>2. TypeOK /\ [Next]_known => TypeOK'
    BY GossipAssumption DEF TypeOK, Next, AnnounceSelf, Learn, Add
<1>3. TypeOK /\ [Next]_known
        => [\A n \in Nodes : known[n] \subseteq known'[n]]_known
    BY GossipAssumption DEF TypeOK, Next, AnnounceSelf, Learn, Add
<1> QED
    BY <1>1, <1>2, <1>3, PTL DEF Spec, NeverForgets
=============================================================================
