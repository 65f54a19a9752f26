--------------------------- MODULE PropagationProofs ---------------------------
(***************************************************************************)
(* What holds for any number of hosts, in any state of the network.        *)
(***************************************************************************)
EXTENDS Propagation, FiniteSetTheorems, TLAPS

(* A table of hosts is no larger than the set of all of them.              *)
LEMMA CountBound ==
    ASSUME NEW rows \in SUBSET Hosts
    PROVE  Cardinality(rows) \in 0..Cardinality(Hosts)
<1>1. IsFiniteSet(rows) /\ Cardinality(rows) <= Cardinality(Hosts)
  BY PropagationAssumption, FS_Subset
<1>2. Cardinality(rows) \in Nat /\ Cardinality(Hosts) \in Nat
  BY <1>1, PropagationAssumption, FS_CardinalityType
<1>. QED
  BY <1>1, <1>2

(* The type invariant is preserved, the parts of a reply being counted by  *)
(* the invariant below.                                                    *)
Parts ==
    /\ \A h \in Hosts : arrived[h] + rest[h] <= 2
    /\ pc = "recv" => total + arrived[cur] + rest[cur] <= 2

LEMMA TypeStep == TypeOK /\ Parts /\ [Next]_vars => TypeOK' /\ Parts'
<1> SUFFICES ASSUME TypeOK, Parts, [Next]_vars PROVE TypeOK' /\ Parts'
  OBVIOUS
<1> USE DEF TypeOK, Parts, Reports
<1>1. CASE UNCHANGED vars
  BY <1>1 DEF vars, local, network
<1>e. ASSUME NEW s, Exit(s) PROVE TypeOK' /\ Parts'
  BY <1>e DEF Exit, network
<1>f. ASSUME NEW rows \in SUBSET Hosts, Fill(rows) PROVE TypeOK' /\ Parts'
  BY <1>f DEF Fill, network
<1>2. CASE GetNodeCount
  BY <1>2, CountBound DEF GetNodeCount, network
<1>3. CASE GetNodes
  BY <1>3, <1>f DEF GetNodes
<1>4. CASE GetNodesOverruns
  BY <1>4, <1>e, <1>f DEF GetNodesOverruns
<1>5. CASE DatabaseFails \/ Finish
  BY <1>5, <1>e DEF DatabaseFails, Finish
<1>6. CASE SendMessage
  BY <1>6 DEF SendMessage, Done, network
<1>7. CASE AllSent
  BY <1>7 DEF AllSent, network
<1>8. CASE RecvData
  BY <1>8 DEF RecvData, Returns, Done
<1>9. CASE RecvEnd \/ RecvError
  <2>1. total' = 0 /\ pc' = "receive" /\ todo' = todo \ {cur} /\ cur' = cur
    BY <1>9 DEF RecvEnd, RecvError, Returns, Done
  <2>2. /\ status' \in [Hosts -> BOOLEAN]
        /\ report' \in [Hosts -> Reports]
    BY <1>9 DEF RecvEnd, RecvError, Returns
  <2>3. UNCHANGED <<table, count, nodes, sock, arrived, rest, closed, heard>>
    BY <1>9 DEF RecvEnd, RecvError, network
  <2>. QED
    BY <2>1, <2>2, <2>3
<1>10. ASSUME NEW h \in Hosts, ConnectFails(h) \/ Connect(h) PROVE TypeOK' /\ Parts'
  BY <1>10 DEF ConnectFails, Connect, Done
<1>11. ASSUME NEW h \in Hosts, Skip(h) \/ Select(h) \/ SelectTimesOut(h)
       PROVE  TypeOK' /\ Parts'
  BY <1>11 DEF Skip, Select, SelectTimesOut, Done, network
<1>12. ASSUME NEW h \in Hosts, Handshake(h) \/ HangUp(h) \/ Discover(h)
       PROVE  TypeOK' /\ Parts'
  BY <1>12 DEF Handshake, HangUp, Discover, local, network
<1>13. ASSUME NEW h \in Hosts, Arrive(h) PROVE TypeOK' /\ Parts'
  BY <1>13 DEF Arrive, local
<1>. QED
  BY <1>1, <1>2, <1>3, <1>4, <1>5, <1>6, <1>7, <1>8, <1>9, <1>10, <1>11, <1>12, <1>13
     DEF Next, Main, World

(* At the start nothing has arrived.                                       *)
LEMMA TypeInit == Init => TypeOK /\ Parts
<1>1. Cardinality(Hosts) \in Nat
  BY PropagationAssumption, FS_CardinalityType
<1>. QED
  BY <1>1, PropagationAssumption DEF Init, TypeOK, Parts, Reports

(* Types are kept, and no part of a reply is counted twice: what arrived,  *)
(* what was read and what is still to come make up one reply.              *)
THEOREM TypeCorrect == Spec => []TypeOK
BY TypeInit, TypeStep, PTL DEF Spec

(* One more step for what is printed: a message is reported only when both *)
(* parts were read, and then nothing is left to arrive.                    *)
LEMMA WholeStep == TypeOK /\ Parts /\ WholeMessages /\ [Next]_vars => WholeMessages'
<1> SUFFICES ASSUME TypeOK, Parts, WholeMessages, [Next]_vars PROVE WholeMessages'
  OBVIOUS
<1> USE DEF TypeOK, Parts, WholeMessages
<1>1. CASE UNCHANGED <<report, rest, arrived>>
  BY <1>1
<1>2. CASE RecvData
  BY <1>2 DEF RecvData, Returns
<1>3. CASE RecvEnd \/ RecvError
  BY <1>3 DEF RecvEnd, RecvError, Returns, network
<1>4. ASSUME NEW h \in Hosts, SelectTimesOut(h) PROVE WholeMessages'
  BY <1>4 DEF SelectTimesOut, network
<1>5. ASSUME NEW h \in Hosts, Arrive(h) PROVE WholeMessages'
  BY <1>5 DEF Arrive
<1>6. CASE UNCHANGED vars
  BY <1>1, <1>6 DEF vars, network
<1>7. CASE GetNodeCount \/ GetNodes \/ GetNodesOverruns \/ DatabaseFails \/ SendMessage
           \/ AllSent \/ Finish
  BY <1>1, <1>7 DEF GetNodeCount, GetNodes, GetNodesOverruns, DatabaseFails, SendMessage,
     AllSent, Finish, Exit, Fill, network
<1>8. ASSUME NEW h \in Hosts, ConnectFails(h) \/ Connect(h) \/ Skip(h) \/ Select(h)
      PROVE  WholeMessages'
  BY <1>1, <1>8 DEF ConnectFails, Connect, Skip, Select, network
<1>9. ASSUME NEW h \in Hosts, Handshake(h) \/ HangUp(h) \/ Discover(h) PROVE WholeMessages'
  BY <1>1, <1>9 DEF Handshake, HangUp, Discover, network
<1>. QED
  BY <1>2, <1>3, <1>4, <1>5, <1>6, <1>7, <1>8, <1>9 DEF Next, Main, World

(* Whatever the hosts and the network do, a reply printed as a message is  *)
(* a whole one (receive_message, lines 197-211).                           *)
THEOREM MessagesAreWhole == Spec => []WholeMessages
<1>1. Init => WholeMessages
  BY DEF Init, WholeMessages
<1>. QED
  BY <1>1, TypeInit, TypeStep, WholeStep, PTL DEF Spec
===============================================================================
