----------------------- MODULE NodeDiscoveryEndsProofs ------------------------
(***************************************************************************)
(* The two ends of an exchange, who waits for whom, and the file the       *)
(* client opens, for every network and every failure bound.                *)
(***************************************************************************)
EXTENDS NodeDiscoveryProofs

-----------------------------------------------------------------------------
(***************************************************************************)
(* EndsAgree is not inductive.  A client gives up its connection in states *)
(* that only cpc tells from the others (Idle); it closes the connection of *)
(* a complete reply, which no server holds any longer (Finished); and an   *)
(* accepted connection must not be one that still waits.                   *)
(***************************************************************************)
Idle ==
    \A n \in Nodes :
        cpc[n] \in {"pick", "open", "scan", "insert", "sleep", "spin"} => peer[n] = NoNode
Finished ==
    \A n \in Nodes :
        cpc[n] \in {"trunc", "write"} => reply[n].sent = 2 \/ peer[n] = NoNode

ServedBy(c, m) ==
    /\ up[c] /\ peer[c] = m /\ reply[c].sent < 2
    /\ reply[c].sent > 0 => spc[m] = "sendBody"
ServingAgrees ==
    \A m \in Nodes : serving[m].from # NoNode => ServedBy(serving[m].from, m)

QueuesAt(c, m) ==
    up[c] /\ peer[c] = m /\ reply[c].sent = 0 /\ serving[m].from # c
BacklogAgrees ==
    \A m \in Nodes : \A i \in 1..Len(backlog[m]) :
        backlog[m][i].from # NoNode => QueuesAt(backlog[m][i].from, m)
BacklogDistinct ==
    \A m \in Nodes : \A i, j \in 1..Len(backlog[m]) :
        backlog[m][i].from = backlog[m][j].from /\ i # j => backlog[m][i].from = NoNode

Agree == Idle /\ Finished /\ ServingAgrees /\ BacklogAgrees /\ BacklogDistinct

(* Together with Sourced the strengthening implies the checked invariant.  *)
LEMMA AgreeImpliesEndsAgree == TypeOK /\ Sourced /\ Agree => EndsAgree
<1> SUFFICES ASSUME TypeOK, Sourced, Agree, NEW m \in Nodes
             PROVE  /\ \A conn \in HeldBy(m) : conn.from # NoNode =>
                          /\ up[conn.from] /\ peer[conn.from] = m
                          /\ conn.from \in db[m] \/ m \in db[conn.from]
                          /\ reply[conn.from].sent > 0 =>
                                conn = serving[m] /\ spc[m] = "sendBody"
                    /\ \A i, j \in 1..Len(backlog[m]) :
                          backlog[m][i].from = backlog[m][j].from /\ i # j
                              => backlog[m][i].from = NoNode
                    /\ \A i \in 1..Len(backlog[m]) :
                          backlog[m][i].from = serving[m].from => serving[m].from = NoNode
    BY DEF EndsAgree
<1>1. ASSUME NEW conn \in HeldBy(m), conn.from # NoNode
      PROVE  /\ up[conn.from] /\ peer[conn.from] = m
             /\ reply[conn.from].sent > 0 => conn = serving[m] /\ spc[m] = "sendBody"
             /\ conn.from \in Nodes
    <2>1. CASE conn = serving[m]
        <3>1. conn.from \in Nodes
            BY <1>1, <2>1 DEF TypeOK, Connections
        <3> QED BY <1>1, <2>1, <3>1 DEF Agree, ServingAgrees, ServedBy
    <2>2. ASSUME NEW i \in 1..Len(backlog[m]), conn = backlog[m][i]
          PROVE  /\ up[conn.from] /\ peer[conn.from] = m /\ reply[conn.from].sent = 0
                 /\ conn.from \in Nodes
        <3>1. backlog[m] \in Seq(Connections)
            BY DEF TypeOK
        <3>2. conn.from \in Nodes
            <4>1. backlog[m][i] \in Connections
                BY <3>1
            <4> QED BY <1>1, <2>2, <4>1 DEF Connections
        <3>3. QueuesAt(conn.from, m)
            BY <1>1, <2>2 DEF Agree, BacklogAgrees
        <3> QED BY <3>2, <3>3 DEF QueuesAt
    <2> QED BY <2>1, <2>2 DEF HeldBy
<1>2. ASSUME NEW conn \in HeldBy(m), conn.from # NoNode
      PROVE  m \in db[conn.from]
    BY <1>1, <1>2, NodeDiscoveryAssumption DEF Sourced, PeerKnown
<1>3. \A i \in 1..Len(backlog[m]) :
        backlog[m][i].from = serving[m].from => serving[m].from = NoNode
    BY DEF Agree, BacklogAgrees, QueuesAt
<1> QED BY <1>1, <1>2, <1>3 DEF Agree, BacklogDistinct

-----------------------------------------------------------------------------
(***************************************************************************)
(* Steps that leave every connection to its client, and the others.        *)
(***************************************************************************)
Held == ServingAgrees /\ BacklogAgrees /\ BacklogDistinct

(* Connections that keep their clients stay in agreement with them.        *)
LEMMA ConnectionsKept ==
    ASSUME Held, UNCHANGED <<peer, reply>>,
           \A n \in Nodes : up[n] => up'[n],
           TypeOK,
           \A m \in Nodes :
              /\ serving'[m].from = serving[m].from \/ serving'[m].from = NoNode
              /\ Len(backlog'[m]) = Len(backlog[m])
              /\ \A i \in 1..Len(backlog[m]) : backlog'[m][i].from = backlog[m][i].from
              /\ spc[m] = "sendBody" => spc'[m] = "sendBody" \/ serving'[m].from = NoNode
    PROVE  Held'
<1>1. \A m \in Nodes : serving[m].from \in Nodes \cup {NoNode}
    BY DEF TypeOK, Connections
<1>2. \A m \in Nodes : \A i \in 1..Len(backlog[m]) :
        backlog[m][i].from \in Nodes \cup {NoNode}
    <2> SUFFICES ASSUME NEW m \in Nodes, NEW i \in 1..Len(backlog[m])
                 PROVE  backlog[m][i].from \in Nodes \cup {NoNode}
        OBVIOUS
    <2>1. backlog[m] \in Seq(Connections)
        BY DEF TypeOK
    <2>2. backlog[m][i] \in Connections
        BY <2>1
    <2> QED BY <2>2 DEF Connections
<1>3. ServingAgrees'
    BY <1>1 DEF Held, ServingAgrees, ServedBy
<1>4. BacklogAgrees'
    <2> SUFFICES ASSUME NEW m \in Nodes, NEW i \in 1..Len(backlog'[m]),
                        backlog'[m][i].from # NoNode
                 PROVE  QueuesAt(backlog[m][i].from, m)'
        BY DEF BacklogAgrees
    <2>1. i \in 1..Len(backlog[m]) /\ backlog'[m][i].from = backlog[m][i].from
        OBVIOUS
    <2>2. QueuesAt(backlog[m][i].from, m) /\ backlog[m][i].from \in Nodes
        BY <1>2, <2>1 DEF Held, BacklogAgrees
    <2> QED BY <2>1, <2>2 DEF QueuesAt
<1>5. BacklogDistinct'
    BY DEF Held, BacklogDistinct
<1> QED BY <1>3, <1>4, <1>5 DEF Held

(* A send changes neither the number of connections nor their clients.     *)
LEMMA SendKeepsClients ==
    ASSUME TypeOK, NEW n \in Nodes, NEW s \in 0..2, NEW R \in SUBSET Rows,
           ClientSends(n, s, R)
    PROVE  \A m \in Nodes :
              /\ serving'[m].from = serving[m].from
              /\ Len(backlog'[m]) = Len(backlog[m])
              /\ \A i \in 1..Len(backlog[m]) : backlog'[m][i].from = backlog[m][i].from
<1>1. CASE peer[n] = NoNode
    BY <1>1 DEF ClientSends
<1>2. CASE peer[n] # NoNode
    <2>1. ASSUME NEW conn \in Connections PROVE Received(conn, n, s, R).from = conn.from
        BY DEF Received, Connections
    <2> SUFFICES ASSUME NEW m \in Nodes
                 PROVE  /\ serving'[m].from = serving[m].from
                        /\ Len(backlog'[m]) = Len(backlog[m])
                        /\ \A i \in 1..Len(backlog[m]) :
                              backlog'[m][i].from = backlog[m][i].from
        OBVIOUS
    <2>2. serving[m] \in Connections /\ backlog[m] \in Seq(Connections)
        BY DEF TypeOK
    <2>3. serving'[m] \in {serving[m], Received(serving[m], n, s, R)}
        BY <1>2 DEF ClientSends, TypeOK
    <2>4. CASE m = peer[n]
        <3>1. backlog'[m] = [i \in 1..Len(backlog[m]) |-> Received(backlog[m][i], n, s, R)]
            BY <1>2, <2>4 DEF ClientSends, TypeOK
        <3>2. Len(backlog[m]) \in Nat /\ \A i \in 1..Len(backlog[m]) : backlog[m][i] \in Connections
            BY <2>2
        <3>3. Len(backlog'[m]) = Len(backlog[m])
            BY <3>1, <3>2
        <3> QED BY <2>1, <2>2, <2>3, <3>1, <3>2, <3>3
    <2>5. CASE m # peer[n]
        BY <1>2, <2>1, <2>2, <2>3, <2>5 DEF ClientSends, TypeOK
    <2> QED BY <2>4, <2>5
<1> QED BY <1>1, <1>2

(* A client without a connection is the client of no connection.           *)
LEMMA NobodyHolds ==
    ASSUME TypeOK, Held, NEW n \in Nodes, peer[n] = NoNode \/ reply[n].sent = 2
    PROVE  \A m \in Nodes :
              /\ serving[m].from # n
              /\ \A i \in 1..Len(backlog[m]) : backlog[m][i].from # n
<1> SUFFICES ASSUME NEW m \in Nodes
             PROVE  /\ serving[m].from # n
                    /\ \A i \in 1..Len(backlog[m]) : backlog[m][i].from # n
    OBVIOUS
<1>1. n # NoNode /\ (peer[n] # m \/ reply[n].sent = 2)
    BY NodeDiscoveryAssumption
<1>2. serving[m].from # n
    BY <1>1 DEF Held, ServingAgrees, ServedBy
<1>3. ASSUME NEW i \in 1..Len(backlog[m]), backlog[m][i].from = n PROVE FALSE
    <2>1. QueuesAt(n, m)
        BY <1>1, <1>3 DEF Held, BacklogAgrees
    <2> QED BY <1>1, <2>1 DEF QueuesAt
<1> QED BY <1>2, <1>3

-----------------------------------------------------------------------------
(***************************************************************************)
(* The strengthening is inductive, one lemma per thread.                   *)
(***************************************************************************)
(* Every step of the client thread keeps both ends in agreement.           *)
LEMMA ClientAgrees ==
    ASSUME TypeOK, TypeOK', Agree, NEW n \in Nodes, Client(n) PROVE Agree'
<1> USE DEF ClientStep, serverVars, taskVars
<1>1. Held
    BY DEF Agree, Held
<1>2. ASSUME Idle', Finished', Held' PROVE Agree'
    BY <1>2 DEF Agree, Held
<1>3. ASSUME UNCHANGED <<up, peer, reply, spc, serving, backlog>> PROVE Held'
    BY <1>1, <1>3, ConnectionsKept
<1>4. ASSUME NEW r \in Rows, Dial(n, r) PROVE Agree'
    <2> USE <1>4 DEF Dial, Reachable
    <2>1. peer[n] = NoNode /\ up[n] /\ r \in Nodes
        BY DEF Agree, Idle
    <2>2. Idle' /\ Finished'
        BY DEF Agree, Idle, Finished, TypeOK
    <2>3. \A m \in Nodes : /\ serving[m].from # n
                           /\ \A i \in 1..Len(backlog[m]) : backlog[m][i].from # n
        BY <1>1, <2>1, NobodyHolds
    <2>4. \A c \in Nodes : c # n => peer'[c] = peer[c] /\ reply'[c] = reply[c]
        BY DEF TypeOK
    <2>5. peer'[n] = r /\ reply'[n].sent = 0 /\ up'[n]
        BY DEF TypeOK, Nothing
    <2>6. \A m \in Nodes : serving[m].from \in Nodes \cup {NoNode}
        BY DEF TypeOK, Connections
    <2>7. ServingAgrees'
        <3> SUFFICES ASSUME NEW m \in Nodes, serving[m].from # NoNode
                     PROVE  ServedBy(serving[m].from, m)'
            BY DEF ServingAgrees
        <3>1. ServedBy(serving[m].from, m)
            BY DEF Agree, ServingAgrees
        <3> QED BY <2>3, <2>4, <2>6, <3>1 DEF ServedBy
    <2>8. ASSUME NEW m \in Nodes, m # r PROVE backlog'[m] = backlog[m]
        BY <2>8 DEF TypeOK
    <2>9. /\ Len(backlog'[r]) = Len(backlog[r]) + 1 /\ Len(backlog[r]) \in Nat
          /\ \A i \in 1..Len(backlog[r]) : backlog'[r][i] = backlog[r][i]
          /\ backlog'[r][Len(backlog[r]) + 1].from = n
        <3>1. backlog'[r] = Append(backlog[r], [NoConnection EXCEPT !.from = n])
            BY <2>1 DEF TypeOK
        <3>2. backlog[r] \in Seq(Connections) /\ [NoConnection EXCEPT !.from = n] \in Connections
            BY <2>1, FreshConnection DEF TypeOK
        <3>3. [NoConnection EXCEPT !.from = n].from = n
            BY DEF NoConnection
        <3> QED BY <3>1, <3>2, <3>3
    <2>10. \A m \in Nodes : \A i \in 1..Len(backlog[m]) :
             backlog[m][i].from \in Nodes \cup {NoNode}
        <3>1. \A m \in Nodes : \A i \in 1..Len(backlog[m]) : backlog[m][i] \in Connections
            BY DEF TypeOK
        <3> QED BY <3>1 DEF Connections
    <2>11. ASSUME NEW m \in Nodes, NEW i \in 1..Len(backlog[m]),
                  backlog[m][i].from # NoNode
           PROVE  QueuesAt(backlog[m][i].from, m)'
        <3>1. QueuesAt(backlog[m][i].from, m)
            BY <2>11 DEF Agree, BacklogAgrees
        <3>2. backlog[m][i].from # n /\ backlog[m][i].from \in Nodes
            BY <2>3, <2>10, <2>11
        <3> QED BY <2>4, <3>1, <3>2 DEF QueuesAt
    <2>12. QueuesAt(n, r)'
        BY <2>1, <2>3, <2>5 DEF QueuesAt
    <2>13. BacklogAgrees'
        <3> SUFFICES ASSUME NEW m \in Nodes, NEW i \in 1..Len(backlog'[m]),
                            backlog'[m][i].from # NoNode
                     PROVE  QueuesAt(backlog[m][i].from, m)'
            BY DEF BacklogAgrees
        <3>1. CASE m # r
            BY <2>8, <2>11, <3>1
        <3>2. CASE m = r /\ i = Len(backlog[r]) + 1
            BY <2>9, <2>12, <3>2
        <3>3. CASE m = r /\ i # Len(backlog[r]) + 1
            <4>1. i \in 1..Len(backlog[m]) /\ backlog'[m][i] = backlog[m][i]
                BY <2>9, <3>3
            <4> QED BY <2>11, <4>1
        <3> QED BY <3>1, <3>2, <3>3
    <2>14. BacklogDistinct'
        <3> SUFFICES ASSUME NEW m \in Nodes,
                            NEW i \in 1..Len(backlog'[m]), NEW j \in 1..Len(backlog'[m]),
                            backlog'[m][i].from = backlog'[m][j].from, i # j
                     PROVE  backlog'[m][i].from = NoNode
            BY DEF BacklogDistinct
        <3>1. CASE m # r
            BY <2>8, <3>1 DEF Agree, BacklogDistinct
        <3>2. CASE m = r
            <4>1. \A k \in 1..Len(backlog'[m]) :
                    k = Len(backlog[r]) + 1 \/ k \in 1..Len(backlog[r])
                BY <2>9, <3>2
            <4>2. CASE i = Len(backlog[r]) + 1
                BY <2>3, <2>9, <3>2, <4>1, <4>2
            <4>3. CASE j = Len(backlog[r]) + 1
                BY <2>3, <2>9, <3>2, <4>1, <4>3
            <4>4. CASE i \in 1..Len(backlog[r]) /\ j \in 1..Len(backlog[r])
                BY <2>9, <3>2, <4>4 DEF Agree, BacklogDistinct
            <4> QED BY <4>1, <4>2, <4>3, <4>4
        <3> QED BY <3>1, <3>2
    <2> QED BY <1>2, <2>2, <2>7, <2>13, <2>14 DEF Held
<1>5. ASSUME NEW r \in Rows, Advance(n, r) PROVE Agree'
    BY <1>2, <1>3, <1>5 DEF Advance, Agree, Idle, Finished, TypeOK
<1>6. CASE DialFails(n)
    BY <1>2, <1>3, <1>6 DEF DialFails, Agree, Idle, Finished, TypeOK
<1>7. ASSUME NEW s \in 0..2, NEW R \in SUBSET Rows, ClientSends(n, s, R),
             UNCHANGED <<up, peer, reply, spc>>
      PROVE  Held'
    <2>1. \A m \in Nodes :
            /\ serving'[m].from = serving[m].from
            /\ Len(backlog'[m]) = Len(backlog[m])
            /\ \A i \in 1..Len(backlog[m]) : backlog'[m][i].from = backlog[m][i].from
        BY <1>7, SendKeepsClients
    <2> QED BY <1>1, <1>7, <2>1, ConnectionsKept
<1>8. CASE ClientSendSize(n)
    <2>1. Held'
        BY <1>7, <1>8 DEF ClientSendSize
    <2> QED BY <1>2, <1>8, <2>1 DEF ClientSendSize, Agree, Idle, Finished, TypeOK
<1>9. CASE ClientSendBody(n)
    <2>1. db[n] \in SUBSET Rows
        BY DEF TypeOK
    <2>2. Held'
        BY <1>7, <1>9, <2>1 DEF ClientSendBody
    <2> QED BY <1>2, <1>9, <2>2 DEF ClientSendBody, Agree, Idle, Finished, TypeOK
<1>10. CASE ClientRecvSize(n)
    BY <1>2, <1>3, <1>10 DEF ClientRecvSize, Agree, Idle, Finished, TypeOK
<1>11. CASE ClientRecvBody(n)
    BY <1>2, <1>3, <1>11 DEF ClientRecvBody, Agree, Idle, Finished, TypeOK
<1>12. CASE ClientLosesServer(n)
    <2>1. /\ UNCHANGED <<up, peer, reply, serverVars>> /\ peer[n] = NoNode
          /\ \A m \in Nodes : m # n => cpc'[m] = cpc[m]
        BY <1>12 DEF ClientLosesServer, TypeOK
    <2>2. Idle' /\ Finished'
        BY <2>1 DEF Agree, Idle, Finished
    <2> QED BY <1>2, <1>3, <2>1, <2>2
<1>13. CASE ClientTrunc(n)
    BY <1>2, <1>3, <1>13 DEF ClientTrunc, Agree, Idle, Finished, TypeOK
<1>14. CASE ClientWrite(n)
    <2>1. Idle' /\ Finished'
        BY <1>14 DEF ClientWrite, Agree, Idle, Finished, TypeOK
    <2>2. /\ \A c \in Nodes : c # n => peer'[c] = peer[c] /\ reply'[c] = reply[c]
          /\ UNCHANGED <<up, spc, serving, backlog>>
        BY <1>14 DEF ClientWrite, TypeOK
    <2>3. \A m \in Nodes : /\ serving[m].from # n
                           /\ \A i \in 1..Len(backlog[m]) : backlog[m][i].from # n
        BY <1>1, <1>14, NobodyHolds DEF ClientWrite, Agree, Finished
    <2>4. \A m \in Nodes :
            /\ serving[m].from \in Nodes \cup {NoNode}
            /\ \A i \in 1..Len(backlog[m]) : backlog[m][i].from \in Nodes \cup {NoNode}
        <3>1. \A m \in Nodes : \A i \in 1..Len(backlog[m]) : backlog[m][i] \in Connections
            BY DEF TypeOK
        <3> QED BY <3>1 DEF Connections, TypeOK
    <2>5. ServingAgrees'
        <3> SUFFICES ASSUME NEW m \in Nodes, serving[m].from # NoNode
                     PROVE  ServedBy(serving[m].from, m)'
            BY <2>2 DEF ServingAgrees
        <3>1. ServedBy(serving[m].from, m)
            BY DEF Agree, ServingAgrees
        <3> QED BY <2>2, <2>3, <2>4, <3>1 DEF ServedBy
    <2>6. BacklogAgrees'
        <3> SUFFICES ASSUME NEW m \in Nodes, NEW i \in 1..Len(backlog[m]),
                            backlog[m][i].from # NoNode
                     PROVE  QueuesAt(backlog[m][i].from, m)'
            BY <2>2 DEF BacklogAgrees
        <3>1. QueuesAt(backlog[m][i].from, m)
            BY DEF Agree, BacklogAgrees
        <3> QED BY <2>2, <2>3, <2>4, <3>1 DEF QueuesAt
    <2>7. BacklogDistinct'
        BY <2>2 DEF Agree, BacklogDistinct
    <2> QED BY <1>2, <2>1, <2>5, <2>6, <2>7 DEF Held
<1>15. CASE Open(n)
    BY <1>2, <1>3, <1>15 DEF Open, Agree, Idle, Finished, TypeOK
<1>16. CASE Scan(n)
    BY <1>2, <1>3, <1>16 DEF Scan, Agree, Idle, Finished, TypeOK
<1>17. CASE ScanGivesUp(n)
    BY <1>2, <1>3, <1>17 DEF ScanGivesUp, Agree, Idle, Finished, TypeOK
<1>18. CASE Unlink(n)
    BY <1>2, <1>3, <1>18 DEF Unlink, Agree, Idle, Finished, TypeOK
<1>19. CASE Wake(n)
    BY <1>2, <1>3, <1>19 DEF Wake, Agree, Idle, Finished, TypeOK
<1> QED
    BY <1>4, <1>5, <1>6, <1>8, <1>9, <1>10, <1>11, <1>12, <1>13, <1>14, <1>15,
       <1>16, <1>17, <1>18, <1>19 DEF Client, InsertRow, SkipRow

(* Every step of the server thread keeps both ends in agreement.           *)
LEMMA ServerAgrees ==
    ASSUME TypeOK, TypeOK', Agree, NEW n \in Nodes, Server(n) PROVE Agree'
<1> USE DEF ServerStep, clientVars, taskVars
<1>1. Held
    BY DEF Agree, Held
<1>2. ASSUME Idle', Finished', Held' PROVE Agree'
    BY <1>2 DEF Agree, Held
<1>3. ASSUME UNCHANGED <<up, cpc, peer, reply, backlog>>,
             \A m \in Nodes : serving'[m].from = serving[m].from \/ serving'[m].from = NoNode,
             \A m \in Nodes : m # n => spc'[m] = spc[m],
             spc[n] = "sendBody" => serving'[n].from = NoNode
      PROVE  Agree'
    <2>1. Held'
        BY <1>1, <1>3, ConnectionsKept
    <2> QED BY <1>2, <1>3, <2>1 DEF Agree, Idle, Finished
<1>4. CASE Accept(n)
    <2> USE <1>4 DEF Accept
    <2>1. /\ backlog[n] \in Seq(Connections) /\ Len(backlog[n]) \in Nat \ {0}
          /\ serving'[n] = backlog[n][1]
          /\ Len(backlog'[n]) = Len(backlog[n]) - 1
          /\ \A i \in 1..Len(backlog'[n]) : backlog'[n][i] = backlog[n][i + 1]
        BY DEF TypeOK
    <2>2. \A m \in Nodes : m # n => /\ serving'[m] = serving[m] /\ backlog'[m] = backlog[m]
                                    /\ spc'[m] = spc[m]
        BY DEF TypeOK
    <2>3. ServingAgrees'
        <3>1. ASSUME serving'[n].from # NoNode PROVE ServedBy(serving[n].from, n)'
            <4>1. 1 \in 1..Len(backlog[n]) /\ backlog[n][1].from # NoNode
                BY <2>1, <3>1
            <4>2. QueuesAt(backlog[n][1].from, n)
                BY <3>1, <4>1 DEF Agree, BacklogAgrees
            <4>3. backlog[n][1] = serving'[n]
                BY <2>1
            <4>4. /\ up[serving'[n].from] /\ peer[serving'[n].from] = n
                  /\ reply[serving'[n].from].sent = 0
                BY <4>2, <4>3 DEF QueuesAt
            <4> QED BY <3>1, <4>3, <4>4 DEF ServedBy
        <3>2. ASSUME NEW m \in Nodes, m # n, serving'[m].from # NoNode
              PROVE  ServedBy(serving[m].from, m)'
            BY <2>2, <3>2 DEF Agree, ServingAgrees, ServedBy
        <3> QED BY <3>1, <3>2 DEF ServingAgrees
    <2>4. BacklogAgrees'
        <3> SUFFICES ASSUME NEW m \in Nodes, NEW i \in 1..Len(backlog'[m]),
                            backlog'[m][i].from # NoNode
                     PROVE  QueuesAt(backlog[m][i].from, m)'
            BY DEF BacklogAgrees
        <3>1. CASE m # n
            <4>1. QueuesAt(backlog[m][i].from, m) /\ backlog'[m] = backlog[m]
                BY <2>2, <3>1 DEF Agree, BacklogAgrees
            <4> QED BY <2>2, <3>1, <4>1 DEF QueuesAt
        <3>2. CASE m = n
            <4>1. /\ i + 1 \in 1..Len(backlog[n]) /\ 1 \in 1..Len(backlog[n]) /\ i + 1 # 1
                  /\ backlog'[m][i] = backlog[n][i + 1]
                BY <2>1, <3>2
            <4>2. QueuesAt(backlog[n][i + 1].from, n)
                BY <4>1 DEF Agree, BacklogAgrees
            <4>3. serving'[n].from # backlog[n][i + 1].from
                BY <2>1, <4>1 DEF Agree, BacklogDistinct
            <4> QED BY <3>2, <4>1, <4>2, <4>3 DEF QueuesAt
        <3> QED BY <3>1, <3>2
    <2>5. BacklogDistinct'
        BY <2>1, <2>2 DEF Agree, BacklogDistinct
    <2>6. Idle' /\ Finished'
        BY DEF Agree, Idle, Finished
    <2> QED BY <1>2, <2>3, <2>4, <2>5, <2>6 DEF Held
<1>5. CASE ServerRecvSize(n)
    BY <1>3, <1>5 DEF ServerRecvSize, TypeOK
<1>6. CASE ServerRecvBody(n)
    BY <1>3, <1>6 DEF ServerRecvBody, TypeOK
<1>7. CASE ServerLosesClient(n)
    BY <1>3, <1>7 DEF ServerLosesClient, TypeOK, NoConnection
<1>8. CASE ServerTrunc(n)
    BY <1>3, <1>8 DEF ServerTrunc, TypeOK
<1>9. CASE ServerWrite(n)
    BY <1>3, <1>9 DEF ServerWrite, TypeOK
<1>10. ASSUME NEW c \in Nodes, c = serving[n].from
       PROVE  /\ cpc[c] \notin {"trunc", "write"}
              /\ \A m \in Nodes : m # n => serving[m].from # c
              /\ \A m \in Nodes : \A i \in 1..Len(backlog[m]) : backlog[m][i].from # c
    <2>1. up[c] /\ peer[c] = n /\ reply[c].sent # 2 /\ c # NoNode
        BY <1>10, NodeDiscoveryAssumption DEF Agree, ServingAgrees, ServedBy, TypeOK, Halves
    <2>2. cpc[c] \notin {"trunc", "write"}
        BY <2>1, NodeDiscoveryAssumption DEF Agree, Finished
    <2>3. \A m \in Nodes : m # n => serving[m].from # c
        BY <2>1 DEF Agree, ServingAgrees, ServedBy
    <2>4. ASSUME NEW m \in Nodes, NEW i \in 1..Len(backlog[m]), backlog[m][i].from = c
          PROVE  FALSE
        <3>1. QueuesAt(c, m)
            BY <2>1, <2>4 DEF Agree, BacklogAgrees
        <3> QED BY <1>10, <2>1, <3>1 DEF QueuesAt
    <2> QED BY <2>2, <2>3, <2>4
<1>11. ASSUME NEW s \in 1..2, NEW R \in SUBSET Rows, ServerSends(n, s, R),
              serving[n].from # NoNode,
              UNCHANGED <<up, cpc, peer, backlog>>,
              \A m \in Nodes : m # n => spc'[m] = spc[m] /\ serving'[m] = serving[m],
              \/ s = 2 /\ serving'[n].from = NoNode
              \/ s = 1 /\ serving'[n] = serving[n] /\ spc'[n] = "sendBody"
       PROVE  Agree'
    <2> DEFINE c == serving[n].from
    <2>1. c \in Nodes
        BY <1>11 DEF TypeOK, Connections
    <2>2. \A x \in Nodes : reply'[x] = IF x = c THEN [sent |-> s, rows |-> R] ELSE reply[x]
        BY <1>11, <2>1 DEF ServerSends, TypeOK
    <2>3. reply'[c].sent = s
        BY <2>1, <2>2
    <2>4. /\ cpc[c] \notin {"trunc", "write"}
          /\ \A m \in Nodes : m # n => serving[m].from # c
          /\ \A m \in Nodes : \A i \in 1..Len(backlog[m]) : backlog[m][i].from # c
        BY <1>10, <2>1
    <2>5. Idle' /\ Finished'
        BY <1>11, <2>2, <2>4 DEF Agree, Idle, Finished
    <2>6. \A m \in Nodes :
            /\ serving[m].from \in Nodes \cup {NoNode}
            /\ \A i \in 1..Len(backlog[m]) : backlog[m][i].from \in Nodes \cup {NoNode}
        <3>1. \A m \in Nodes : \A i \in 1..Len(backlog[m]) : backlog[m][i] \in Connections
            BY DEF TypeOK
        <3> QED BY <3>1 DEF Connections, TypeOK
    <2>7. ServingAgrees'
        <3> SUFFICES ASSUME NEW m \in Nodes, serving'[m].from # NoNode
                     PROVE  ServedBy(serving[m].from, m)'
            BY DEF ServingAgrees
        <3>1. CASE m = n
            <4>1. s = 1 /\ serving'[n] = serving[n] /\ spc'[n] = "sendBody"
                BY <1>11, <3>1
            <4>2. ServedBy(c, n)
                BY <1>11 DEF Agree, ServingAgrees
            <4> QED BY <1>11, <2>3, <3>1, <4>1, <4>2 DEF ServedBy
        <3>2. CASE m # n
            <4>1. ServedBy(serving[m].from, m) /\ serving'[m] = serving[m] /\ spc'[m] = spc[m]
                BY <1>11, <3>2 DEF Agree, ServingAgrees
            <4>2. serving[m].from \in Nodes /\ serving[m].from # c
                BY <2>4, <2>6, <3>2, <4>1
            <4> QED BY <1>11, <2>2, <4>1, <4>2 DEF ServedBy
        <3> QED BY <3>1, <3>2
    <2>8. BacklogAgrees'
        <3> SUFFICES ASSUME NEW m \in Nodes, NEW i \in 1..Len(backlog[m]),
                            backlog[m][i].from # NoNode
                     PROVE  QueuesAt(backlog[m][i].from, m)'
            BY <1>11 DEF BacklogAgrees
        <3>1. QueuesAt(backlog[m][i].from, m)
            BY DEF Agree, BacklogAgrees
        <3>2. backlog[m][i].from \in Nodes /\ backlog[m][i].from # c
            BY <2>4, <2>6
        <3>3. reply'[backlog[m][i].from] = reply[backlog[m][i].from]
            BY <2>2, <3>2
        <3>4. serving'[m].from # backlog[m][i].from
            BY <1>11, <3>1 DEF QueuesAt
        <3> QED BY <1>11, <3>1, <3>3, <3>4 DEF QueuesAt
    <2>9. BacklogDistinct'
        BY <1>11 DEF Agree, BacklogDistinct
    <2> QED BY <1>2, <2>5, <2>7, <2>8, <2>9 DEF Held
<1>12. CASE ServerSendSize(n)
    <2>1. CASE serving[n].from = NoNode
        BY <1>3, <1>12, <2>1 DEF ServerSendSize, ServerSends, TypeOK
    <2>2. CASE serving[n].from # NoNode
        BY <1>11, <1>12, <2>2 DEF ServerSendSize, TypeOK
    <2> QED BY <2>1, <2>2
<1>13. CASE ServerSendBody(n)
    <2>1. serving'[n].from = NoNode
        BY <1>13 DEF ServerSendBody, TypeOK, NoConnection
    <2>2. \A m \in Nodes : m # n => spc'[m] = spc[m] /\ serving'[m] = serving[m]
        BY <1>13 DEF ServerSendBody, TypeOK
    <2>3. ServerSends(n, 2, db[n]) /\ UNCHANGED <<up, cpc, peer, backlog>>
        BY <1>13 DEF ServerSendBody
    <2>4. CASE serving[n].from = NoNode
        BY <1>3, <2>1, <2>2, <2>3, <2>4 DEF ServerSends
    <2>5. CASE serving[n].from # NoNode
        <3>1. db[n] \in SUBSET Rows
            BY DEF TypeOK
        <3> QED BY <1>11, <2>1, <2>2, <2>3, <2>5, <3>1
    <2> QED BY <2>4, <2>5
<1> QED
    BY <1>4, <1>5, <1>6, <1>7, <1>8, <1>9, <1>12, <1>13 DEF Server

(* The end of a process takes it from both ends of all its connections.    *)
LEMMA DieAgrees ==
    ASSUME TypeOK, TypeOK', Agree, NEW n \in Nodes, Die(n) PROVE Agree'
<1> USE NodeDiscoveryAssumption DEF Agree
<1>1. /\ \A c \in Nodes : peer'[c] = IF c = n \/ peer[c] = n THEN NoNode ELSE peer[c]
      /\ \A c \in Nodes : c # n => /\ up'[c] = up[c] /\ cpc'[c] = cpc[c]
                                   /\ reply'[c] = reply[c] /\ spc'[c] = spc[c]
      /\ cpc'[n] = "pick" /\ peer'[n] = NoNode
    BY DEF Die, TypeOK
<1>2. Idle' /\ Finished'
    BY <1>1 DEF Idle, Finished
<1>3. ASSUME NEW conn \in Connections
      PROVE  Orphaned(conn, n).from = IF conn.from = n THEN NoNode ELSE conn.from
    BY DEF Orphaned, Connections
<1>4. \A m \in Nodes :
        /\ serving[m].from \in Nodes \cup {NoNode}
        /\ \A i \in 1..Len(backlog[m]) : /\ backlog[m][i] \in Connections
                                         /\ backlog[m][i].from \in Nodes \cup {NoNode}
    <2>1. \A m \in Nodes : \A i \in 1..Len(backlog[m]) : backlog[m][i] \in Connections
        BY DEF TypeOK
    <2> QED BY <2>1 DEF Connections, TypeOK
<1>5. /\ serving'[n].from = NoNode
      /\ \A m \in Nodes : m # n =>
            serving'[m].from = IF serving[m].from = n THEN NoNode ELSE serving[m].from
    BY <1>3 DEF Die, TypeOK, NoConnection
<1>6. /\ Len(backlog'[n]) = 0
      /\ \A m \in Nodes : m # n =>
            /\ Len(backlog'[m]) = Len(backlog[m])
            /\ \A i \in 1..Len(backlog[m]) : backlog'[m][i].from =
                  IF backlog[m][i].from = n THEN NoNode ELSE backlog[m][i].from
    <2>1. backlog'[n] = <<>>
        BY DEF Die
    <2>2. ASSUME NEW m \in Nodes, m # n
          PROVE  /\ Len(backlog'[m]) = Len(backlog[m])
                 /\ \A i \in 1..Len(backlog[m]) :
                       backlog'[m][i] = Orphaned(backlog[m][i], n)
        <3>1. backlog'[m] = [i \in 1..Len(backlog[m]) |-> Orphaned(backlog[m][i], n)]
            BY <2>2 DEF Die
        <3>2. Len(backlog[m]) \in Nat
            BY DEF TypeOK
        <3> QED BY <3>1, <3>2
    <2> QED BY <1>3, <1>4, <2>1, <2>2
<1>7. ServingAgrees'
    <2> SUFFICES ASSUME NEW m \in Nodes, serving'[m].from # NoNode
                 PROVE  ServedBy(serving[m].from, m)'
        BY DEF ServingAgrees
    <2>1. /\ m # n /\ serving'[m].from = serving[m].from
          /\ serving[m].from \in Nodes \ {n}
        BY <1>4, <1>5
    <2>2. ServedBy(serving[m].from, m)
        BY <2>1 DEF ServingAgrees
    <2>3. /\ up'[serving[m].from] /\ peer'[serving[m].from] = m
          /\ reply'[serving[m].from].sent < 2
          /\ reply'[serving[m].from].sent > 0 => spc'[m] = "sendBody"
        BY <1>1, <2>1, <2>2 DEF ServedBy
    <2> QED BY <2>1, <2>3 DEF ServedBy
<1>8. BacklogAgrees'
    <2> SUFFICES ASSUME NEW m \in Nodes, NEW i \in 1..Len(backlog'[m]),
                        backlog'[m][i].from # NoNode
                 PROVE  QueuesAt(backlog[m][i].from, m)'
        BY DEF BacklogAgrees
    <2>1. m # n /\ i \in 1..Len(backlog[m])
        BY <1>6
    <2>2. /\ backlog'[m][i].from = backlog[m][i].from
          /\ backlog[m][i].from \in Nodes \ {n}
        BY <1>4, <1>6, <2>1
    <2>3. QueuesAt(backlog[m][i].from, m)
        BY <2>1, <2>2 DEF BacklogAgrees
    <2>4. serving'[m].from # backlog[m][i].from
        BY <1>5, <2>1, <2>2, <2>3 DEF QueuesAt
    <2>5. /\ up'[backlog[m][i].from] /\ peer'[backlog[m][i].from] = m
          /\ reply'[backlog[m][i].from].sent = 0
        BY <1>1, <2>1, <2>2, <2>3 DEF QueuesAt
    <2> QED BY <2>2, <2>4, <2>5 DEF QueuesAt
<1>9. BacklogDistinct'
    <2> SUFFICES ASSUME NEW m \in Nodes,
                        NEW i \in 1..Len(backlog'[m]), NEW j \in 1..Len(backlog'[m]),
                        backlog'[m][i].from = backlog'[m][j].from, i # j
                 PROVE  backlog'[m][i].from = NoNode
        BY DEF BacklogDistinct
    <2>1. m # n /\ i \in 1..Len(backlog[m]) /\ j \in 1..Len(backlog[m])
        BY <1>6
    <2> QED BY <1>6, <2>1 DEF BacklogDistinct
<1> QED BY <1>2, <1>7, <1>8, <1>9

(* At the start no connection is held.                                     *)
LEMMA AgreeInit == Init => Agree
BY DEF Init, Agree, Idle, Finished, ServingAgrees, BacklogAgrees, BacklogDistinct,
       NoConnection

(* A process that has ended has no server thread: it begins anew.          *)
Stopped == \A n \in Nodes : ~up[n] => spc[n] = "accept"

LEMMA StoppedStep == TypeOK /\ Stopped /\ [Next]_vars => Stopped'
<1> SUFFICES ASSUME TypeOK, Stopped, [Next]_vars PROVE Stopped'
    OBVIOUS
<1> USE DEF Stopped, TypeOK
<1>1. ASSUME NEW n \in Nodes, Client(n) PROVE UNCHANGED <<up, spc>>
    BY <1>1 DEF Client, Dial, InsertRow, SkipRow, Advance, DialFails, ClientSendSize,
       ClientSendBody, ClientRecvSize, ClientRecvBody, ClientLosesServer, ClientTrunc,
       ClientWrite, Open, Scan, ScanGivesUp, Unlink, Wake, serverVars
<1>2. ASSUME NEW n \in Nodes, Server(n)
      PROVE  up[n] /\ up' = up /\ \E to : spc' = [spc EXCEPT ![n] = to]
    BY <1>2 DEF Server, Accept, ServerRecvSize, ServerRecvBody, ServerLosesClient, ServerTrunc,
       ServerWrite, ServerSendSize, ServerSendBody, ServerStep
<1>3. ASSUME NEW n \in Nodes, Tasks(n) PROVE UNCHANGED <<up, spc>>
    BY <1>3 DEF Tasks, LearnIp, TaskInsert, TaskInsertBusy, TaskWake, serverVars
<1>4. ASSUME NEW n \in Nodes, Ends(n) PROVE Stopped'
    BY <1>4 DEF Ends, BrokenPipe, MatchNull, Crash, Die
<1>5. ASSUME NEW n \in Nodes, Restart(n) PROVE Stopped'
    BY <1>5 DEF Restart
<1>6. CASE UNCHANGED vars
    BY <1>6 DEF vars, serverVars
<1> QED
    BY <1>1, <1>2, <1>3, <1>4, <1>5, <1>6 DEF Next

LEMMA StoppedInit == Init => Stopped
BY DEF Init, Stopped

(* The strengthening is inductive.                                         *)
LEMMA AgreeStep == TypeOK /\ Stopped /\ Agree /\ [Next]_vars => Agree'
<1> SUFFICES ASSUME TypeOK, Stopped, Agree, [Next]_vars PROVE Agree'
    OBVIOUS
<1>1. TypeOK'
    BY TypeStep
<1>2. ASSUME UNCHANGED <<cpc, peer, reply, serverVars>>,
             \A n \in Nodes : up[n] => up'[n]
      PROVE  Agree'
    <2>1. Held'
        BY <1>2, ConnectionsKept DEF Agree, Held, serverVars
    <2> QED BY <1>2, <2>1 DEF Agree, Held, Idle, Finished
<1>3. ASSUME NEW n \in Nodes, Tasks(n) PROVE Agree'
    BY <1>2, <1>3 DEF Tasks, TaskStep, LearnIp, TaskInsert, TaskInsertBusy, TaskWake,
                      clientVars
<1>4. ASSUME NEW n \in Nodes, Ends(n) PROVE Agree'
    BY <1>1, <1>4, DieAgrees DEF Ends, BrokenPipe, MatchNull, Crash
<1>5. ASSUME NEW n \in Nodes, Restart(n) PROVE Agree'
    <2>1. /\ UNCHANGED <<cpc, peer, reply, serving, backlog>>
          /\ \A m \in Nodes : up[m] => up'[m]
          /\ \A m \in Nodes : spc[m] = "sendBody" => spc'[m] = "sendBody"
        BY <1>5 DEF Restart, clientVars, TypeOK, Stopped
    <2>2. Held'
        BY <2>1, ConnectionsKept DEF Agree, Held
    <2> QED BY <2>1, <2>2 DEF Agree, Held, Idle, Finished
<1>6. CASE UNCHANGED vars
    BY <1>2, <1>6 DEF vars, clientVars
<1> QED
    BY <1>1, <1>3, <1>4, <1>5, <1>6, ClientAgrees, ServerAgrees DEF Next

(* No server answers the client of another connection, in any network and  *)
(* whatever processes end.                                                 *)
THEOREM ServersAnswerTheirClients == Spec => []EndsAgree
BY TypeInit, TypeStep, SourcedInit, SourcedStep, StoppedInit, StoppedStep, AgreeInit, AgreeStep,
   AgreeImpliesEndsAgree, PTL DEF Spec

-----------------------------------------------------------------------------
(***************************************************************************)
(* Nobody waits in vain.  The strengthening follows an exchange from both  *)
(* sides: how much a client has sent is where its thread stands, and a     *)
(* client without a complete answer is still held by its server.           *)
(***************************************************************************)
InStep(conn, at) ==
    conn.from # NoNode =>
        \/ conn.sent = 0 /\ at[conn.from] = "sendSize"
        \/ conn.sent = 1 /\ at[conn.from] = "sendBody"
        \/ conn.sent = 2 /\ at[conn.from] \in {"recvSize", "recvBody"}

Holds(m, c) ==
    serving[m].from = c \/ \E i \in 1..Len(backlog[m]) : backlog[m][i].from = c

ServedInStep ==
    \A m \in Nodes :
        /\ InStep(serving[m], cpc)
        /\ spc[m] = "accept" => serving[m].from = NoNode
        /\ spc[m] = "recvBody" => serving[m].sent >= 1
QueuedInStep ==
    \A m \in Nodes : \A i \in 1..Len(backlog[m]) : InStep(backlog[m][i], cpc)
Awaited ==
    \A m, n \in Nodes : peer[n] = m /\ reply[n].sent < 2 => Holds(m, n)

Meet == ServedInStep /\ QueuedInStep /\ Awaited

(* The strengthening implies the checked invariant.                        *)
LEMMA MeetImpliesNobodyWaits == TypeOK /\ Meet => NobodyWaitsInVain
<1> SUFFICES ASSUME TypeOK, Meet, NEW m \in Nodes
             PROVE  /\ serving[m].from # NoNode =>
                          /\ spc[m] = "recvSize" /\ serving[m].sent = 0
                                => cpc[serving[m].from] = "sendSize"
                          /\ spc[m] = "recvBody" /\ serving[m].sent < 2
                                => cpc[serving[m].from] = "sendBody"
                    /\ spc[m] = "accept" /\ backlog[m] = <<>> =>
                          \A n \in Nodes : peer[n] = m =>
                             /\ cpc[n] = "recvSize" => reply[n].sent >= 1
                             /\ cpc[n] = "recvBody" => reply[n].sent = 2
    BY DEF NobodyWaitsInVain
<1>1. serving[m].sent \in 0..2 /\ InStep(serving[m], cpc)
      /\ (spc[m] = "recvBody" => serving[m].sent >= 1)
    BY DEF TypeOK, Connections, Meet, ServedInStep
<1>2. ASSUME spc[m] = "accept", backlog[m] = <<>>, NEW n \in Nodes, peer[n] = m
      PROVE  reply[n].sent = 2
    <2>1. ~Holds(m, n)
        BY <1>2, NodeDiscoveryAssumption DEF Meet, ServedInStep, Holds
    <2>2. reply[n].sent \in 0..2
        BY DEF TypeOK, Halves
    <2> QED BY <1>2, <2>1, <2>2 DEF Meet, Awaited
<1> QED BY <1>1, <1>2 DEF InStep

(* Connections are of their type, wherever a server holds them.            *)
LEMMA ConnectionTypes ==
    ASSUME TypeOK
    PROVE  \A m \in Nodes :
              /\ serving[m] \in Connections /\ serving[m].from \in Nodes \cup {NoNode}
              /\ backlog[m] \in Seq(Connections) /\ Len(backlog[m]) \in Nat
              /\ \A i \in 1..Len(backlog[m]) :
                    /\ backlog[m][i] \in Connections
                    /\ backlog[m][i].from \in Nodes \cup {NoNode}
<1>1. \A m \in Nodes : \A i \in 1..Len(backlog[m]) : backlog[m][i] \in Connections
    BY DEF TypeOK
<1>2. \A m \in Nodes : serving[m] \in Connections /\ backlog[m] \in Seq(Connections)
    BY DEF TypeOK
<1>3. \A conn \in Connections : conn.from \in Nodes \cup {NoNode}
    BY DEF Connections
<1> SUFFICES ASSUME NEW m \in Nodes
             PROVE  /\ serving[m] \in Connections /\ serving[m].from \in Nodes \cup {NoNode}
                    /\ backlog[m] \in Seq(Connections) /\ Len(backlog[m]) \in Nat
                    /\ \A i \in 1..Len(backlog[m]) :
                          /\ backlog[m][i] \in Connections
                          /\ backlog[m][i].from \in Nodes \cup {NoNode}
    OBVIOUS
<1>4. Len(backlog[m]) \in Nat
    BY <1>2
<1> QED BY <1>1, <1>2, <1>3, <1>4

(* A step of a client that no server holds leaves the others in step.      *)
LEMMA AloneKeepsMeeting ==
    ASSUME TypeOK, Meet, NEW n \in Nodes, UNCHANGED <<spc, serving, backlog>>,
           \A m \in Nodes : /\ serving[m].from # n
                            /\ \A i \in 1..Len(backlog[m]) : backlog[m][i].from # n,
           \A c \in Nodes : c # n =>
              cpc'[c] = cpc[c] /\ peer'[c] = peer[c] /\ reply'[c] = reply[c],
           peer'[n] = NoNode \/ (peer'[n] = peer[n] /\ reply'[n] = reply[n])
    PROVE  Meet'
<1>1. ServedInStep'
    <2> SUFFICES ASSUME NEW m \in Nodes PROVE InStep(serving[m], cpc')
        BY DEF Meet, ServedInStep
    <2> QED BY ConnectionTypes DEF Meet, ServedInStep, InStep
<1>2. QueuedInStep'
    <2> SUFFICES ASSUME NEW m \in Nodes, NEW i \in 1..Len(backlog[m])
                 PROVE  InStep(backlog[m][i], cpc')
        BY DEF QueuedInStep
    <2>1. InStep(backlog[m][i], cpc)
        BY DEF Meet, QueuedInStep
    <2>2. backlog[m][i].from \in Nodes \cup {NoNode} /\ backlog[m][i].from # n
        BY ConnectionTypes
    <2> QED BY <2>1, <2>2 DEF InStep
<1>3. Awaited'
    BY NodeDiscoveryAssumption DEF Meet, Awaited, Holds
<1> QED BY <1>1, <1>2, <1>3 DEF Meet

(* A send of a client takes its connection one step on with its thread.    *)
LEMMA SendKeepsMeeting ==
    ASSUME TypeOK, Agree, Meet, NEW n \in Nodes, NEW s \in 1..2, NEW R \in SUBSET Rows,
           ClientSends(n, s, R), UNCHANGED <<spc, peer, reply>>,
           \A c \in Nodes : c # n => cpc'[c] = cpc[c],
           s = 1 => cpc'[n] = "sendBody",
           s = 2 => cpc'[n] = "recvSize"
    PROVE  Meet'
<1>1. ASSUME NEW conn \in Connections
      PROVE  /\ Received(conn, n, s, R).from = conn.from
             /\ Received(conn, n, s, R).sent = IF conn.from = n THEN s ELSE conn.sent
    BY DEF Received, Connections
<1>2. ASSUME NEW conn \in Connections, NEW new, InStep(conn, cpc),
             new.from = conn.from, new.sent = IF conn.from = n THEN s ELSE conn.sent
      PROVE  InStep(new, cpc')
    BY <1>2, NodeDiscoveryAssumption DEF InStep, Connections
<1>3. ASSUME NEW m \in Nodes, serving[m].from = n PROVE peer[n] = m
    BY <1>3, NodeDiscoveryAssumption DEF Agree, ServingAgrees, ServedBy
<1>4. ASSUME NEW m \in Nodes, NEW i \in 1..Len(backlog[m]), backlog[m][i].from = n
      PROVE  peer[n] = m
    <2>1. QueuesAt(n, m)
        BY <1>4, NodeDiscoveryAssumption DEF Agree, BacklogAgrees
    <2> QED BY <2>1 DEF QueuesAt
<1>5. ASSUME NEW m \in Nodes
      PROVE  /\ serving'[m].from = serving[m].from
             /\ serving'[m].sent = IF serving[m].from = n THEN s ELSE serving[m].sent
    <2>1. CASE peer[n] = m
        <3>1. serving'[m] = Received(serving[m], n, s, R)
            BY <2>1, NodeDiscoveryAssumption DEF ClientSends, TypeOK
        <3> QED BY <1>1, <3>1, ConnectionTypes
    <2>2. CASE peer[n] # m
        <3>1. serving'[m] = serving[m]
            BY <2>2 DEF ClientSends, TypeOK
        <3> QED BY <1>3, <2>2, <3>1
    <2> QED BY <2>1, <2>2
<1>6. ASSUME NEW m \in Nodes
      PROVE  /\ Len(backlog'[m]) = Len(backlog[m])
             /\ \A i \in 1..Len(backlog[m]) :
                   /\ backlog'[m][i].from = backlog[m][i].from
                   /\ backlog'[m][i].sent =
                        IF backlog[m][i].from = n THEN s ELSE backlog[m][i].sent
    <2>1. CASE peer[n] = m
        <3>. peer[n] # NoNode
            BY <2>1, NodeDiscoveryAssumption
        <3>1. backlog'[m] = [i \in 1..Len(backlog[m]) |-> Received(backlog[m][i], n, s, R)]
            BY <2>1 DEF ClientSends, TypeOK
        <3>2. Len(backlog[m]) \in Nat /\ \A i \in 1..Len(backlog[m]) : backlog[m][i] \in Connections
            BY ConnectionTypes
        <3>3. Len(backlog'[m]) = Len(backlog[m])
            BY <3>1, <3>2
        <3> QED BY <1>1, <3>1, <3>2, <3>3
    <2>2. CASE peer[n] # m
        <3>1. backlog'[m] = backlog[m]
            BY <2>2 DEF ClientSends, TypeOK
        <3> QED BY <1>4, <2>2, <3>1
    <2> QED BY <2>1, <2>2
<1>7. ServedInStep'
    <2> SUFFICES ASSUME NEW m \in Nodes
                 PROVE  /\ InStep(serving'[m], cpc')
                        /\ spc[m] = "accept" => serving'[m].from = NoNode
                        /\ spc[m] = "recvBody" => serving'[m].sent >= 1
        BY DEF ServedInStep
    <2>1. /\ InStep(serving[m], cpc) /\ serving[m] \in Connections
          /\ spc[m] = "accept" => serving[m].from = NoNode
          /\ spc[m] = "recvBody" => serving[m].sent >= 1
        BY ConnectionTypes DEF Meet, ServedInStep
    <2> QED BY <1>2, <1>5, <2>1
<1>8. QueuedInStep'
    <2> SUFFICES ASSUME NEW m \in Nodes, NEW i \in 1..Len(backlog[m])
                 PROVE  InStep(backlog'[m][i], cpc')
        BY <1>6 DEF QueuedInStep
    <2>1. InStep(backlog[m][i], cpc) /\ backlog[m][i] \in Connections
        BY ConnectionTypes DEF Meet, QueuedInStep
    <2> QED BY <1>2, <1>6, <2>1
<1>9. Awaited'
    <2> SUFFICES ASSUME NEW m \in Nodes, NEW c \in Nodes, Holds(m, c) PROVE Holds(m, c)'
        BY DEF Meet, Awaited
    <2> QED BY <1>5, <1>6 DEF Holds
<1> QED BY <1>7, <1>8, <1>9 DEF Meet

(* A client that dials is held from then on, and has sent nothing.         *)
LEMMA DialKeepsMeeting ==
    ASSUME TypeOK, Agree, Meet, NEW n \in Nodes, NEW r \in Rows, Dial(n, r)
    PROVE  Meet'
<1> USE DEF Dial, Reachable, ClientStep
<1>1. peer[n] = NoNode /\ r \in Nodes
    BY DEF Agree, Idle
<1>2. \A m \in Nodes : /\ serving[m].from # n
                       /\ \A i \in 1..Len(backlog[m]) : backlog[m][i].from # n
    BY <1>1, NobodyHolds DEF Agree, Held
<1>3. /\ \A c \in Nodes : c # n => /\ cpc'[c] = cpc[c] /\ peer'[c] = peer[c]
                                   /\ reply'[c] = reply[c]
      /\ cpc'[n] = "sendSize" /\ peer'[n] = r
      /\ UNCHANGED <<spc, serving>>
    BY DEF TypeOK
<1>4. ASSUME NEW m \in Nodes, m # r PROVE backlog'[m] = backlog[m]
    BY <1>4 DEF TypeOK
<1>5. /\ Len(backlog'[r]) = Len(backlog[r]) + 1 /\ Len(backlog[r]) \in Nat
      /\ \A i \in 1..Len(backlog[r]) : backlog'[r][i] = backlog[r][i]
      /\ backlog'[r][Len(backlog[r]) + 1] = [NoConnection EXCEPT !.from = n]
    <2>1. backlog'[r] = Append(backlog[r], [NoConnection EXCEPT !.from = n])
        BY <1>1 DEF TypeOK
    <2>2. backlog[r] \in Seq(Connections) /\ [NoConnection EXCEPT !.from = n] \in Connections
        BY <1>1, FreshConnection DEF TypeOK
    <2> QED BY <2>1, <2>2
<1>6. [NoConnection EXCEPT !.from = n].from = n /\ [NoConnection EXCEPT !.from = n].sent = 0
    BY DEF NoConnection
<1> HIDE DEF Dial, Reachable, ClientStep
<1>7. ServedInStep'
    <2>1. ASSUME NEW m \in Nodes PROVE InStep(serving[m], cpc')
        <3>1. InStep(serving[m], cpc)
            BY DEF Meet, ServedInStep
        <3>2. serving[m].from \in Nodes \cup {NoNode} /\ serving[m].from # n
            BY <1>2, ConnectionTypes
        <3> QED BY <1>3, <3>1, <3>2 DEF InStep
    <2> QED BY <1>3, <2>1 DEF Meet, ServedInStep
<1>8. ASSUME NEW m \in Nodes, NEW i \in 1..Len(backlog[m]) PROVE InStep(backlog[m][i], cpc')
    <2>1. InStep(backlog[m][i], cpc)
        BY DEF Meet, QueuedInStep
    <2>2. backlog[m][i].from \in Nodes \cup {NoNode} /\ backlog[m][i].from # n
        BY <1>2, ConnectionTypes
    <2> QED BY <1>3, <2>1, <2>2 DEF InStep
<1>9. QueuedInStep'
    <2> SUFFICES ASSUME NEW m \in Nodes, NEW i \in 1..Len(backlog'[m])
                 PROVE  InStep(backlog'[m][i], cpc')
        BY DEF QueuedInStep
    <2>1. CASE m # r
        BY <1>4, <1>8, <2>1
    <2>2. CASE m = r /\ i = Len(backlog[r]) + 1
        BY <1>3, <1>5, <1>6, <2>2 DEF InStep
    <2>3. CASE m = r /\ i # Len(backlog[r]) + 1
        <3>1. i \in 1..Len(backlog[m]) /\ backlog'[m][i] = backlog[m][i]
            BY <1>5, <2>3
        <3> QED BY <1>8, <3>1
    <2> QED BY <2>1, <2>2, <2>3
<1>10. ASSUME NEW m \in Nodes, NEW c \in Nodes, Holds(m, c) PROVE Holds(m, c)'
    <2>1. CASE m # r
        BY <1>3, <1>4, <1>10, <2>1 DEF Holds
    <2>2. CASE m = r
        BY <1>3, <1>5, <1>10, <2>2 DEF Holds
    <2> QED BY <2>1, <2>2
<1>11. Holds(r, n)'
    <2>1. Len(backlog[r]) + 1 \in 1..Len(backlog'[r])
        BY <1>5
    <2> QED BY <1>5, <1>6, <2>1 DEF Holds
<1>12. Awaited'
    <2> SUFFICES ASSUME NEW m \in Nodes, NEW c \in Nodes, peer'[c] = m, reply'[c].sent < 2
                 PROVE  Holds(m, c)'
        BY DEF Awaited
    <2>1. CASE c = n
        BY <1>3, <1>11, <2>1
    <2>2. CASE c # n
        BY <1>3, <1>10, <2>2 DEF Meet, Awaited
    <2> QED BY <2>1, <2>2
<1> QED BY <1>7, <1>9, <1>12 DEF Meet

(* Every step of the client thread keeps the exchanges in step.            *)
LEMMA ClientMeets ==
    ASSUME TypeOK, TypeOK', Agree, Meet, NEW n \in Nodes, Client(n) PROVE Meet'
<1> USE DEF ClientStep, serverVars
<1>h. Held
    BY DEF Agree, Held
<1>a. ASSUME UNCHANGED <<spc, serving, backlog, peer, reply>>,
             \A c \in Nodes : c # n => cpc'[c] = cpc[c],
             \/ cpc[n] \in {"pick", "open", "scan", "insert", "sleep", "spin", "trunc", "write"}
             \/ peer[n] = NoNode \/ reply[n].sent = 2
      PROVE  Meet'
    <2>1. peer[n] = NoNode \/ reply[n].sent = 2
        BY <1>a DEF Agree, Idle, Finished
    <2>2. \A m \in Nodes : /\ serving[m].from # n
                           /\ \A i \in 1..Len(backlog[m]) : backlog[m][i].from # n
        BY <1>h, <2>1, NobodyHolds
    <2> QED BY <1>a, <2>2, AloneKeepsMeeting
<1>1. ASSUME NEW r \in Rows, Dial(n, r) PROVE Meet'
    BY <1>1, DialKeepsMeeting
<1>2. ASSUME NEW r \in Rows, Advance(n, r) PROVE Meet'
    BY <1>2, <1>a DEF Advance, TypeOK
<1>3. CASE DialFails(n)
    BY <1>3, <1>a DEF DialFails, TypeOK
<1>4. CASE ClientSendSize(n)
    <2>1. /\ ClientSends(n, 1, {}) /\ UNCHANGED <<spc, peer, reply>>
          /\ cpc'[n] = "sendBody" /\ \A c \in Nodes : c # n => cpc'[c] = cpc[c]
        BY <1>4 DEF ClientSendSize, TypeOK
    <2> QED BY <2>1, SendKeepsMeeting
<1>5. CASE ClientSendBody(n)
    <2>1. /\ ClientSends(n, 2, db[n]) /\ UNCHANGED <<spc, peer, reply>>
          /\ cpc'[n] = "recvSize" /\ \A c \in Nodes : c # n => cpc'[c] = cpc[c]
        BY <1>5 DEF ClientSendBody, TypeOK
    <2>2. db[n] \in SUBSET Rows
        BY DEF TypeOK
    <2> QED BY <2>1, <2>2, SendKeepsMeeting
<1>6. CASE ClientRecvSize(n)
    <2>1. /\ cpc[n] = "recvSize" /\ cpc'[n] = "recvBody"
          /\ \A c \in Nodes : c # n => cpc'[c] = cpc[c]
          /\ UNCHANGED <<spc, serving, backlog, peer, reply>>
        BY <1>6 DEF ClientRecvSize, TypeOK
    <2>2. ASSUME NEW conn \in Connections, InStep(conn, cpc) PROVE InStep(conn, cpc')
        BY <2>1, <2>2 DEF InStep, Connections
    <2>3. ServedInStep'
        <3>1. \A m \in Nodes : InStep(serving[m], cpc')
            BY <2>2, ConnectionTypes DEF Meet, ServedInStep
        <3> QED BY <2>1, <3>1 DEF Meet, ServedInStep
    <2>4. QueuedInStep'
        <3>1. \A m \in Nodes : \A i \in 1..Len(backlog[m]) : InStep(backlog[m][i], cpc')
            BY <2>2, ConnectionTypes DEF Meet, QueuedInStep
        <3> QED BY <2>1, <3>1 DEF QueuedInStep
    <2>5. Awaited'
        BY <2>1 DEF Meet, Awaited, Holds
    <2> QED BY <2>3, <2>4, <2>5 DEF Meet
<1>7. CASE ClientRecvBody(n)
    BY <1>7, <1>a DEF ClientRecvBody, TypeOK
<1>8. CASE ClientLosesServer(n)
    BY <1>8, <1>a DEF ClientLosesServer, TypeOK
<1>9. CASE ClientTrunc(n)
    BY <1>9, <1>a DEF ClientTrunc, TypeOK
<1>10. CASE ClientWrite(n)
    <2>1. /\ UNCHANGED <<spc, serving, backlog>> /\ cpc[n] = "write" /\ peer'[n] = NoNode
          /\ \A c \in Nodes : c # n =>
                cpc'[c] = cpc[c] /\ peer'[c] = peer[c] /\ reply'[c] = reply[c]
        BY <1>10 DEF ClientWrite, TypeOK
    <2>2. \A m \in Nodes : /\ serving[m].from # n
                           /\ \A i \in 1..Len(backlog[m]) : backlog[m][i].from # n
        BY <1>h, <2>1, NobodyHolds DEF Agree, Finished
    <2> QED BY <2>1, <2>2, AloneKeepsMeeting
<1>11. CASE Open(n)
    BY <1>11, <1>a DEF Open, TypeOK
<1>12. CASE Scan(n)
    BY <1>12, <1>a DEF Scan, TypeOK
<1>13. CASE ScanGivesUp(n)
    BY <1>13, <1>a DEF ScanGivesUp, TypeOK
<1>14. CASE Unlink(n)
    BY <1>14, <1>a DEF Unlink, TypeOK
<1>15. CASE Wake(n)
    BY <1>15, <1>a DEF Wake, TypeOK
<1> QED
    BY <1>1, <1>2, <1>3, <1>4, <1>5, <1>6, <1>7, <1>8, <1>9, <1>10, <1>11, <1>12,
       <1>13, <1>14, <1>15 DEF Client, InsertRow, SkipRow

(* Every step of the server thread keeps the exchanges in step.            *)
LEMMA ServerMeets ==
    ASSUME TypeOK, TypeOK', Agree, Meet, NEW n \in Nodes, Server(n) PROVE Meet'
<1> USE DEF ServerStep, clientVars
<1>a. ASSUME UNCHANGED <<cpc, backlog, peer>>,
             \A m \in Nodes : m # n => spc'[m] = spc[m] /\ serving'[m] = serving[m],
             \/ serving'[n] = serving[n] /\ UNCHANGED reply
             \/ serving'[n] = serving[n] /\ serving[n].from # NoNode
                /\ \A c \in Nodes : c # serving[n].from => reply'[c] = reply[c]
             \/ serving'[n] = NoConnection /\ serving[n].from = NoNode /\ UNCHANGED reply
             \/ serving'[n] = NoConnection /\ serving[n].from # NoNode
                /\ reply'[serving[n].from].sent = 2
                /\ \A c \in Nodes : c # serving[n].from => reply'[c] = reply[c],
             spc'[n] = "accept" => serving'[n].from = NoNode,
             spc'[n] = "recvBody" => serving'[n].sent >= 1
      PROVE  Meet'
    <2>1. NoConnection.from = NoNode
        BY DEF NoConnection
    <2>2. ServedInStep'
        <3> SUFFICES ASSUME NEW m \in Nodes
                     PROVE  /\ InStep(serving'[m], cpc')
                            /\ spc'[m] = "accept" => serving'[m].from = NoNode
                            /\ spc'[m] = "recvBody" => serving'[m].sent >= 1
            BY DEF ServedInStep
        <3>1. InStep(serving[m], cpc)
            BY DEF Meet, ServedInStep
        <3>2. serving'[m] = serving[m] \/ (m = n /\ serving'[m] = NoConnection)
            BY <1>a
        <3>3. InStep(serving'[m], cpc')
            BY <1>a, <2>1, <3>1, <3>2 DEF InStep
        <3> QED BY <1>a, <3>3 DEF Meet, ServedInStep
    <2>3. QueuedInStep'
        BY <1>a DEF Meet, QueuedInStep
    <2>4. Awaited'
        <3> SUFFICES ASSUME NEW m \in Nodes, NEW c \in Nodes,
                            peer[c] = m, reply'[c].sent < 2
                     PROVE  Holds(m, c)'
            BY <1>a DEF Awaited
        <3>1. CASE m = n /\ serving[n].from = c
            BY <1>a, <2>1, <3>1, NodeDiscoveryAssumption DEF Holds
        <3>2. CASE ~(m = n /\ serving[n].from = c)
            <4>1. CASE reply'[c] = reply[c]
                <5>1. Holds(m, c)
                    BY <4>1 DEF Meet, Awaited
                <5> QED BY <1>a, <3>2, <5>1 DEF Holds
            <4>2. CASE serving[n].from = c
                <5>1. peer[c] = n
                    BY <4>2, NodeDiscoveryAssumption DEF Agree, ServingAgrees, ServedBy
                <5> QED BY <3>2, <4>2, <5>1
            <4> QED BY <1>a, <4>1, <4>2
        <3> QED BY <3>1, <3>2
    <2> QED BY <2>2, <2>3, <2>4 DEF Meet
<1>1. CASE Accept(n)
    <2>1. /\ backlog[n] \in Seq(Connections) /\ Len(backlog[n]) \in Nat \ {0}
          /\ serving'[n] = backlog[n][1] /\ spc[n] = "accept" /\ spc'[n] = "recvSize"
          /\ Len(backlog'[n]) = Len(backlog[n]) - 1
          /\ \A i \in 1..Len(backlog'[n]) : backlog'[n][i] = backlog[n][i + 1]
        BY <1>1 DEF Accept, TypeOK
    <2>2. /\ \A m \in Nodes : m # n => /\ serving'[m] = serving[m]
                                       /\ backlog'[m] = backlog[m] /\ spc'[m] = spc[m]
          /\ UNCHANGED <<cpc, peer, reply>>
        BY <1>1 DEF Accept, TypeOK
    <2>3. ServedInStep'
        <3> SUFFICES ASSUME NEW m \in Nodes
                     PROVE  /\ InStep(serving'[m], cpc)
                            /\ spc'[m] = "accept" => serving'[m].from = NoNode
                            /\ spc'[m] = "recvBody" => serving'[m].sent >= 1
            BY <2>2 DEF ServedInStep
        <3>1. CASE m = n
            <4>1. 1 \in 1..Len(backlog[n])
                BY <2>1
            <4> QED BY <2>1, <3>1, <4>1 DEF Meet, QueuedInStep
        <3>2. CASE m # n
            BY <2>2, <3>2 DEF Meet, ServedInStep
        <3> QED BY <3>1, <3>2
    <2>4. QueuedInStep'
        <3> SUFFICES ASSUME NEW m \in Nodes, NEW i \in 1..Len(backlog'[m])
                     PROVE  InStep(backlog'[m][i], cpc)
            BY <2>2 DEF QueuedInStep
        <3>1. CASE m = n
            <4>1. i + 1 \in 1..Len(backlog[n]) /\ backlog'[m][i] = backlog[n][i + 1]
                BY <2>1, <3>1
            <4> QED BY <4>1 DEF Meet, QueuedInStep
        <3>2. CASE m # n
            BY <2>2, <3>2 DEF Meet, QueuedInStep
        <3> QED BY <3>1, <3>2
    <2>5. Awaited'
        <3> SUFFICES ASSUME NEW m \in Nodes, NEW c \in Nodes, Holds(m, c) PROVE Holds(m, c)'
            BY <2>2 DEF Meet, Awaited
        <3>1. CASE m # n
            BY <2>2, <3>1 DEF Holds
        <3>2. CASE m = n
            <4>1. serving[n].from # c
                BY <2>1, NodeDiscoveryAssumption DEF Meet, ServedInStep
            <4>2. PICK i \in 1..Len(backlog[n]) : backlog[n][i].from = c
                BY <3>2, <4>1 DEF Holds
            <4>3. CASE i = 1
                BY <2>1, <3>2, <4>2, <4>3 DEF Holds
            <4>4. CASE i # 1
                <5>1. i - 1 \in 1..Len(backlog'[n]) /\ backlog'[n][i - 1] = backlog[n][i]
                    BY <2>1, <4>4
                <5> QED BY <3>2, <4>2, <5>1 DEF Holds
            <4> QED BY <4>3, <4>4
        <3> QED BY <3>1, <3>2
    <2> QED BY <2>3, <2>4, <2>5 DEF Meet
<1>2. CASE ServerRecvSize(n)
    BY <1>2, <1>a DEF ServerRecvSize, TypeOK
<1>3. CASE ServerRecvBody(n)
    BY <1>3, <1>a DEF ServerRecvBody, TypeOK
<1>4. CASE ServerLosesClient(n)
    <2>1. PICK to \in {"accept", "spin", "trunc"} :
            /\ spc' = [spc EXCEPT ![n] = to]
            /\ serving' = IF to = "accept"
                          THEN [serving EXCEPT ![n] = NoConnection] ELSE serving
        BY <1>4 DEF ServerLosesClient
    <2>2. /\ UNCHANGED <<cpc, backlog, peer, reply>> /\ serving[n].from = NoNode
          /\ \A m \in Nodes : m # n => spc'[m] = spc[m] /\ serving'[m] = serving[m]
          /\ spc'[n] = to
          /\ to = "accept" => serving'[n] = NoConnection
          /\ to # "accept" => serving'[n] = serving[n]
        BY <1>4, <2>1 DEF ServerLosesClient, TypeOK
    <2> QED BY <1>a, <2>2 DEF NoConnection
<1>5. CASE ServerTrunc(n)
    BY <1>5, <1>a DEF ServerTrunc, TypeOK
<1>6. CASE ServerWrite(n)
    BY <1>6, <1>a DEF ServerWrite, TypeOK
<1>7. CASE ServerSendSize(n)
    <2>1. /\ UNCHANGED <<cpc, backlog, peer, serving>> /\ spc'[n] = "sendBody"
          /\ \A m \in Nodes : m # n => spc'[m] = spc[m]
          /\ ServerSends(n, 1, {})
        BY <1>7 DEF ServerSendSize, TypeOK
    <2>2. CASE serving[n].from = NoNode
        BY <1>a, <2>1, <2>2 DEF ServerSends
    <2>3. CASE serving[n].from # NoNode
        BY <1>a, <2>1, <2>3 DEF ServerSends, TypeOK
    <2> QED BY <2>2, <2>3
<1>8. CASE ServerSendBody(n)
    <2>1. /\ UNCHANGED <<cpc, backlog, peer>> /\ spc'[n] = "accept"
          /\ \A m \in Nodes : m # n => spc'[m] = spc[m] /\ serving'[m] = serving[m]
          /\ serving'[n] = NoConnection
          /\ ServerSends(n, 2, db[n])
        BY <1>8 DEF ServerSendBody, TypeOK
    <2>2. NoConnection.from = NoNode
        BY DEF NoConnection
    <2>3. CASE serving[n].from = NoNode
        BY <1>a, <2>1, <2>2, <2>3 DEF ServerSends
    <2>4. CASE serving[n].from # NoNode
        <3>1. serving[n].from \in Nodes
            BY <2>4, ConnectionTypes
        <3>2. /\ reply'[serving[n].from].sent = 2
              /\ \A c \in Nodes : c # serving[n].from => reply'[c] = reply[c]
            BY <2>1, <2>4, <3>1 DEF ServerSends, TypeOK
        <3> QED BY <1>a, <2>1, <2>2, <2>4, <3>2
    <2> QED BY <2>3, <2>4
<1> QED
    BY <1>1, <1>2, <1>3, <1>4, <1>5, <1>6, <1>7, <1>8 DEF Server

(* A process that ends takes its ends of all exchanges with it.            *)
LEMMA DieMeets ==
    ASSUME TypeOK, TypeOK', Meet, NEW n \in Nodes, Die(n) PROVE Meet'
<1> USE NodeDiscoveryAssumption
<1>1. /\ \A c \in Nodes : peer'[c] = IF c = n \/ peer[c] = n THEN NoNode ELSE peer[c]
      /\ \A c \in Nodes : c # n => cpc'[c] = cpc[c] /\ reply'[c] = reply[c] /\ spc'[c] = spc[c]
      /\ spc'[n] = "accept"
    BY DEF Die, TypeOK
<1>2. ASSUME NEW conn \in Connections
      PROVE  /\ Orphaned(conn, n).from = IF conn.from = n THEN NoNode ELSE conn.from
             /\ Orphaned(conn, n).sent = conn.sent
    BY DEF Orphaned, Connections
<1>3. ASSUME NEW conn \in Connections, InStep(conn, cpc)
      PROVE  InStep(Orphaned(conn, n), cpc')
    <2>1. conn.from \in Nodes \cup {NoNode}
        BY DEF Connections
    <2> QED BY <1>1, <1>2, <1>3, <2>1 DEF InStep
<1>4. /\ serving'[n].from = NoNode
      /\ \A m \in Nodes : m # n => serving'[m] = Orphaned(serving[m], n)
      /\ serving'[n] = NoConnection
    BY DEF Die, TypeOK, NoConnection
<1>5. /\ Len(backlog'[n]) = 0
      /\ \A m \in Nodes : m # n =>
            /\ Len(backlog'[m]) = Len(backlog[m])
            /\ \A i \in 1..Len(backlog[m]) : backlog'[m][i] = Orphaned(backlog[m][i], n)
    <2>1. backlog'[n] = <<>>
        BY DEF Die
    <2>2. ASSUME NEW m \in Nodes, m # n
          PROVE  /\ Len(backlog'[m]) = Len(backlog[m])
                 /\ \A i \in 1..Len(backlog[m]) :
                       backlog'[m][i] = Orphaned(backlog[m][i], n)
        <3>1. backlog'[m] = [i \in 1..Len(backlog[m]) |-> Orphaned(backlog[m][i], n)]
            BY <2>2 DEF Die
        <3>2. Len(backlog[m]) \in Nat
            BY DEF TypeOK
        <3> QED BY <3>1, <3>2
    <2> QED BY <2>1, <2>2
<1>6. ServedInStep'
    <2> SUFFICES ASSUME NEW m \in Nodes
                 PROVE  /\ InStep(serving'[m], cpc')
                        /\ spc'[m] = "accept" => serving'[m].from = NoNode
                        /\ spc'[m] = "recvBody" => serving'[m].sent >= 1
        BY DEF ServedInStep
    <2>1. CASE m = n
        BY <1>1, <1>4, <2>1 DEF InStep
    <2>2. CASE m # n
        <3>1. /\ InStep(serving[m], cpc) /\ serving[m] \in Connections
              /\ spc[m] = "accept" => serving[m].from = NoNode
              /\ spc[m] = "recvBody" => serving[m].sent >= 1
            BY ConnectionTypes DEF Meet, ServedInStep
        <3>2. InStep(serving'[m], cpc')
            BY <1>3, <1>4, <2>2, <3>1
        <3> QED BY <1>1, <1>2, <1>4, <2>2, <3>1, <3>2
    <2> QED BY <2>1, <2>2
<1>7. QueuedInStep'
    <2> SUFFICES ASSUME NEW m \in Nodes, NEW i \in 1..Len(backlog'[m])
                 PROVE  InStep(backlog'[m][i], cpc')
        BY DEF QueuedInStep
    <2>1. m # n /\ i \in 1..Len(backlog[m])
        BY <1>5
    <2>2. InStep(backlog[m][i], cpc) /\ backlog[m][i] \in Connections
        BY <2>1, ConnectionTypes DEF Meet, QueuedInStep
    <2> QED BY <1>3, <1>5, <2>1, <2>2
<1>8. Awaited'
    <2> SUFFICES ASSUME NEW m \in Nodes, NEW c \in Nodes, peer'[c] = m, reply'[c].sent < 2
                 PROVE  Holds(m, c)'
        BY DEF Awaited
    <2>1. c # n /\ m # n /\ peer[c] = m /\ reply[c].sent < 2
        BY <1>1
    <2>2. Holds(m, c)
        BY <2>1 DEF Meet, Awaited
    <2>3. CASE serving[m].from = c
        <3>1. serving'[m].from = c
            BY <1>2, <1>4, <2>1, <2>3, ConnectionTypes
        <3> QED BY <3>1 DEF Holds
    <2>4. ASSUME NEW i \in 1..Len(backlog[m]), backlog[m][i].from = c PROVE Holds(m, c)'
        <3>1. backlog'[m][i].from = c /\ i \in 1..Len(backlog'[m])
            BY <1>2, <1>5, <2>1, <2>4, ConnectionTypes
        <3> QED BY <3>1 DEF Holds
    <2> QED BY <2>2, <2>3, <2>4 DEF Holds
<1> QED BY <1>6, <1>7, <1>8 DEF Meet

(* The strengthening is inductive.                                         *)
LEMMA MeetStep == TypeOK /\ Stopped /\ Agree /\ Meet /\ [Next]_vars => Meet'
<1> SUFFICES ASSUME TypeOK, Stopped, Agree, Meet, [Next]_vars PROVE Meet'
    OBVIOUS
<1>1. TypeOK'
    BY TypeStep
<1>2. ASSUME UNCHANGED <<cpc, peer, reply, serverVars>> PROVE Meet'
    BY <1>2 DEF Meet, ServedInStep, QueuedInStep, Awaited, Holds, serverVars
<1>3. ASSUME NEW n \in Nodes, Tasks(n) PROVE Meet'
    BY <1>2, <1>3 DEF Tasks, LearnIp, TaskInsert, TaskInsertBusy, TaskWake, clientVars
<1>6. ASSUME NEW n \in Nodes, Restart(n) PROVE Meet'
    <2>1. /\ UNCHANGED <<cpc, peer, reply, serving, backlog>>
          /\ \A m \in Nodes : spc'[m] \in {"accept", "recvBody"} => spc'[m] = spc[m]
        BY <1>6 DEF Restart, clientVars, TypeOK, Stopped
    <2> QED BY <2>1 DEF Meet, ServedInStep, QueuedInStep, Awaited, Holds
<1>4. ASSUME NEW n \in Nodes, Ends(n) PROVE Meet'
    BY <1>1, <1>4, DieMeets DEF Ends, BrokenPipe, MatchNull, Crash
<1>5. CASE UNCHANGED vars
    BY <1>2, <1>5 DEF vars, clientVars
<1> QED
    BY <1>1, <1>3, <1>4, <1>5, <1>6, ClientMeets, ServerMeets DEF Next

(* No circle of clients that wait for servers that wait for clients ever   *)
(* forms, in any network and whatever processes end.                       *)
THEOREM WaitingEnds == Spec => []NobodyWaitsInVain
<1>1. Init => Meet
    BY NodeDiscoveryAssumption
       DEF Init, Meet, ServedInStep, QueuedInStep, Awaited, InStep, NoConnection
<1> QED BY <1>1, TypeInit, TypeStep, StoppedInit, StoppedStep, AgreeInit, AgreeStep, MeetStep, MeetImpliesNobodyWaits,
           PTL DEF Spec

-----------------------------------------------------------------------------
(***************************************************************************)
(* The staged file.                                                        *)
(***************************************************************************)
(* Only the step that unlinks the file takes it away, and its client is    *)
(* then past the merge.                                                    *)
LEMMA FileStays ==
    ASSUME TypeOK, NoMissingFile, [Next]_vars PROVE NoMissingFile'
<1>1. ASSUME NEW n \in Nodes, Client(n) PROVE NoMissingFile'
    <2> USE DEF ClientStep, NoMissingFile, serverVars, taskVars, TypeOK
    <2>1. ASSUME NEW r \in Rows, Dial(n, r) PROVE NoMissingFile'
        BY <2>1 DEF Dial
    <2>2. ASSUME NEW r \in Rows, Advance(n, r) PROVE NoMissingFile'
        BY <2>2 DEF Advance
    <2>3. CASE DialFails(n)
        BY <2>3 DEF DialFails
    <2>4. CASE ClientSendSize(n)
        BY <2>4 DEF ClientSendSize
    <2>5. CASE ClientSendBody(n)
        BY <2>5 DEF ClientSendBody
    <2>6. CASE ClientRecvSize(n)
        BY <2>6 DEF ClientRecvSize
    <2>7. CASE ClientRecvBody(n)
        BY <2>7 DEF ClientRecvBody
    <2>8. CASE ClientLosesServer(n)
        BY <2>8 DEF ClientLosesServer
    <2>9. CASE ClientTrunc(n)
        BY <2>9 DEF ClientTrunc, EmptyFile
    <2>10. CASE ClientWrite(n)
        BY <2>10 DEF ClientWrite, Saved
    <2>11. CASE Open(n)
        BY <2>11 DEF Open
    <2>12. CASE Scan(n)
        BY <2>12 DEF Scan
    <2>13. CASE ScanGivesUp(n)
        BY <2>13 DEF ScanGivesUp
    <2>14. CASE Unlink(n)
        BY <2>14 DEF Unlink
    <2>15. CASE Wake(n)
        BY <2>15 DEF Wake
    <2> QED
        BY <1>1, <2>1, <2>2, <2>3, <2>4, <2>5, <2>6, <2>7, <2>8, <2>9, <2>10, <2>11,
           <2>12, <2>13, <2>14, <2>15 DEF Client, InsertRow, SkipRow
<1>2. ASSUME NEW n \in Nodes, Server(n) PROVE NoMissingFile'
    <2> USE DEF ServerStep, NoMissingFile, clientVars, taskVars, TypeOK
    <2>1. CASE ServerTrunc(n)
        BY <2>1 DEF ServerTrunc, EmptyFile
    <2>2. CASE ServerWrite(n)
        BY <2>2 DEF ServerWrite, Saved
    <2> QED
        BY <1>2, <2>1, <2>2 DEF Server, Accept, ServerRecvSize, ServerRecvBody,
            ServerLosesClient, ServerSendSize, ServerSendBody
<1>3. ASSUME NEW n \in Nodes, Tasks(n) \/ Restart(n) PROVE NoMissingFile'
    BY <1>3 DEF Tasks, LearnIp, TaskInsert, TaskInsertBusy, TaskWake, Restart, clientVars,
                NoMissingFile
<1>4. ASSUME NEW n \in Nodes, Ends(n) PROVE NoMissingFile'
    <2>1. Die(n)
        BY <1>4 DEF Ends, BrokenPipe, MatchNull, Crash
    <2> QED BY <2>1 DEF Die, NoMissingFile, TypeOK
<1>5. CASE UNCHANGED vars
    BY <1>5 DEF vars, clientVars, NoMissingFile
<1> QED BY <1>1, <1>2, <1>3, <1>4, <1>5 DEF Next

(* The client always finds the file it saved, however its own server and   *)
(* its own end interfere.                                                  *)
THEOREM TheFileIsThere == Spec => []NoMissingFile
<1>1. Init => NoMissingFile
    BY DEF Init, NoMissingFile
<1> QED BY <1>1, TypeInit, TypeStep, FileStays, PTL DEF Spec
=============================================================================
