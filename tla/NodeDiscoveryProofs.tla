------------------------- MODULE NodeDiscoveryProofs -------------------------
(***************************************************************************)
(* NodeDiscovery, for every network, every seed and every failure bound.   *)
(***************************************************************************)
EXTENDS NodeDiscovery, SequenceTheorems, TLAPS

-----------------------------------------------------------------------------
(***************************************************************************)
(* Connections: what a send and the end of a process make of a backlog.    *)
(***************************************************************************)
(* What a send makes of a connection is a connection.                      *)
LEMMA ReceivedType ==
    ASSUME NEW conn \in Connections, NEW c, NEW s \in 0..2, NEW R \in SUBSET Rows
    PROVE  Received(conn, c, s, R) \in Connections
BY DEF Connections, Received

(* What a send makes of a queue of connections is such a queue.            *)
LEMMA ReceivedSeq ==
    ASSUME NEW q \in Seq(Connections), NEW c, NEW s \in 0..2, NEW R \in SUBSET Rows
    PROVE  [i \in 1..Len(q) |-> Received(q[i], c, s, R)] \in Seq(Connections)
<1>1. \A i \in 1..Len(q) : Received(q[i], c, s, R) \in Connections
    <2>1. \A i \in 1..Len(q) : q[i] \in Connections
        OBVIOUS
    <2> QED BY <2>1, ReceivedType
<1> QED
    BY <1>1, SeqDef, Len(q) \in Nat

(* A connection whose client is gone is a connection.                      *)
LEMMA OrphanedType ==
    ASSUME NEW conn \in Connections, NEW n
    PROVE  Orphaned(conn, n) \in Connections
BY DEF Connections, Orphaned

(* A queue stays a queue when one of its clients is gone.                  *)
LEMMA OrphanedSeq ==
    ASSUME NEW q \in Seq(Connections), NEW n
    PROVE  [i \in 1..Len(q) |-> Orphaned(q[i], n)] \in Seq(Connections)
<1>1. \A i \in 1..Len(q) : Orphaned(q[i], n) \in Connections
    BY OrphanedType
<1> QED
    BY <1>1, SeqDef, Len(q) \in Nat

(* A client that dials makes a connection without data.                    *)
LEMMA FreshConnection ==
    ASSUME NEW n \in Nodes
    PROVE  [NoConnection EXCEPT !.from = n] \in Connections
BY DEF Connections, NoConnection

(* The constant halves, connections and files are of their types.          *)
LEMMA Constants ==
    /\ NoFile \in Files /\ EmptyFile \in Files
    /\ Nothing \in Halves /\ NoConnection \in Connections
    /\ \A f \in Files, half \in Halves \cup Connections : Saved(f, half) \in Files
BY DEF NoFile, EmptyFile, Files, Nothing, Halves, NoConnection, Connections, Saved

-----------------------------------------------------------------------------
(***************************************************************************)
(* Type correctness, one lemma per thread.                                 *)
(***************************************************************************)
(* A send by a client keeps the types of what servers hold.                *)
LEMMA ClientSendsType ==
    ASSUME TypeOK, NEW n \in Nodes, NEW s \in 0..2, NEW R \in SUBSET Rows,
           ClientSends(n, s, R)
    PROVE  /\ serving' \in [Nodes -> Connections]
           /\ backlog' \in [Nodes -> Seq(Connections)]
<1>1. CASE peer[n] = NoNode
    BY <1>1 DEF ClientSends, TypeOK
<1>2. CASE peer[n] # NoNode
    <2>1. peer[n] \in Nodes /\ backlog[peer[n]] \in Seq(Connections)
        BY <1>2 DEF TypeOK
    <2>2. Received(serving[peer[n]], n, s, R) \in Connections
        BY <2>1, ReceivedType DEF TypeOK
    <2>3. [i \in 1..Len(backlog[peer[n]]) |-> Received(backlog[peer[n]][i], n, s, R)]
            \in Seq(Connections)
        BY <2>1, ReceivedSeq
    <2> QED
        BY <1>2, <2>2, <2>3 DEF ClientSends, TypeOK
<1> QED BY <1>1, <1>2

(* A send by a server keeps the types of what clients hold.                *)
LEMMA ServerSendsType ==
    ASSUME TypeOK, NEW n \in Nodes, NEW s \in 0..2, NEW R \in SUBSET Rows,
           ServerSends(n, s, R)
    PROVE  reply' \in [Nodes -> Halves]
<1>1. [sent |-> s, rows |-> R] \in Halves
    BY DEF Halves
<1>2. reply \in [Nodes -> Halves]
    BY DEF TypeOK
<1> QED BY <1>1, <1>2 DEF ServerSends

(* The end of a process keeps all types (SIGPIPE, segfault, kill).         *)
LEMMA DieType ==
    ASSUME TypeOK, NEW n \in Nodes, Die(n), db' \in [Nodes -> SUBSET Rows],
           crashes' \in 0..MaxCrashes
    PROVE  TypeOK'
<1>1. \A m \in Nodes : Orphaned(serving[m], n) \in Connections
    BY OrphanedType DEF TypeOK
<1>2. \A m \in Nodes :
        [i \in 1..Len(backlog[m]) |-> Orphaned(backlog[m][i], n)] \in Seq(Connections)
    BY OrphanedSeq DEF TypeOK
<1>3. serving' \in [Nodes -> Connections]
    BY <1>1, Constants DEF Die
<1>4. backlog' \in [Nodes -> Seq(Connections)]
    <2>1. \A m \in Nodes :
            (IF m = n THEN <<>>
             ELSE [i \in 1..Len(backlog[m]) |-> Orphaned(backlog[m][i], n)])
                \in Seq(Connections)
        BY <1>2, <<>> \in Seq(Connections)
    <2> QED BY <2>1 DEF Die
<1> QED
    BY <1>3, <1>4, Constants
    DEF Die, TypeOK, Rows, ClientStates, ServerStates, TaskStates

(* Every step of the client thread keeps the types.                        *)
LEMMA ClientType ==
    ASSUME TypeOK, NEW n \in Nodes, Client(n) PROVE TypeOK'
<1> USE Constants DEF TypeOK, ClientStep, ClientStates, serverVars, taskVars
<1>1. ASSUME NEW r \in Rows, Dial(n, r) PROVE TypeOK'
    <2>1. Append(backlog[r], [NoConnection EXCEPT !.from = n]) \in Seq(Connections)
        BY <1>1, FreshConnection DEF Dial, Reachable
    <2> QED BY <1>1, <2>1 DEF Dial, Reachable
<1>2. ASSUME NEW r \in Rows, InsertRow(n, r) PROVE TypeOK'
    BY <1>2 DEF InsertRow, Advance
<1>3. ASSUME NEW r \in Rows, SkipRow(n, r) PROVE TypeOK'
    BY <1>3 DEF SkipRow, Advance
<1>4. CASE DialFails(n)
    BY <1>4 DEF DialFails
<1>5. CASE ClientSendSize(n)
    BY <1>5, ClientSendsType DEF ClientSendSize
<1>6. CASE ClientSendBody(n)
    BY <1>6, ClientSendsType DEF ClientSendBody
<1>7. CASE ClientRecvSize(n)
    BY <1>7 DEF ClientRecvSize
<1>8. CASE ClientRecvBody(n)
    BY <1>8 DEF ClientRecvBody
<1>9. CASE ClientLosesServer(n)
    BY <1>9 DEF ClientLosesServer
<1>10. CASE ClientTrunc(n)
    BY <1>10 DEF ClientTrunc
<1>11. CASE ClientWrite(n)
    BY <1>11 DEF ClientWrite
<1>12. CASE Open(n)
    BY <1>12 DEF Open
<1>13. CASE Scan(n)
    BY <1>13 DEF Scan, Files
<1>14. CASE ScanGivesUp(n)
    BY <1>14 DEF ScanGivesUp
<1>15. CASE Unlink(n)
    BY <1>15 DEF Unlink
<1>16. CASE Wake(n)
    BY <1>16 DEF Wake
<1> QED
    BY <1>1, <1>2, <1>3, <1>4, <1>5, <1>6, <1>7, <1>8, <1>9, <1>10, <1>11,
       <1>12, <1>13, <1>14, <1>15, <1>16 DEF Client

(* Every step of the server thread keeps the types.                        *)
LEMMA ServerType ==
    ASSUME TypeOK, NEW n \in Nodes, Server(n) PROVE TypeOK'
<1> USE Constants DEF TypeOK, ServerStep, ServerStates, clientVars, taskVars
<1>1. CASE Accept(n)
    <2>1. /\ Head(backlog[n]) \in Connections
          /\ Tail(backlog[n]) \in Seq(Connections)
        BY <1>1 DEF Accept
    <2> QED BY <1>1, <2>1 DEF Accept
<1>2. CASE ServerRecvSize(n)
    BY <1>2 DEF ServerRecvSize
<1>3. CASE ServerRecvBody(n)
    BY <1>3 DEF ServerRecvBody
<1>4. CASE ServerLosesClient(n)
    <2>1. PICK to \in {"accept", "spin", "trunc"} :
            /\ spc' = [spc EXCEPT ![n] = to]
            /\ serving' = IF to = "accept"
                          THEN [serving EXCEPT ![n] = NoConnection] ELSE serving
        BY <1>4 DEF ServerLosesClient
    <2>2. serving' \in [Nodes -> Connections]
        BY <2>1
    <2>3. spc' \in [Nodes -> ServerStates]
        BY <2>1
    <2> QED BY <1>4, <2>2, <2>3 DEF ServerLosesClient
<1>5. CASE ServerTrunc(n)
    BY <1>5 DEF ServerTrunc
<1>6. CASE ServerWrite(n)
    BY <1>6 DEF ServerWrite
<1>7. CASE ServerSendSize(n)
    <2>1. ServerSends(n, 1, {})
        BY <1>7 DEF ServerSendSize
    <2>2. reply' \in [Nodes -> Halves]
        BY <2>1, ServerSendsType
    <2> QED BY <1>7, <2>2 DEF ServerSendSize
<1>8. CASE ServerSendBody(n)
    <2>1. ServerSends(n, 2, db[n])
        BY <1>8 DEF ServerSendBody
    <2>2. reply' \in [Nodes -> Halves]
        BY <2>1, ServerSendsType
    <2> QED BY <1>8, <2>2 DEF ServerSendBody
<1> QED
    BY <1>1, <1>2, <1>3, <1>4, <1>5, <1>6, <1>7, <1>8 DEF Server

(* Every step of the task thread keeps the types.                          *)
LEMMA TasksType ==
    ASSUME TypeOK, NEW n \in Nodes, Tasks(n) PROVE TypeOK'
<1> USE DEF TypeOK, TaskStep, TaskStates, clientVars, serverVars
<1>1. CASE LearnIp(n)
    BY <1>1 DEF LearnIp, Rows
<1>2. CASE TaskInsert(n)
    BY <1>2 DEF TaskInsert
<1>3. CASE TaskInsertBusy(n)
    BY <1>3 DEF TaskInsertBusy
<1>4. CASE TaskWake(n)
    BY <1>4 DEF TaskWake
<1> QED BY <1>1, <1>2, <1>3, <1>4 DEF Tasks

(* Every way for a process to end keeps the types.                         *)
LEMMA EndsType ==
    ASSUME TypeOK, NEW n \in Nodes, Ends(n) PROVE TypeOK'
<1>1. CASE BrokenPipe(n)
    BY <1>1, DieType DEF BrokenPipe, TypeOK
<1>2. CASE MatchNull(n)
    BY <1>2, DieType DEF MatchNull, TypeOK
<1>3. CASE Crash(n)
    BY <1>3, DieType, NodeDiscoveryAssumption DEF Crash, TypeOK
<1> QED BY <1>1, <1>2, <1>3 DEF Ends

(* The initial state is of the right types.                                *)
LEMMA TypeInit == Init => TypeOK
BY Constants, NodeDiscoveryAssumption
   DEF Init, TypeOK, Rows, ClientStates, ServerStates, TaskStates

(* Every step keeps the types.                                             *)
LEMMA TypeStep == TypeOK /\ [Next]_vars => TypeOK'
<1> SUFFICES ASSUME TypeOK, [Next]_vars PROVE TypeOK'
    OBVIOUS
<1>1. ASSUME NEW n \in Nodes, Restart(n) PROVE TypeOK'
    BY <1>1 DEF Restart, TypeOK, ServerStates, clientVars, taskVars
<1>2. CASE UNCHANGED vars
    BY <1>2 DEF vars, TypeOK, clientVars, serverVars, taskVars
<1> QED
    BY <1>1, <1>2, ClientType, ServerType, TasksType, EndsType DEF Next

(* The type invariant, for every network.                                  *)
THEOREM TypeCorrect == Spec => []TypeOK
BY TypeInit, TypeStep, PTL DEF Spec

-----------------------------------------------------------------------------
(***************************************************************************)
(* Where rows come from.  SingleSource is not inductive: that a push and a *)
(* reply are a neighbour's also takes that every open connection follows a *)
(* row of its client, and a new row of a database may be the node's own.   *)
(***************************************************************************)
SourcedConnection(D, conn, m) ==
    /\ conn.from # NoNode => m \in D[conn.from]
    /\ FromClient(D, conn.rows, m)

PeerKnown == \A n \in Nodes : peer[n] # NoNode => peer[n] \in db[n]
IpAnnounced == \A n \in Nodes : tpc[n] = "insert" => ip[n] \in AnnouncedBy(n)
StagingSourced == \A n \in Nodes : FromNeighbour(db, staging[n].rows, n)
CursorSourced == \A n \in Nodes : FromNeighbour(db, cursor[n], n)
ReplySourced == \A n \in Nodes : FromServer(db, reply[n].rows, n)
ServingSourced == \A m \in Nodes : SourcedConnection(db, serving[m], m)
BacklogSourced ==
    \A m \in Nodes : \A i \in 1..Len(backlog[m]) :
        SourcedConnection(db, backlog[m][i], m)

Sourced ==
    /\ PeerKnown /\ IpAnnounced /\ StagingSourced /\ CursorSourced
    /\ ReplySourced /\ ServingSourced /\ BacklogSourced

(* The strengthening implies the invariant the runs check.                 *)
LEMMA SourcedImpliesSingleSource == Sourced => SingleSource
BY DEF Sourced, StagingSourced, CursorSourced, ReplySourced, ServingSourced,
       BacklogSourced, SourcedConnection, SingleSource, HeldBy

(* Databases only grow, and every source stays one.                        *)
LEMMA SourcesStay ==
    ASSUME NEW D \in [Nodes -> SUBSET Rows], NEW E \in [Nodes -> SUBSET Rows],
           \A n \in Nodes : D[n] \subseteq E[n]
    PROVE  /\ \A n \in Nodes, R \in SUBSET Rows :
                /\ FromNeighbour(D, R, n) => FromNeighbour(E, R, n)
                /\ FromServer(D, R, n) => FromServer(E, R, n)
           /\ \A m \in Nodes, conn \in Connections :
                SourcedConnection(D, conn, m) => SourcedConnection(E, conn, m)
<1>1. ASSUME NEW n \in Nodes, NEW R \in SUBSET Rows
      PROVE  /\ FromNeighbour(D, R, n) => FromNeighbour(E, R, n)
             /\ FromServer(D, R, n) => FromServer(E, R, n)
             /\ FromClient(D, R, n) => FromClient(E, R, n)
    BY DEF FromNeighbour, FromServer, FromClient
<1>2. ASSUME NEW m \in Nodes, NEW conn \in Connections,
             SourcedConnection(D, conn, m)
      PROVE  SourcedConnection(E, conn, m)
    <2>1. conn.from \in Nodes \cup {NoNode} /\ conn.rows \in SUBSET Rows
        BY DEF Connections
    <2> QED BY <1>1, <1>2, <2>1 DEF SourcedConnection
<1> QED BY <1>1, <1>2

(* A connection without data has no source to name.                        *)
LEMMA NoConnectionSourced ==
    ASSUME NEW D, NEW m PROVE SourcedConnection(D, NoConnection, m)
BY DEF SourcedConnection, NoConnection, FromClient

(* Forgetting the reply of one client keeps every reply sourced.           *)
LEMMA ReplyEmptied ==
    ASSUME TypeOK, Sourced, NEW n \in Nodes,
           reply' = [reply EXCEPT ![n] = Nothing], db' = db
    PROVE  ReplySourced'
<1>1. \A m \in Nodes : reply'[m] = IF m = n THEN Nothing ELSE reply[m]
    BY DEF TypeOK
<1>2. FromServer(db, Nothing.rows, n)
    BY DEF Nothing, FromServer
<1> QED BY <1>1, <1>2 DEF Sourced, ReplySourced

(* A connection that receives a sourced database is sourced.               *)
LEMMA ReceivedSourced ==
    ASSUME NEW D \in [Nodes -> SUBSET Rows], NEW m \in Nodes, NEW c \in Nodes,
           NEW s \in 0..2, NEW R \in SUBSET Rows, R \subseteq D[c], m \in D[c],
           NEW conn \in Connections, SourcedConnection(D, conn, m)
    PROVE  SourcedConnection(D, Received(conn, c, s, R), m)
<1>1. CASE conn.from = c
    <2>1. /\ Received(conn, c, s, R).from = c
          /\ Received(conn, c, s, R).rows = R
        BY <1>1 DEF Received, Connections
    <2> QED BY <2>1 DEF SourcedConnection, FromClient
<1>2. CASE conn.from # c
    BY <1>2 DEF Received
<1> QED BY <1>1, <1>2

(* What a connection holds outlives its client.                            *)
LEMMA OrphanedSourced ==
    ASSUME NEW D, NEW m, NEW n,
           NEW conn \in Connections, SourcedConnection(D, conn, m)
    PROVE  SourcedConnection(D, Orphaned(conn, n), m)
<1>1. /\ Orphaned(conn, n).from \in {conn.from, NoNode}
      /\ Orphaned(conn, n).rows = conn.rows
    BY DEF Orphaned, Connections
<1>2. Orphaned(conn, n).from # NoNode => Orphaned(conn, n).from = conn.from
    BY <1>1
<1> QED BY <1>1, <1>2 DEF SourcedConnection

(* A push is a copy of the database of a client that has the server's row. *)
LEMMA ClientSendsSourced ==
    ASSUME TypeOK, Sourced, NEW n \in Nodes, NEW s \in 0..2,
           NEW R \in SUBSET Rows, R \subseteq db[n], ClientSends(n, s, R), db' = db
    PROVE  ServingSourced' /\ BacklogSourced'
<1> USE DEF Sourced
<1>1. CASE peer[n] = NoNode
    BY <1>1 DEF ClientSends, ServingSourced, BacklogSourced
<1>2. CASE peer[n] # NoNode
    <2>1. peer[n] \in Nodes /\ peer[n] \in db[n]
        BY <1>2 DEF TypeOK, PeerKnown
    <2>2. \A m \in Nodes : serving'[m] =
            IF m = peer[n] THEN Received(serving[m], n, s, R) ELSE serving[m]
        BY <1>2, <2>1 DEF ClientSends, TypeOK
    <2>0. db \in [Nodes -> SUBSET Rows] /\ \A m \in Nodes : serving[m] \in Connections
        BY DEF TypeOK
    <2>3. ServingSourced'
        <3>1. SourcedConnection(db, Received(serving[peer[n]], n, s, R), peer[n])
            BY <2>1, <2>0, ReceivedSourced DEF ServingSourced
        <3>2. \A m \in Nodes : SourcedConnection(db, serving'[m], m)
            BY <2>2, <3>1 DEF ServingSourced
        <3> QED BY <3>2 DEF ServingSourced
    <2>4. ASSUME NEW m \in Nodes, NEW i \in 1..Len(backlog'[m])
          PROVE  SourcedConnection(db, backlog'[m][i], m)
        <3>1. CASE m = peer[n]
            <4>1. backlog'[m] = [k \in 1..Len(backlog[m]) |->
                                    Received(backlog[m][k], n, s, R)]
                BY <1>2, <2>1, <3>1 DEF ClientSends, TypeOK
            <4>2. backlog[m] \in Seq(Connections)
                BY DEF TypeOK
            <4>3. i \in 1..Len(backlog[m])
                BY <4>1, <4>2
            <4>4. backlog[m][i] \in Connections /\ SourcedConnection(db, backlog[m][i], m)
                BY <4>2, <4>3 DEF BacklogSourced
            <4>5. SourcedConnection(db, Received(backlog[m][i], n, s, R), m)
                BY <2>1, <2>0, <3>1, <4>4, ReceivedSourced
            <4>6. backlog'[m][i] = Received(backlog[m][i], n, s, R)
                BY <4>1, <4>3
            <4> QED BY <4>5, <4>6
        <3>2. CASE m # peer[n]
            BY <1>2, <2>1, <3>2 DEF ClientSends, TypeOK, BacklogSourced
        <3> QED BY <3>1, <3>2
    <2> QED BY <2>3, <2>4 DEF BacklogSourced
<1> QED BY <1>1, <1>2

(* A step that at most adds rows to databases, shortens a cursor and ends  *)
(* an insert.                                                              *)
LEMMA GrowthKeepsSourced ==
    ASSUME TypeOK, TypeOK', Sourced,
           \A n \in Nodes : db[n] \subseteq db'[n] /\ cursor'[n] \subseteq cursor[n],
           UNCHANGED <<staging, peer, reply, serving, backlog, ip>>,
           \A n \in Nodes : tpc'[n] = "insert" => tpc[n] = "insert"
    PROVE  Sourced'
<1> USE DEF Sourced
<1>0. /\ db \in [Nodes -> SUBSET Rows] /\ db' \in [Nodes -> SUBSET Rows]
      /\ \A n \in Nodes : /\ staging[n].rows \in SUBSET Rows
                          /\ cursor[n] \in SUBSET Rows /\ cursor'[n] \in SUBSET Rows
                          /\ reply[n].rows \in SUBSET Rows
                          /\ peer[n] \in Nodes \cup {NoNode}
                          /\ serving[n] \in Connections
                          /\ backlog[n] \in Seq(Connections)
    BY DEF TypeOK, Files, Halves
<1>1. /\ \A n \in Nodes, R \in SUBSET Rows :
            /\ FromNeighbour(db, R, n) => FromNeighbour(db', R, n)
            /\ FromServer(db, R, n) => FromServer(db', R, n)
      /\ \A m \in Nodes, conn \in Connections :
            SourcedConnection(db, conn, m) => SourcedConnection(db', conn, m)
    BY <1>0, SourcesStay
<1>2. PeerKnown' /\ IpAnnounced'
    BY <1>0 DEF PeerKnown, IpAnnounced, AnnouncedBy
<1>3. StagingSourced' /\ ReplySourced' /\ ServingSourced'
    BY <1>0, <1>1 DEF StagingSourced, ReplySourced, ServingSourced
<1>4. CursorSourced'
    <2>1. \A n \in Nodes : FromNeighbour(db', cursor[n], n)
        BY <1>0, <1>1 DEF CursorSourced
    <2> QED BY <2>1 DEF CursorSourced, FromNeighbour
<1>5. BacklogSourced'
    <2>1. \A m \in Nodes : \A i \in 1..Len(backlog[m]) : backlog[m][i] \in Connections
        BY <1>0
    <2> QED BY <1>1, <2>1 DEF BacklogSourced
<1> QED BY <1>2, <1>3, <1>4, <1>5

(* Every step of the client thread keeps all copies sourced.               *)
LEMMA ClientSourced ==
    ASSUME TypeOK, TypeOK', Sourced, NEW n \in Nodes, Client(n)
    PROVE  Sourced'
<1> USE DEF Sourced, ClientStep, serverVars, taskVars
<1>1. ASSUME NEW r \in Rows, Dial(n, r) PROVE Sourced'
    <2> USE <1>1 DEF Dial, Reachable
    <2>1. PeerKnown' /\ IpAnnounced' /\ StagingSourced' /\ CursorSourced' /\ ServingSourced'
        BY DEF TypeOK, PeerKnown, IpAnnounced, StagingSourced, CursorSourced, ServingSourced
    <2>2. ReplySourced'
        BY ReplyEmptied
    <2>3. BacklogSourced'
        <3> DEFINE new == [NoConnection EXCEPT !.from = n]
        <3>1. SourcedConnection(db, new, r)
            BY DEF SourcedConnection, NoConnection, FromClient
        <3>2. /\ backlog' = [backlog EXCEPT ![r] = Append(@, new)]
              /\ backlog \in [Nodes -> Seq(Connections)] /\ db' = db /\ r \in Nodes
            BY DEF TypeOK
        <3> HIDE DEF new
        <3>3. ASSUME NEW m \in Nodes, NEW i \in 1..Len(backlog'[m])
              PROVE  SourcedConnection(db, backlog'[m][i], m)
            <4>1. CASE m = r
                <5>1. backlog'[m] = Append(backlog[m], new)
                    BY <3>2, <4>1
                <5>2. \/ i \in 1..Len(backlog[m]) /\ backlog'[m][i] = backlog[m][i]
                      \/ backlog'[m][i] = new
                    BY <3>2, <5>1
                <5> QED BY <3>1, <4>1, <5>2 DEF BacklogSourced
            <4>2. CASE m # r
                BY <3>2, <4>2 DEF BacklogSourced
            <4> QED BY <4>1, <4>2
        <3> QED BY <3>2, <3>3 DEF BacklogSourced
    <2> QED BY <2>1, <2>2, <2>3
<1>2. ASSUME NEW r \in Rows, InsertRow(n, r) PROVE Sourced'
    BY <1>2, GrowthKeepsSourced DEF InsertRow, Advance, TypeOK
<1>3. ASSUME NEW r \in Rows, SkipRow(n, r) PROVE Sourced'
    BY <1>3, GrowthKeepsSourced DEF SkipRow, Advance, TypeOK
<1>4. CASE DialFails(n)
    BY <1>4, GrowthKeepsSourced DEF DialFails
<1>5. ASSUME NEW s \in 0..2, NEW R \in SUBSET Rows, R \subseteq db[n], ClientSends(n, s, R),
             UNCHANGED <<db, staging, peer, cursor, reply, tpc, ip>>
      PROVE  Sourced'
    <2>1. ServingSourced' /\ BacklogSourced'
        BY <1>5, ClientSendsSourced
    <2> QED
        BY <1>5, <2>1 DEF PeerKnown, IpAnnounced, StagingSourced, CursorSourced, ReplySourced
<1>6. CASE ClientSendSize(n)
    BY <1>5, <1>6 DEF ClientSendSize
<1>7. CASE ClientSendBody(n)
    BY <1>5, <1>7 DEF ClientSendBody, TypeOK
<1>8. CASE ClientRecvSize(n)
    BY <1>8, GrowthKeepsSourced DEF ClientRecvSize
<1>9. CASE ClientRecvBody(n)
    BY <1>9, GrowthKeepsSourced DEF ClientRecvBody
<1>10. CASE ClientLosesServer(n)
    BY <1>10, GrowthKeepsSourced DEF ClientLosesServer
<1>11. ASSUME FromNeighbour(db, staging'[n].rows, n),
              staging' = [staging EXCEPT ![n] = staging'[n]],
              UNCHANGED <<db, peer, cursor, reply, serving, backlog, tpc, ip>>
       PROVE  Sourced'
    BY <1>11 DEF PeerKnown, IpAnnounced, StagingSourced, CursorSourced, ReplySourced,
                 ServingSourced, BacklogSourced, TypeOK
<1>12. CASE ClientTrunc(n)
    BY <1>11, <1>12 DEF ClientTrunc, EmptyFile, FromNeighbour, TypeOK
<1>13. CASE ClientWrite(n)
    <2>1. StagingSourced'
        <3>1. FromNeighbour(db, reply[n].rows, n)
            BY DEF ReplySourced, FromServer, FromNeighbour
        <3>2. FromNeighbour(db, Saved(staging[n], reply[n]).rows, n)
            BY <3>1 DEF Saved, StagingSourced
        <3> QED BY <1>13, <3>2 DEF ClientWrite, StagingSourced, TypeOK
    <2>2. PeerKnown' /\ ReplySourced'
        BY <1>13, ReplyEmptied DEF ClientWrite, PeerKnown, TypeOK
    <2> QED
        BY <1>13, <2>1, <2>2 DEF ClientWrite, IpAnnounced, CursorSourced,
                                 ServingSourced, BacklogSourced
<1>14. CASE Open(n)
    BY <1>14, GrowthKeepsSourced DEF Open
<1>15. CASE Scan(n)
    <2>1. CursorSourced'
        BY <1>15 DEF Scan, CursorSourced, StagingSourced, TypeOK, FromNeighbour
    <2> QED
        BY <1>15, <2>1 DEF Scan, PeerKnown, IpAnnounced, StagingSourced, ReplySourced,
                           ServingSourced, BacklogSourced
<1>16. CASE ScanGivesUp(n)
    BY <1>16, GrowthKeepsSourced DEF ScanGivesUp
<1>17. CASE Unlink(n)
    BY <1>11, <1>17 DEF Unlink, NoFile, FromNeighbour, TypeOK
<1>18. CASE Wake(n)
    BY <1>18, GrowthKeepsSourced DEF Wake
<1> QED
    BY <1>1, <1>2, <1>3, <1>4, <1>6, <1>7, <1>8, <1>9, <1>10, <1>12, <1>13,
       <1>14, <1>15, <1>16, <1>17, <1>18 DEF Client

(* Every step of the server thread keeps all copies sourced.               *)
LEMMA ServerSourced ==
    ASSUME TypeOK, TypeOK', Sourced, NEW n \in Nodes, Server(n)
    PROVE  Sourced'
<1> USE DEF Sourced, ServerStep, clientVars, taskVars
<1>1. ASSUME serving' = [serving EXCEPT ![n] = NoConnection],
             UNCHANGED <<db, staging, peer, cursor, reply, backlog, tpc, ip>>
      PROVE  Sourced'
    <2>1. \A m \in Nodes : serving'[m] = IF m = n THEN NoConnection ELSE serving[m]
        BY <1>1 DEF TypeOK
    <2>2. ServingSourced'
        BY <1>1, <2>1, NoConnectionSourced DEF ServingSourced
    <2> QED BY <1>1, <2>2 DEF PeerKnown, IpAnnounced, StagingSourced, CursorSourced,
                              ReplySourced, BacklogSourced
<1>2. ASSUME FromNeighbour(db, staging'[n].rows, n),
             staging' = [staging EXCEPT ![n] = staging'[n]],
             UNCHANGED <<db, peer, cursor, reply, serving, backlog, tpc, ip>>
      PROVE  Sourced'
    BY <1>2 DEF PeerKnown, IpAnnounced, StagingSourced, CursorSourced, ReplySourced,
                ServingSourced, BacklogSourced, TypeOK
<1>3. CASE Accept(n)
    <2> USE <1>3 DEF Accept
    <2>1. /\ backlog[n] \in Seq(Connections) /\ backlog[n] # <<>>
          /\ serving' = [serving EXCEPT ![n] = Head(backlog[n])]
          /\ backlog' = [backlog EXCEPT ![n] = Tail(backlog[n])]
          /\ serving \in [Nodes -> Connections]
          /\ backlog \in [Nodes -> Seq(Connections)]
        BY DEF TypeOK
    <2>2. ServingSourced'
        <3>1. SourcedConnection(db, Head(backlog[n]), n)
            <4>1. Head(backlog[n]) = backlog[n][1] /\ 1 \in 1..Len(backlog[n])
                BY <2>1
            <4> QED BY <4>1 DEF BacklogSourced
        <3> QED BY <2>1, <3>1 DEF ServingSourced
    <2>3. BacklogSourced'
        <3>1. \A i \in 1..Len(Tail(backlog[n])) :
                /\ Tail(backlog[n])[i] = backlog[n][i + 1]
                /\ i + 1 \in 1..Len(backlog[n])
            BY <2>1
        <3>2. \A i \in 1..Len(Tail(backlog[n])) :
                SourcedConnection(db, Tail(backlog[n])[i], n)
            BY <3>1 DEF BacklogSourced
        <3> QED BY <2>1, <3>2 DEF BacklogSourced
    <2> QED
        BY <2>2, <2>3 DEF PeerKnown, IpAnnounced, StagingSourced, CursorSourced, ReplySourced
<1>4. CASE ServerRecvSize(n)
    BY <1>4, GrowthKeepsSourced DEF ServerRecvSize, serverVars
<1>5. CASE ServerRecvBody(n)
    BY <1>5, GrowthKeepsSourced DEF ServerRecvBody, serverVars
<1>6. CASE ServerLosesClient(n)
    <2>1. /\ UNCHANGED <<db, staging, peer, cursor, reply, backlog, tpc, ip>>
          /\ \/ serving' = [serving EXCEPT ![n] = NoConnection]
             \/ serving' = serving
        BY <1>6 DEF ServerLosesClient
    <2> QED BY <1>1, <2>1, GrowthKeepsSourced
<1>7. CASE ServerTrunc(n)
    BY <1>2, <1>7 DEF ServerTrunc, EmptyFile, FromNeighbour, TypeOK
<1>8. CASE ServerWrite(n)
    <2>1. CASE orphan[n]
        BY <1>8, <2>1, GrowthKeepsSourced DEF ServerWrite
    <2>2. CASE ~orphan[n]
        <3>1. FromNeighbour(db, serving[n].rows, n)
            BY DEF ServingSourced, SourcedConnection, FromClient, FromNeighbour
        <3>2. FromNeighbour(db, Saved(staging[n], serving[n]).rows, n)
            BY <3>1 DEF Saved, StagingSourced
        <3>3. /\ staging'[n] = Saved(staging[n], serving[n])
              /\ staging' = [staging EXCEPT ![n] = staging'[n]]
            BY <1>8, <2>2 DEF ServerWrite, TypeOK
        <3> QED BY <1>2, <1>8, <3>2, <3>3 DEF ServerWrite
    <2> QED BY <2>1, <2>2
<1>9. ASSUME NEW s \in 0..2, NEW R \in SUBSET Rows, R \subseteq db[n],
             ServerSends(n, s, R), UNCHANGED db
      PROVE  ReplySourced'
    <2>1. CASE serving[n].from = NoNode
        BY <1>9, <2>1 DEF ServerSends, ReplySourced
    <2>2. CASE serving[n].from # NoNode
        <3>1. serving[n].from \in Nodes /\ n \in db[serving[n].from]
            BY <2>2 DEF TypeOK, Connections, ServingSourced, SourcedConnection
        <3>2. FromServer(db, R, serving[n].from)
            BY <1>9, <3>1 DEF FromServer
        <3>3. \A m \in Nodes : reply'[m] =
                IF m = serving[n].from THEN [sent |-> s, rows |-> R] ELSE reply[m]
            BY <1>9, <2>2, <3>1 DEF ServerSends, TypeOK
        <3> QED BY <1>9, <3>2, <3>3 DEF ReplySourced
    <2> QED BY <2>1, <2>2
<1>10. CASE ServerSendSize(n)
    <2>1. ReplySourced'
        BY <1>9, <1>10 DEF ServerSendSize
    <2> QED
        BY <1>10, <2>1 DEF ServerSendSize, PeerKnown, IpAnnounced, StagingSourced,
                           CursorSourced, ServingSourced, BacklogSourced
<1>11. CASE ServerSendBody(n)
    <2>1. ReplySourced'
        BY <1>9, <1>11 DEF ServerSendBody, TypeOK
    <2>2. \A m \in Nodes : serving'[m] = IF m = n THEN NoConnection ELSE serving[m]
        BY <1>11 DEF ServerSendBody, TypeOK
    <2>3. ServingSourced'
        BY <1>11, <2>2, NoConnectionSourced DEF ServerSendBody, ServingSourced
    <2> QED
        BY <1>11, <2>1, <2>3 DEF ServerSendBody, PeerKnown, IpAnnounced,
                                 StagingSourced, CursorSourced, BacklogSourced
<1> QED
    BY <1>3, <1>4, <1>5, <1>6, <1>7, <1>8, <1>10, <1>11 DEF Server

(* Every step of the task thread keeps all copies sourced.                 *)
LEMMA TasksSourced ==
    ASSUME TypeOK, TypeOK', Sourced, NEW n \in Nodes, Tasks(n)
    PROVE  Sourced'
<1> USE DEF TaskStep, clientVars, serverVars
<1>1. CASE LearnIp(n)
    <2>1. IpAnnounced'
        <3>1. PICK o \in IpOutcomes \ {"offline"} :
                 ip' = [ip EXCEPT ![n] = IF o = "found" THEN n ELSE NullRow]
            BY <1>1 DEF LearnIp
        <3>2. (IF o = "found" THEN n ELSE NullRow) \in AnnouncedBy(n)
            BY DEF AnnouncedBy
        <3> QED BY <1>1, <3>1, <3>2 DEF LearnIp, Sourced, IpAnnounced, TypeOK
    <2> QED
        BY <1>1, <2>1 DEF LearnIp, Sourced, PeerKnown, StagingSourced, CursorSourced,
                          ReplySourced, ServingSourced, BacklogSourced
<1>2. CASE TaskInsert(n)
    BY <1>2, GrowthKeepsSourced DEF TaskInsert, TypeOK
<1>3. CASE TaskInsertBusy(n)
    BY <1>3, GrowthKeepsSourced DEF TaskInsertBusy, TypeOK
<1>4. CASE TaskWake(n)
    BY <1>4, GrowthKeepsSourced DEF TaskWake, TypeOK
<1> QED BY <1>1, <1>2, <1>3, <1>4 DEF Tasks

(* The end of a process keeps all copies sourced: its files stay.          *)
LEMMA DieSourced ==
    ASSUME TypeOK, TypeOK', Sourced, NEW n \in Nodes, Die(n), db' = db
    PROVE  Sourced'
<1> USE DEF Sourced
<1>1. PeerKnown' /\ IpAnnounced' /\ StagingSourced'
    BY DEF Die, PeerKnown, IpAnnounced, StagingSourced, TypeOK
<1>2. CursorSourced'
    BY DEF Die, CursorSourced, FromNeighbour, TypeOK
<1>3. ReplySourced'
    BY ReplyEmptied DEF Die
<1>4. \A m \in Nodes : /\ serving[m] \in Connections
                       /\ backlog[m] \in Seq(Connections)
    BY DEF TypeOK
<1>5. ServingSourced'
    <2>1. \A m \in Nodes : serving'[m] =
            IF m = n THEN NoConnection ELSE Orphaned(serving[m], n)
        BY DEF Die
    <2> QED BY <1>4, <2>1, OrphanedSourced, NoConnectionSourced DEF ServingSourced
<1>6. BacklogSourced'
    <2>1. ASSUME NEW m \in Nodes, NEW i \in 1..Len(backlog'[m])
          PROVE  SourcedConnection(db, backlog'[m][i], m)
        <3>1. m # n /\ backlog'[m] =
                [k \in 1..Len(backlog[m]) |-> Orphaned(backlog[m][k], n)]
            BY <2>1 DEF Die
        <3>2. i \in 1..Len(backlog[m])
            BY <1>4, <3>1
        <3>3. SourcedConnection(db, Orphaned(backlog[m][i], n), m)
            BY <1>4, <3>2, OrphanedSourced DEF BacklogSourced
        <3> QED BY <3>1, <3>2, <3>3
    <2> QED BY <2>1 DEF BacklogSourced
<1> QED BY <1>1, <1>2, <1>3, <1>5, <1>6

(* Nothing is copied at the start.                                         *)
LEMMA SourcedInit == Init => Sourced
<1> SUFFICES ASSUME Init PROVE Sourced
    OBVIOUS
<1>1. ServingSourced
    BY NoConnectionSourced DEF Init, ServingSourced
<1> QED
    BY <1>1 DEF Init, Sourced, PeerKnown, IpAnnounced, StagingSourced, CursorSourced,
       ReplySourced, BacklogSourced, NoFile, Nothing, FromNeighbour, FromServer

(* The strengthening is inductive.                                         *)
LEMMA SourcedStep == TypeOK /\ Sourced /\ [Next]_vars => Sourced'
<1> SUFFICES ASSUME TypeOK, Sourced, [Next]_vars PROVE Sourced'
    OBVIOUS
<1>1. TypeOK'
    BY TypeStep
<1>2. ASSUME NEW n \in Nodes, Ends(n) PROVE Sourced'
    BY <1>1, <1>2, DieSourced DEF Ends, BrokenPipe, MatchNull, Crash
<1>3. ASSUME NEW n \in Nodes, Restart(n) PROVE Sourced'
    BY <1>1, <1>3, GrowthKeepsSourced DEF Restart, clientVars, taskVars
<1>4. CASE UNCHANGED vars
    BY <1>1, <1>4, GrowthKeepsSourced DEF vars, clientVars, serverVars, taskVars
<1> QED
    BY <1>1, <1>2, <1>3, <1>4, ClientSourced, ServerSourced, TasksSourced DEF Next

(* Every copy a node holds is a copy of one database of a neighbour.       *)
THEOREM CopiesHaveOneSource == Spec => []SingleSource
BY TypeInit, TypeStep, SourcedInit, SourcedStep, SourcedImpliesSingleSource, PTL DEF Spec

-----------------------------------------------------------------------------
(***************************************************************************)
(* Refinement: a database changes only where the client inserts a row of   *)
(* its cursor, which a neighbour holds, and where the task thread inserts  *)
(* what it announces.                                                      *)
(***************************************************************************)
(* The initial databases are the seeds of Gossip.                          *)
LEMMA GossipInit == Init => G!Init
BY DEF Init, G!Init

(* Merging a row of the received file is a Learn step of Gossip.           *)
LEMMA InsertRowLearns ==
    ASSUME TypeOK, Sourced, NEW n \in Nodes, NEW r \in Rows, InsertRow(n, r)
    PROVE  G!Next
<1>1. r \in cursor[n] /\ db' = [db EXCEPT ![n] = @ \cup {r}]
    BY DEF InsertRow, Advance
<1>2. PICK m \in Nodes : cursor[n] \subseteq db[m] /\ (m \in db[n] \/ n \in db[m])
    BY <1>1 DEF Sourced, CursorSourced, FromNeighbour
<1>3. G!Learn(n, m)
    BY <1>1, <1>2 DEF G!Learn, G!Neighbours, G!Add
<1> QED BY <1>3 DEF G!Next

(* Inserting the public address is an AnnounceSelf step of Gossip.         *)
LEMMA TaskInsertAnnounces ==
    ASSUME TypeOK, Sourced, NEW n \in Nodes, TaskInsert(n)
    PROVE  G!Next
<1>1. ip[n] \in AnnouncedBy(n) /\ db' = [db EXCEPT ![n] = @ \cup {ip[n]}]
    BY DEF TaskInsert, TaskStep, Sourced, IpAnnounced
<1>2. G!AnnounceSelf(n)
    BY <1>1 DEF G!AnnounceSelf, G!Add
<1> QED BY <1>2 DEF G!Next

(* Every step of node discovery is a step or a stutter of Gossip.          *)
LEMMA GossipStep == TypeOK /\ Sourced /\ [Next]_vars => [G!Next]_db
<1> SUFFICES ASSUME TypeOK, Sourced, [Next]_vars PROVE G!Next \/ db' = db
    OBVIOUS
<1>1. ASSUME NEW n \in Nodes, Client(n) PROVE G!Next \/ db' = db
    BY <1>1, InsertRowLearns
    DEF Client, Dial, SkipRow, DialFails, ClientSendSize, ClientSendBody, ClientRecvSize,
        ClientRecvBody, ClientLosesServer, ClientTrunc, ClientWrite, Open, Scan,
        ScanGivesUp, Unlink, Wake
<1>2. ASSUME NEW n \in Nodes, Server(n) PROVE db' = db
    BY <1>2 DEF Server, Accept, ServerRecvSize, ServerRecvBody, ServerLosesClient,
                ServerTrunc, ServerWrite, ServerSendSize, ServerSendBody
<1>3. ASSUME NEW n \in Nodes, Tasks(n) PROVE G!Next \/ db' = db
    BY <1>3, TaskInsertAnnounces DEF Tasks, LearnIp, TaskInsertBusy, TaskWake
<1>4. ASSUME NEW n \in Nodes, Ends(n) \/ Restart(n) PROVE db' = db
    BY <1>4 DEF Ends, BrokenPipe, MatchNull, Crash, Restart
<1>5. CASE UNCHANGED vars
    BY <1>5 DEF vars
<1> QED BY <1>1, <1>2, <1>3, <1>4, <1>5 DEF Next

(* Threads, files, sockets and crashes implement the exchange of rows      *)
(* between neighbours that Gossip promises.                                *)
THEOREM DiscoveryImplementsGossip == Spec => ImplementsGossip
<1>1. [](TypeOK /\ Sourced) /\ [][Next]_vars => [][G!Next]_db
    BY GossipStep, PTL
<1> QED
    BY TypeInit, TypeStep, SourcedInit, SourcedStep, GossipInit, <1>1, PTL
    DEF Spec, ImplementsGossip, G!Spec

-----------------------------------------------------------------------------
GP == INSTANCE GossipProofs WITH
        known <- db, Announce <- [n \in Nodes |-> AnnouncedBy(n)]

(* The constants given to Gossip satisfy its assumption.                   *)
LEMMA GossipConstants ==
    /\ Nodes \subseteq Rows
    /\ Seed \in [Nodes -> SUBSET Rows]
    /\ [n \in Nodes |-> AnnouncedBy(n)] \in [Nodes -> SUBSET Rows]
BY NodeDiscoveryAssumption DEF Rows, AnnouncedBy

(* The two instances of Gossip, here and in its proofs, are the same.      *)
LEMMA SameGossip ==
    /\ G!Init => GP!Init
    /\ [G!Next]_db => [GP!Next]_db
    /\ GP!IslandsStayApart => IslandsStayApart
<1>1. G!Init => GP!Init
    BY DEF G!Init, GP!Init
<1>2. [G!Next]_db => [GP!Next]_db
    BY DEF G!Next, GP!Next, G!AnnounceSelf, GP!AnnounceSelf, G!Learn, GP!Learn,
           G!Neighbours, GP!Neighbours, G!Add, GP!Add
<1>3. GP!IslandsStayApart => IslandsStayApart
    BY DEF IslandsStayApart, G!IslandsStayApart, GP!IslandsStayApart, G!Apart, GP!Apart,
           G!Local, GP!Local
<1> QED BY <1>1, <1>2, <1>3

(* No exchange and no crash leads a row from one island to another.        *)
THEOREM DiscoveryIslands == Spec => []IslandsStayApart
<1>1. GP!Spec => []GP!IslandsStayApart
    BY GossipConstants, GP!GossipIslands DEF GP!GossipAssumption
<1> QED
    BY <1>1, SameGossip, DiscoveryImplementsGossip, PTL
    DEF ImplementsGossip, G!Spec, GP!Spec

(* No exchange and no crash takes a row out of a database.                 *)
THEOREM DiscoveryNeverForgets == Spec => NeverForgets
<1>1. GP!Spec => GP!NeverForgets
    BY GossipConstants, GP!GossipNeverForgets DEF GP!GossipAssumption
<1> QED
    BY <1>1, SameGossip, DiscoveryImplementsGossip, PTL
    DEF ImplementsGossip, NeverForgets, G!NeverForgets, GP!NeverForgets, G!Spec, GP!Spec
=============================================================================
