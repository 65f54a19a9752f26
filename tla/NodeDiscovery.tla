---------------------------- MODULE NodeDiscovery ----------------------------
(***************************************************************************)
(* node_discovery/node_discovery.c and node_discovery/functions.h.         *)
(*                                                                         *)
(* Every node runs one process of three threads: a client that dials a     *)
(* random row of nodes.db and exchanges databases with it, a server that   *)
(* accepts such exchanges one at a time, and a task thread that writes the *)
(* node's own public address.  The client and the server save what they    *)
(* receive under one file name, nodes_.db; only the client merges it.      *)
(*                                                                         *)
(* Abstractions.  A row is the address it holds (ip and port are UNIQUE in *)
(* the table).  Reading nodes.db for sending is one step: the table of a   *)
(* network this size is one page, which the C library reads and SQLite     *)
(* writes whole.  A save is two steps, fopen("wb") and fwrite, because the *)
(* threads of one process interleave there; the fwrite of a whole number   *)
(* of pages is one write(2).                                               *)
(***************************************************************************)
EXTENDS Naturals, Sequences

CONSTANTS
    Nodes,        \* the processes, each named by the row of its address
    Dead,         \* rows of addresses where nobody listens
    NullRow,      \* the row "(null)" that sprintf makes of a NULL address
    NoNode,       \* nobody: the far end of a connection that is gone
    Seed,         \* Seed[n]: the rows of the nodes.db node n is installed with
    IpOutcomes,   \* how asking for the public address may end
    Backlog,      \* the argument of listen()
    MaxCrashes    \* bound on the processes killed from outside

Rows == Nodes \cup Dead \cup {NullRow}

ASSUME NodeDiscoveryAssumption ==
    /\ Seed \in [Nodes -> SUBSET (Nodes \cup Dead)]
    /\ IpOutcomes \subseteq {"found", "nomatch", "offline"}
    /\ NoNode \notin Nodes
    /\ Backlog \in Nat /\ MaxCrashes \in Nat

VARIABLES
    up,       \* up[n]: the process of n runs
    db,       \* db[n]: the rows of n's nodes.db
    staging,  \* staging[n]: n's nodes_.db
    cpc,      \* the client thread
    peer,     \* peer[n]: the server n's client is connected to
    cursor,   \* cursor[n]: the rows the SELECT on nodes_.db has still to return
    reply,    \* reply[n]: what has arrived at n's client from its server
    spc,      \* the server thread
    serving,  \* serving[n]: the connection n's server has accepted
    backlog,  \* backlog[n]: connections completed and not yet accepted
    orphan,   \* orphan[n]: nodes_.db was unlinked after n's server opened it
    tpc,      \* the task thread
    ip,       \* ip[n]: the row the task thread is about to insert
    crashes   \* processes killed from outside so far

clientVars == <<cpc, peer, cursor, reply>>
serverVars == <<spc, serving, backlog, orphan>>
taskVars   == <<tpc, ip>>
vars == <<up, db, staging, clientVars, serverVars, taskVars, crashes>>

-----------------------------------------------------------------------------
(***************************************************************************)
(* Data.  A direction of a connection carries the file size, then the file *)
(* (sent = 1, 2); a connection is named by the client at its far end,      *)
(* NoNode once that client is gone.                                        *)
(***************************************************************************)
Halves == [sent : 0..2, rows : SUBSET Rows]
Nothing == [sent |-> 0, rows |-> {}]

Connections == [from : Nodes \cup {NoNode}, sent : 0..2, rows : SUBSET Rows]
NoConnection == [from |-> NoNode, sent |-> 0, rows |-> {}]

Files == [kind : {"none", "empty", "full"}, rows : SUBSET Rows]
NoFile == [kind |-> "none", rows |-> {}]
EmptyFile == [kind |-> "empty", rows |-> {}]

\* What fwrite leaves of the file f when it saves a received half.  A size read
\* from a closed connection may be 0, and then nothing is written.
Saved(f, half) ==
    IF half.sent = 2 THEN [kind |-> "full", rows |-> half.rows] ELSE f

ClientStates == {"pick", "sendSize", "sendBody", "recvSize", "recvBody", "trunc",
                 "write", "open", "scan", "insert", "sleep", "spin"}
ServerStates == {"accept", "recvSize", "recvBody", "trunc", "write", "sendSize",
                 "sendBody", "spin", "deaf"}
TaskStates   == {"ask", "insert", "sleep"}

TypeOK ==
    /\ up \in [Nodes -> BOOLEAN]
    /\ db \in [Nodes -> SUBSET Rows]
    /\ staging \in [Nodes -> Files]
    /\ cpc \in [Nodes -> ClientStates]
    /\ peer \in [Nodes -> Nodes \cup {NoNode}]
    /\ cursor \in [Nodes -> SUBSET Rows]
    /\ reply \in [Nodes -> Halves]
    /\ spc \in [Nodes -> ServerStates]
    /\ serving \in [Nodes -> Connections]
    /\ backlog \in [Nodes -> Seq(Connections)]
    /\ orphan \in [Nodes -> BOOLEAN]
    /\ tpc \in [Nodes -> TaskStates]
    /\ ip \in [Nodes -> Rows]
    /\ crashes \in 0..MaxCrashes

Init ==
    /\ up = [n \in Nodes |-> TRUE]
    /\ db = Seed
    /\ staging = [n \in Nodes |-> NoFile]
    /\ cpc = [n \in Nodes |-> "pick"]
    /\ peer = [n \in Nodes |-> NoNode]
    /\ cursor = [n \in Nodes |-> {}]
    /\ reply = [n \in Nodes |-> Nothing]
    /\ spc = [n \in Nodes |-> "accept"]
    /\ serving = [n \in Nodes |-> NoConnection]
    /\ backlog = [n \in Nodes |-> <<>>]
    /\ orphan = [n \in Nodes |-> FALSE]
    /\ tpc = [n \in Nodes |-> "ask"]
    /\ ip = [n \in Nodes |-> NullRow]
    /\ crashes = 0

-----------------------------------------------------------------------------
(***************************************************************************)
(* The client thread: get_random_node, connect_to_server, process_nodes_db *)
(* and sleep.  Every error return goes to sleep.                           *)
(***************************************************************************)
ClientStep(n, from, to) ==
    /\ up[n] /\ cpc[n] = from
    /\ cpc' = [cpc EXCEPT ![n] = to]

\* Linux completes one connection more than listen() asks for.
Reachable(r) ==
    /\ r \in Nodes /\ up[r] /\ spc[r] # "deaf"
    /\ Len(backlog[r]) <= Backlog

\* Fault: the client dials an address it has no row of.
DialAnyone(n, r) ==
    /\ Reachable(r)
    /\ ClientStep(n, "pick", "sendSize")
    /\ peer' = [peer EXCEPT ![n] = r]
    /\ reply' = [reply EXCEPT ![n] = Nothing]
    /\ backlog' = [backlog EXCEPT ![r] = Append(@, [NoConnection EXCEPT !.from = n])]
    /\ UNCHANGED <<up, db, staging, cursor, spc, serving, orphan, taskVars, crashes>>

\* Fault: the client goes on reading the socket of its last connection.
DialOldSocket(n, r) ==
    /\ r \in db[n] /\ Reachable(r)
    /\ ClientStep(n, "pick", "sendSize")
    /\ peer' = [peer EXCEPT ![n] = r]
    /\ backlog' = [backlog EXCEPT ![r] = Append(@, [NoConnection EXCEPT !.from = n])]
    /\ UNCHANGED <<up, db, staging, cursor, reply, spc, serving, orphan, taskVars, crashes>>

Dial(n, r) ==
    /\ r \in db[n] /\ Reachable(r)
    /\ ClientStep(n, "pick", "sendSize")
    /\ peer' = [peer EXCEPT ![n] = r]
    /\ reply' = [reply EXCEPT ![n] = Nothing]
    /\ backlog' = [backlog EXCEPT ![r] = Append(@, [NoConnection EXCEPT !.from = n])]
    /\ UNCHANGED <<up, db, staging, cursor, spc, serving, orphan, taskVars, crashes>>

\* No row, a locked database, or a row that cannot be connected to.  The error
\* of get_random_node is ignored: connect is called with an unset address.
DialFails(n) ==
    /\ db[n] = {} \/ tpc[n] = "insert" \/ \E r \in db[n] : ~Reachable(r)
    /\ ClientStep(n, "pick", "sleep")
    /\ UNCHANGED <<up, db, staging, peer, cursor, reply, serverVars, taskVars, crashes>>

\* Fault: what was received before is counted again.
ReceivedTwice(conn, c, s, R) ==
    IF conn.from = c THEN [conn EXCEPT !.sent = @ + s, !.rows = R] ELSE conn

\* The connection of client c, after c has sent s messages, the last one R.
Received(conn, c, s, R) ==
    IF conn.from = c THEN [conn EXCEPT !.sent = s, !.rows = R] ELSE conn

\* send() by client n; if nobody is at the far end, send() may still succeed.
ClientSends(n, s, R) ==
    IF peer[n] = NoNode
    THEN UNCHANGED <<serving, backlog>>
    ELSE /\ serving' = [serving EXCEPT ![peer[n]] = Received(@, n, s, R)]
         /\ backlog' = [backlog EXCEPT ![peer[n]] =
                            [i \in 1..Len(@) |-> Received(@[i], n, s, R)]]

\* The same for the server thread of n; R is the database it sends.
ServerSends(n, s, R) ==
    IF serving[n].from = NoNode
    THEN UNCHANGED reply
    ELSE reply' = [reply EXCEPT ![serving[n].from] = [sent |-> s, rows |-> R]]

\* Fault: the file is sent without its size.
ClientSkipsSize(n) ==
    /\ ClientStep(n, "sendSize", "recvSize")
    /\ UNCHANGED <<up, db, staging, peer, cursor, reply, serverVars, taskVars, crashes>>

ClientSendSize(n) ==
    /\ ClientStep(n, "sendSize", "sendBody")
    /\ ClientSends(n, 1, {})
    /\ UNCHANGED <<up, db, staging, peer, cursor, reply, spc, orphan, taskVars, crashes>>

\* Fault: the client waits for the server's size before it sends its file.
ClientWaitsFirst(n) ==
    /\ reply[n].sent >= 1
    /\ ClientStep(n, "sendBody", "recvSize")
    /\ ClientSends(n, 2, db[n])
    /\ UNCHANGED <<up, db, staging, peer, cursor, reply, spc, orphan, taskVars, crashes>>

ClientSendBody(n) ==
    /\ ClientStep(n, "sendBody", "recvSize")
    /\ ClientSends(n, 2, db[n])
    /\ UNCHANGED <<up, db, staging, peer, cursor, reply, spc, orphan, taskVars, crashes>>

ClientRecvSize(n) ==
    /\ reply[n].sent >= 1
    /\ ClientStep(n, "recvSize", "recvBody")
    /\ UNCHANGED <<up, db, staging, peer, cursor, reply, serverVars, taskVars, crashes>>

ClientRecvBody(n) ==
    /\ reply[n].sent = 2
    /\ ClientStep(n, "recvBody", "trunc")
    /\ UNCHANGED <<up, db, staging, peer, cursor, reply, serverVars, taskVars, crashes>>

\* What else a call on a connection without a far end does: an error return,
\* or, recv() returning 0 forever, a loop that never ends.  A size that was
\* never received is whatever the stack held: -1, 0 or a number.
ClientLosesServer(n) ==
    /\ peer[n] = NoNode
    /\ \/ \E s \in {"sendSize", "sendBody"} : ClientStep(n, s, "sleep")
       \/ /\ reply[n].sent = 0
          /\ \E s \in {"sleep", "spin", "trunc"} : ClientStep(n, "recvSize", s)
       \/ /\ reply[n].sent < 2
          /\ \E s \in {"sleep", "spin"} : ClientStep(n, "recvBody", s)
    /\ UNCHANGED <<up, db, staging, peer, cursor, reply, serverVars, taskVars, crashes>>

ClientTrunc(n) ==
    /\ ClientStep(n, "trunc", "write")
    /\ staging' = [staging EXCEPT ![n] = EmptyFile]
    /\ UNCHANGED <<up, db, peer, cursor, reply, serverVars, taskVars, crashes>>

ClientWrite(n) ==
    /\ ClientStep(n, "write", "open")
    /\ staging' = [staging EXCEPT ![n] = Saved(@, reply[n])]
    /\ peer' = [peer EXCEPT ![n] = NoNode]
    /\ reply' = [reply EXCEPT ![n] = Nothing]
    /\ UNCHANGED <<up, db, cursor, serverVars, taskVars, crashes>>

\* Opening both databases and preparing the SELECT: an empty file has no table.
Open(n) ==
    /\ ClientStep(n, "open", IF staging[n].kind = "full" THEN "scan" ELSE "sleep")
    /\ UNCHANGED <<up, db, staging, peer, cursor, reply, serverVars, taskVars, crashes>>

\* The first step of the SELECT reads the page the rows are on; a file that is
\* no longer a database ends the loop at once.
Scan(n) ==
    /\ ClientStep(n, "scan", "insert")
    /\ cursor' = [cursor EXCEPT ![n] =
                     IF staging[n].kind = "full" THEN staging[n].rows ELSE {}]
    /\ UNCHANGED <<up, db, staging, peer, reply, serverVars, taskVars, crashes>>

\* The first INSERT is prepared while the task thread holds the lock.
ScanGivesUp(n) ==
    /\ tpc[n] = "insert" /\ staging[n].kind = "full" /\ staging[n].rows # {}
    /\ ClientStep(n, "scan", "sleep")
    /\ UNCHANGED <<up, db, staging, peer, cursor, reply, serverVars, taskVars, crashes>>

\* Advances the SELECT past row r; ON CONFLICT DO NOTHING makes the INSERT a
\* set union.
Advance(n, r) ==
    /\ r \in cursor[n]
    /\ ClientStep(n, "insert", "insert")
    /\ cursor' = [cursor EXCEPT ![n] = @ \ {r}]
    /\ UNCHANGED <<up, staging, peer, reply, serverVars, taskVars, crashes>>

\* Fault: the table is rebuilt from the rows of the received file.
InsertReplaces(n, r) ==
    /\ Advance(n, r)
    /\ db' = [db EXCEPT ![n] = {r}]

InsertRow(n, r) ==
    /\ Advance(n, r)
    /\ db' = [db EXCEPT ![n] = @ \cup {r}]

\* SQLITE_BUSY is printed and the row is skipped.
SkipRow(n, r) ==
    /\ tpc[n] = "insert"
    /\ Advance(n, r)
    /\ UNCHANGED db

\* Fault: the loop stops at the first row that is not inserted.
UnlinkEarly(n) ==
    /\ ClientStep(n, "insert", "sleep")
    /\ staging' = [staging EXCEPT ![n] = NoFile]
    /\ orphan' = [orphan EXCEPT ![n] = (spc[n] = "write")]
    /\ UNCHANGED <<up, db, peer, cursor, reply, spc, serving, backlog, taskVars, crashes>>

Unlink(n) ==
    /\ cursor[n] = {}
    /\ ClientStep(n, "insert", "sleep")
    /\ staging' = [staging EXCEPT ![n] = NoFile]
    /\ orphan' = [orphan EXCEPT ![n] = (spc[n] = "write")]
    /\ UNCHANGED <<up, db, peer, cursor, reply, spc, serving, backlog, taskVars, crashes>>

Wake(n) ==
    /\ ClientStep(n, "sleep", "pick")
    /\ UNCHANGED <<up, db, staging, peer, cursor, reply, serverVars, taskVars, crashes>>

-----------------------------------------------------------------------------
(***************************************************************************)
(* The server thread: the_server, called forever.  It saves what it        *)
(* receives, answers with its own database and returns.                    *)
(***************************************************************************)
ServerStep(n, from, to) ==
    /\ up[n] /\ spc[n] = from
    /\ spc' = [spc EXCEPT ![n] = to]

Accept(n) ==
    /\ backlog[n] # <<>>
    /\ ServerStep(n, "accept", "recvSize")
    /\ serving' = [serving EXCEPT ![n] = Head(backlog[n])]
    /\ backlog' = [backlog EXCEPT ![n] = Tail(@)]
    /\ UNCHANGED <<up, db, staging, clientVars, orphan, taskVars, crashes>>

ServerRecvSize(n) ==
    /\ serving[n].sent >= 1
    /\ ServerStep(n, "recvSize", "recvBody")
    /\ UNCHANGED <<up, db, staging, clientVars, serving, backlog, orphan, taskVars, crashes>>

ServerRecvBody(n) ==
    /\ serving[n].sent = 2
    /\ ServerStep(n, "recvBody", "trunc")
    /\ UNCHANGED <<up, db, staging, clientVars, serving, backlog, orphan, taskVars, crashes>>

\* The client is gone: see ClientLosesServer.  After an error return the next
\* call of the_server accepts the next connection.
ServerLosesClient(n) ==
    /\ serving[n].from = NoNode
    /\ \E to \in {"accept", "spin", "trunc"} :
          /\ \/ serving[n].sent = 0 /\ ServerStep(n, "recvSize", to)
             \/ /\ to # "trunc" /\ serving[n].sent < 2
                /\ ServerStep(n, "recvBody", to)
             \/ /\ to = "accept"
                /\ \E s \in {"sendSize", "sendBody"} : ServerStep(n, s, to)
          /\ serving' = IF to = "accept"
                        THEN [serving EXCEPT ![n] = NoConnection] ELSE serving
    /\ UNCHANGED <<up, db, staging, clientVars, backlog, orphan, taskVars, crashes>>

ServerTrunc(n) ==
    /\ ServerStep(n, "trunc", "write")
    /\ staging' = [staging EXCEPT ![n] = EmptyFile]
    /\ UNCHANGED <<up, db, clientVars, serving, backlog, orphan, taskVars, crashes>>

\* Fault: the server deletes the file it saved, as the client does.
ServerWriteUnlinks(n) ==
    /\ ServerStep(n, "write", "sendSize")
    /\ staging' = [staging EXCEPT ![n] = NoFile]
    /\ orphan' = [orphan EXCEPT ![n] = FALSE]
    /\ UNCHANGED <<up, db, clientVars, serving, backlog, taskVars, crashes>>

ServerWrite(n) ==
    /\ ServerStep(n, "write", "sendSize")
    /\ staging' = IF orphan[n] THEN staging
                  ELSE [staging EXCEPT ![n] = Saved(@, serving[n])]
    /\ orphan' = [orphan EXCEPT ![n] = FALSE]
    /\ UNCHANGED <<up, db, clientVars, serving, backlog, taskVars, crashes>>

ServerSendSize(n) ==
    /\ ServerStep(n, "sendSize", "sendBody")
    /\ ServerSends(n, 1, {})
    /\ UNCHANGED <<up, db, staging, cpc, peer, cursor, serving, backlog, orphan, taskVars, crashes>>

\* Fault: the connection is not closed, and is still in use at the next accept.
ServerKeepsSocket(n) ==
    /\ ServerStep(n, "sendBody", "accept")
    /\ ServerSends(n, 2, db[n])
    /\ UNCHANGED <<up, db, staging, cpc, peer, cursor, serving, backlog, orphan, taskVars, crashes>>

ServerSendBody(n) ==
    /\ ServerStep(n, "sendBody", "accept")
    /\ ServerSends(n, 2, db[n])
    /\ serving' = [serving EXCEPT ![n] = NoConnection]
    /\ UNCHANGED <<up, db, staging, cpc, peer, cursor, backlog, orphan, taskVars, crashes>>

-----------------------------------------------------------------------------
(***************************************************************************)
(* The task thread: get_public_ip, extract_ipv4, insert_node, sleep.       *)
(***************************************************************************)
TaskStep(n, from, to) ==
    /\ up[n] /\ tpc[n] = from
    /\ tpc' = [tpc EXCEPT ![n] = to]

\* Fault: a response without an address leaves the address known so far.
LearnIpKeeps(n) ==
    /\ TaskStep(n, "ask", "insert")
    /\ ip' = [ip EXCEPT ![n] = n]
    /\ UNCHANGED <<up, db, staging, clientVars, serverVars, crashes>>

\* Where a response holds no address the error is printed and NULL inserted.
LearnIp(n) ==
    /\ TaskStep(n, "ask", "insert")
    /\ \E o \in IpOutcomes \ {"offline"} :
          ip' = [ip EXCEPT ![n] = IF o = "found" THEN n ELSE NullRow]
    /\ UNCHANGED <<up, db, staging, clientVars, serverVars, crashes>>

TaskInsert(n) ==
    /\ TaskStep(n, "insert", "sleep")
    /\ db' = [db EXCEPT ![n] = @ \cup {ip[n]}]
    /\ UNCHANGED <<up, staging, clientVars, serverVars, ip, crashes>>

\* SQLITE_BUSY: the client thread reads or writes nodes.db, and the return
\* value of insert_node is not looked at.
TaskInsertBusy(n) ==
    /\ cpc[n] = "pick" \/ (cpc[n] = "insert" /\ cursor[n] # {})
    /\ TaskStep(n, "insert", "sleep")
    /\ UNCHANGED <<up, db, staging, clientVars, serverVars, ip, crashes>>

TaskWake(n) ==
    /\ TaskStep(n, "sleep", "ask")
    /\ UNCHANGED <<up, db, staging, clientVars, serverVars, ip, crashes>>

-----------------------------------------------------------------------------
(***************************************************************************)
(* The end of a process.  Its files stay; its connections lose one end.    *)
(***************************************************************************)
Orphaned(conn, n) == IF conn.from = n THEN [conn EXCEPT !.from = NoNode] ELSE conn

Die(n) ==
    /\ up' = [up EXCEPT ![n] = FALSE]
    /\ cpc' = [cpc EXCEPT ![n] = "pick"]
    /\ peer' = [c \in Nodes |-> IF c = n \/ peer[c] = n THEN NoNode ELSE peer[c]]
    /\ cursor' = [cursor EXCEPT ![n] = {}]
    /\ reply' = [reply EXCEPT ![n] = Nothing]
    /\ spc' = [spc EXCEPT ![n] = "accept"]
    /\ serving' = [m \in Nodes |->
                     IF m = n THEN NoConnection ELSE Orphaned(serving[m], n)]
    /\ backlog' = [m \in Nodes |->
                     IF m = n THEN <<>>
                     ELSE [i \in 1..Len(backlog[m]) |-> Orphaned(backlog[m][i], n)]]
    /\ orphan' = [orphan EXCEPT ![n] = FALSE]
    /\ tpc' = [tpc EXCEPT ![n] = "ask"]
    /\ ip' = [ip EXCEPT ![n] = NullRow]
    /\ UNCHANGED staging

\* A second send() to a process that is gone raises SIGPIPE.
BrokenPipe(n) ==
    /\ up[n]
    /\ \/ cpc[n] = "sendBody" /\ peer[n] = NoNode
       \/ spc[n] = "sendBody" /\ serving[n].from = NoNode
    /\ Die(n)
    /\ UNCHANGED <<db, crashes>>

\* Without an answer extract_ipv4 matches its pattern against NULL.
MatchNull(n) ==
    /\ up[n] /\ tpc[n] = "ask" /\ "offline" \in IpOutcomes
    /\ Die(n)
    /\ UNCHANGED <<db, crashes>>

\* Fault: a process that crashed starts from the database it was installed with.
CrashReinstalls(n) ==
    /\ up[n] /\ crashes < MaxCrashes
    /\ Die(n)
    /\ crashes' = crashes + 1
    /\ db' = [db EXCEPT ![n] = Seed[n]]

Crash(n) ==
    /\ up[n] /\ crashes < MaxCrashes
    /\ Die(n)
    /\ crashes' = crashes + 1
    /\ UNCHANGED db

\* The port may still be taken by a connection of the process before: bind() fails,
\* and listen() waits on a port of the system's choice, which no row names.
Restart(n) ==
    /\ ~up[n]
    /\ up' = [up EXCEPT ![n] = TRUE]
    /\ \E s \in {"accept", "deaf"} : spc' = [spc EXCEPT ![n] = s]
    /\ UNCHANGED <<db, staging, clientVars, serving, backlog, orphan, taskVars, crashes>>

-----------------------------------------------------------------------------
Client(n) ==
    \/ \E r \in Rows : Dial(n, r) \/ InsertRow(n, r) \/ SkipRow(n, r)
    \/ DialFails(n) \/ ClientSendSize(n) \/ ClientSendBody(n)
    \/ ClientRecvSize(n) \/ ClientRecvBody(n) \/ ClientLosesServer(n)
    \/ ClientTrunc(n) \/ ClientWrite(n)
    \/ Open(n) \/ Scan(n) \/ ScanGivesUp(n) \/ Unlink(n) \/ Wake(n)

Server(n) ==
    \/ Accept(n) \/ ServerRecvSize(n) \/ ServerRecvBody(n) \/ ServerLosesClient(n)
    \/ ServerTrunc(n) \/ ServerWrite(n) \/ ServerSendSize(n) \/ ServerSendBody(n)

Tasks(n) == LearnIp(n) \/ TaskInsert(n) \/ TaskInsertBusy(n) \/ TaskWake(n)

Ends(n) == BrokenPipe(n) \/ MatchNull(n) \/ Crash(n)

Next == \E n \in Nodes : Client(n) \/ Server(n) \/ Tasks(n) \/ Ends(n) \/ Restart(n)

Spec == Init /\ [][Next]_vars

\* Each thread keeps running; a process that ended is started again.
ThreadFairness ==
    \A n \in Nodes : /\ WF_vars(Client(n)) /\ WF_vars(Server(n))
                     /\ WF_vars(Tasks(n)) /\ WF_vars(Restart(n))

FairSpec == Spec /\ ThreadFairness

\* Rows are picked at random: no server that can be reached is left out forever.
PickFairness == \A n, m \in Nodes : SF_vars(Dial(n, m))

RandomSpec == FairSpec /\ PickFairness

-----------------------------------------------------------------------------
AnnouncedBy(n) ==
    {IF o = "found" THEN n ELSE NullRow : o \in IpOutcomes \ {"offline"}}

G == INSTANCE Gossip WITH
        known <- db, Announce <- [n \in Nodes |-> AnnouncedBy(n)]

\* The rows R are a copy of one database of D: of a neighbour of n, of a server
\* that n has a row of, of a client that has a row of the server m.
FromNeighbour(D, R, n) ==
    R # {} => \E m \in Nodes : R \subseteq D[m] /\ (m \in D[n] \/ n \in D[m])
FromServer(D, R, n) == R # {} => \E m \in D[n] \cap Nodes : R \subseteq D[m]
FromClient(D, R, m) == R # {} => \E c \in Nodes : R \subseteq D[c] /\ m \in D[c]

HeldBy(m) == {serving[m]} \cup {backlog[m][i] : i \in 1..Len(backlog[m])}

(* Whatever a node stages, reads, receives or is pushed is a copy of one   *)
(* database: of a neighbour's for the file and the cursor, of a server the *)
(* client has a row of for a reply, of a client that has a row of the      *)
(* server for a push.  No interleaving of the two threads that share       *)
(* nodes_.db, and no crash, mixes databases or lets one in from elsewhere. *)
SingleSource ==
    \A n \in Nodes :
        /\ FromNeighbour(db, staging[n].rows, n)
        /\ FromNeighbour(db, cursor[n], n)
        /\ FromServer(db, reply[n].rows, n)
        /\ \A conn \in HeldBy(n) : FromClient(db, conn.rows, n)

(* The two ends of an exchange agree: a connection a server holds leads to *)
(* a running client that waits for this server, holds no other one, and    *)
(* has received an answer only if its server is about to end the exchange. *)
(* A server never answers the client of another connection (the fields     *)
(* client_sockfd and sockfd of the_server and connect_to_server).          *)
EndsAgree ==
    \A m \in Nodes :
        /\ \A conn \in HeldBy(m) : conn.from # NoNode =>
              /\ up[conn.from] /\ peer[conn.from] = m
              /\ conn.from \in db[m] \/ m \in db[conn.from]
              /\ reply[conn.from].sent > 0 =>
                    conn = serving[m] /\ spc[m] = "sendBody"
        /\ \A i, j \in 1..Len(backlog[m]) :
              backlog[m][i].from = backlog[m][j].from /\ i # j
                  => backlog[m][i].from = NoNode
        /\ \A i \in 1..Len(backlog[m]) :
              backlog[m][i].from = serving[m].from => serving[m].from = NoNode

(* Nobody waits in vain, although each server answers one client at a time *)
(* and each node waits as a client while others wait on its server: what a *)
(* server waits for, its client is about to send, and the clients of a     *)
(* server that waits for connections have their answers.  So no circle of  *)
(* waiting ends forms, whoever dials whom and whatever processes end       *)
(* (functions.h, lines 137-158 and 300-321).                               *)
NobodyWaitsInVain ==
    \A m \in Nodes :
        /\ serving[m].from # NoNode =>
              /\ spc[m] = "recvSize" /\ serving[m].sent = 0
                    => cpc[serving[m].from] = "sendSize"
              /\ spc[m] = "recvBody" /\ serving[m].sent < 2
                    => cpc[serving[m].from] = "sendBody"
        /\ spc[m] = "accept" /\ backlog[m] = <<>> =>
              \A n \in Nodes : peer[n] = m =>
                 /\ cpc[n] = "recvSize" => reply[n].sent >= 1
                 /\ cpc[n] = "recvBody" => reply[n].sent = 2

(* process_nodes_db never meets the branch "The second database file does  *)
(* not exist": only the client unlinks nodes_.db, after it has read it,    *)
(* however its own server truncates and rewrites the file meanwhile.       *)
NoMissingFile ==
    \A n \in Nodes : cpc[n] \in {"write", "open", "scan", "insert"}
                        => staging[n].kind # "none"

(* No exchange and no crash takes a row out of a database.                 *)
NeverForgets == G!NeverForgets

(* No sequence of exchanges leads a row from one island to another.        *)
IslandsStayApart == G!IslandsStayApart

(* The exchanges of NodeDiscovery, with their threads, files and crashes,  *)
(* are steps of Gossip.                                                    *)
ImplementsGossip == G!Spec

-----------------------------------------------------------------------------
(* Without failures nobody waits on everybody: though every server answers *)
(* one client at a time and every node is client and server (of itself,    *)
(* too), each exchange a client begins comes to its end.                   *)
RoundEnds == \A n \in Nodes : cpc[n] = "sendSize" ~> cpc[n] = "sleep"

(* The server that accepted a connection is eventually back at accept.     *)
ServerReturns == \A n \in Nodes : spc[n] = "recvSize" ~> spc[n] = "accept"

(* What a node that n has a row of knows, n comes to know.                 *)
PullConverges ==
    \A n, m \in Nodes, r \in Rows : (m \in db[n] /\ r \in db[m]) ~> r \in db[n]

(* A row that a server has sent is merged by the client that received it   *)
(* (node_discovery.c, lines 13-14).                                        *)
PullMerged ==
    \A n \in Nodes, r \in Rows :
        (cpc[n] = "trunc" /\ r \in reply[n].rows) ~> r \in db[n]
=============================================================================
