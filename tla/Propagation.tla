----------------------------- MODULE Propagation -----------------------------
(***************************************************************************)
(* propagation_latency/propagation.c and functions.h: one program that     *)
(* reads the nodes table, starts a non-blocking connection to every row,   *)
(* sends its message, and then waits up to a second for each reply.        *)
(*                                                                         *)
(* The array of nodes is a set, and a loop over it takes its members in    *)
(* any order.  A reply of MAX_MESSAGE_LENGTH bytes arrives in two parts,   *)
(* so that the program can find one of them alone.  The hosts, and node    *)
(* discovery writing the same table, act between any two steps.            *)
(***************************************************************************)
EXTENDS Naturals, FiniteSets

CONSTANTS
    Hosts,       \* the rows nodes.db may hold, each the address of a host
    Listening,   \* the hosts where somebody listens
    Unroutable,  \* the rows connect() refuses at once: no route, not an address
    Table        \* the rows nodes.db holds at the start

ASSUME PropagationAssumption ==
    /\ IsFiniteSet(Hosts)
    /\ Listening \subseteq Hosts /\ Unroutable \subseteq Hosts \ Listening
    /\ Table \subseteq Hosts

VARIABLES
    table,    \* the rows of nodes.db
    count,    \* node_count: the size of the malloc'ed array
    nodes,    \* the rows in the array
    status,   \* status[h]: the field status of h's entry is not 0
    sock,     \* sock[h]: the socket of h's entry
    todo,     \* the entries the loop has still to visit
    cur,      \* the entry it is at
    pc,       \* where main stands
    total,    \* total_bytes_received, in parts of a reply
    arrived,  \* arrived[h]: parts of h's reply in the socket, not yet read
    rest,     \* rest[h]: parts h has still to send
    closed,   \* closed[h]: h has closed its end
    heard,    \* the hosts that were sent the message
    report    \* report[h]: the line printed for h

local == <<count, nodes, todo, cur, pc, total>>
network == <<sock, arrived, rest, closed>>
vars == <<table, local, status, network, heard, report>>

Reports == {"none", "received", "timeout", "closed", "error"}

TypeOK ==
    /\ table \subseteq Hosts /\ nodes \subseteq Hosts /\ todo \subseteq nodes
    /\ count \in 0..Cardinality(Hosts)
    /\ cur \in Hosts
    /\ status \in [Hosts -> BOOLEAN]
    /\ sock \in [Hosts -> {"none", "failed", "connecting", "open", "refused", "spent"}]
    /\ pc \in {"count", "fetch", "connect", "send", "receive", "recv", "exit"}
    /\ total \in 0..1
    /\ arrived \in [Hosts -> 0..2] /\ rest \in [Hosts -> 0..2]
    /\ closed \in [Hosts -> BOOLEAN]
    /\ heard \subseteq Hosts
    /\ report \in [Hosts -> Reports]

Init ==
    /\ table = Table
    /\ count = 0 /\ nodes = {} /\ todo = {} /\ cur \in Hosts
    /\ pc = "count" /\ total = 0
    /\ status = [h \in Hosts |-> FALSE]
    /\ sock = [h \in Hosts |-> "none"]
    /\ arrived = [h \in Hosts |-> 0]
    /\ rest = [h \in Hosts |-> 2]
    /\ closed = [h \in Hosts |-> FALSE]
    /\ heard = {}
    /\ report = [h \in Hosts |-> "none"]

Exit(from) ==
    /\ pc = from /\ pc' = "exit"
    /\ UNCHANGED <<table, count, nodes, todo, cur, total, status, network, heard, report>>

-----------------------------------------------------------------------------
(***************************************************************************)
(* Reading the table: the COUNT, the malloc, the SELECT.                   *)
(***************************************************************************)
\* Fault: one more than the rows.
GetNodeCountOffByOne ==
    /\ pc = "count" /\ pc' = "fetch"
    /\ count' = Cardinality(table) + 1
    /\ UNCHANGED <<table, nodes, todo, cur, total, status, network, heard, report>>

GetNodeCount ==
    /\ pc = "count" /\ pc' = "fetch"
    /\ count' = Cardinality(table)
    /\ UNCHANGED <<table, nodes, todo, cur, total, status, network, heard, report>>

\* The field status is read later but only connect_to_server ever sets it.
Fill(rows) ==
    /\ pc = "fetch" /\ pc' = "connect"
    /\ nodes' = rows /\ todo' = rows
    /\ status' \in [Hosts -> BOOLEAN]
    /\ UNCHANGED <<table, count, cur, total, network, heard, report>>

GetNodes == Cardinality(table) = count /\ Fill(table)

\* The rows added since the COUNT are written behind the array.  If the program
\* lives through that, it goes on with the first count rows.
GetNodesOverruns ==
    /\ Cardinality(table) > count
    /\ \/ Exit("fetch")
       \/ \E rows \in SUBSET table : Cardinality(rows) = count /\ Fill(rows)

\* The file is in use while it is opened, prepared or read.
DatabaseFails == Exit("count") \/ Exit("fetch")

-----------------------------------------------------------------------------
(***************************************************************************)
(* connect_to_server and send_message for every entry.                     *)
(***************************************************************************)
Done(h, next) == cur' = h /\ todo' = todo \ {h} /\ pc' = next

\* connect() fails at once and the entry's status stays what malloc left there.
ConnectFails(h) ==
    /\ pc = "connect" /\ h \in todo \ Listening
    /\ Done(h, "connect")
    /\ sock' = [sock EXCEPT ![h] = "failed"]
    /\ UNCHANGED <<table, count, nodes, total, status, arrived, rest, closed, heard, report>>

\* connect() returns 0, or -1 with EINPROGRESS.
Connect(h) ==
    /\ pc = "connect" /\ h \in todo \ Unroutable
    /\ cur' = h /\ pc' = "send"
    /\ \E s \in {"open", "connecting"} :
        /\ s = "open" => h \in Listening
        /\ sock' = [sock EXCEPT ![h] = s]
    /\ status' = [status EXCEPT ![h] = TRUE]
    /\ UNCHANGED <<table, count, nodes, todo, total, arrived, rest, closed, heard, report>>

\* Before the handshake is over send() fails with EAGAIN; there is no retry.  After a
\* refusal it fails too, and takes the error off the socket.
SendMessage ==
    /\ pc = "send"
    /\ Done(cur, "connect")
    /\ heard' = IF sock[cur] = "open" THEN heard \cup {cur} ELSE heard
    /\ sock' = [sock EXCEPT ![cur] = IF @ = "refused" THEN "spent" ELSE @]
    /\ UNCHANGED <<table, count, nodes, total, status, arrived, rest, closed, report>>

AllSent ==
    /\ pc = "connect" /\ todo = {}
    /\ pc' = "receive" /\ todo' = nodes
    /\ UNCHANGED <<table, count, nodes, cur, total, status, network, heard, report>>

-----------------------------------------------------------------------------
(***************************************************************************)
(* receive_message for every entry whose status is not 0.                  *)
(***************************************************************************)
\* select() reports data, an end of file, an error, and a socket never connected.
Readable(h) == arrived[h] > 0 \/ closed[h] \/ sock[h] \in {"refused", "spent", "failed"}

Skip(h) ==
    /\ pc = "receive" /\ h \in todo /\ ~status[h]
    /\ Done(h, "receive")
    /\ UNCHANGED <<table, count, nodes, total, status, network, heard, report>>

Select(h) ==
    /\ pc = "receive" /\ h \in todo /\ status[h] /\ Readable(h)
    /\ cur' = h /\ pc' = "recv" /\ total' = 0
    /\ UNCHANGED <<table, count, nodes, todo, status, network, heard, report>>

\* Fault: the program waits for a reply without a timeout.
SelectWaits(h) ==
    /\ pc = "receive" /\ h \in todo /\ status[h] /\ Readable(h)
    /\ Done(h, "receive")
    /\ report' = [report EXCEPT ![h] = "timeout"]
    /\ UNCHANGED <<table, count, nodes, total, status, network, heard>>

SelectTimesOut(h) ==
    /\ pc = "receive" /\ h \in todo /\ status[h] /\ ~Readable(h)
    /\ Done(h, "receive")
    /\ report' = [report EXCEPT ![h] = "timeout"]
    /\ UNCHANGED <<table, count, nodes, total, status, network, heard>>

Returns(line) ==
    /\ Done(cur, "receive")
    /\ total' = 0
    /\ report' = [report EXCEPT ![cur] = line]

\* Fault: whatever has arrived first is taken for the message.
RecvOnce ==
    /\ pc = "recv" /\ arrived[cur] > 0
    /\ arrived' = [arrived EXCEPT ![cur] = 0]
    /\ Returns("received")
    /\ UNCHANGED <<table, count, nodes, status, sock, rest, closed, heard>>

RecvData ==
    /\ pc = "recv" /\ arrived[cur] > 0
    /\ arrived' = [arrived EXCEPT ![cur] = 0]
    /\ \/ total + arrived[cur] = 2 /\ Returns("received")
       \/ /\ total + arrived[cur] < 2
          /\ total' = total + arrived[cur]
          /\ UNCHANGED <<todo, cur, pc, report>>
    /\ UNCHANGED <<table, count, nodes, status, sock, rest, closed, heard>>

\* Closed by the host, or refused before and nothing left to report.
AtEnd(h) == (sock[h] = "open" /\ closed[h]) \/ sock[h] = "spent"

RecvEnd ==
    /\ pc = "recv" /\ arrived[cur] = 0 /\ AtEnd(cur)
    /\ Returns("closed")
    /\ status' = [status EXCEPT ![cur] = FALSE]
    /\ UNCHANGED <<table, count, nodes, network, heard>>

\* The part that has not arrived yet is EAGAIN, and what was read is dropped.
RecvError ==
    /\ pc = "recv" /\ arrived[cur] = 0 /\ ~AtEnd(cur)
    /\ Returns("error")
    /\ UNCHANGED <<table, count, nodes, status, network, heard>>

Finish == todo = {} /\ Exit("receive")

-----------------------------------------------------------------------------
(***************************************************************************)
(* The hosts, and node discovery.                                          *)
(***************************************************************************)
Handshake(h) ==
    /\ sock[h] = "connecting" /\ h \notin Unroutable
    /\ sock' = [sock EXCEPT ![h] = IF h \in Listening THEN "open" ELSE "refused"]
    /\ UNCHANGED <<table, local, status, arrived, rest, closed, heard, report>>

Arrive(h) ==
    /\ sock[h] = "open" /\ ~closed[h] /\ rest[h] > 0
    /\ \E n \in 1..rest[h] :
        /\ arrived' = [arrived EXCEPT ![h] = @ + n]
        /\ rest' = [rest EXCEPT ![h] = @ - n]
    /\ UNCHANGED <<table, local, status, sock, closed, heard, report>>

HangUp(h) ==
    /\ sock[h] = "open" /\ ~closed[h]
    /\ closed' = [closed EXCEPT ![h] = TRUE]
    /\ UNCHANGED <<table, local, status, sock, arrived, rest, heard, report>>

Discover(h) ==
    /\ h \notin table
    /\ table' = table \cup {h}
    /\ UNCHANGED <<local, status, network, heard, report>>

Main ==
    \/ GetNodeCount \/ GetNodes \/ GetNodesOverruns \/ DatabaseFails
    \/ SendMessage \/ AllSent \/ RecvData \/ RecvEnd \/ RecvError \/ Finish
    \/ \E h \in Hosts : ConnectFails(h) \/ Connect(h) \/ Skip(h) \/ Select(h) \/ SelectTimesOut(h)

World == \E h \in Hosts : Handshake(h) \/ Arrive(h) \/ HangUp(h) \/ Discover(h)

Next == Main \/ World

Spec == Init /\ [][Next]_vars

(* The program runs on; nobody else has to do anything.                    *)
FairSpec == Spec /\ WF_vars(Main)

-----------------------------------------------------------------------------
(* The program ends whatever the hosts do: nobody's silence holds it up    *)
(* (the one second of select in receive_message, lines 184-194, and the    *)
(* non-blocking socket of connect_to_server, lines 126-137).               *)
Finishes == <>(pc = "exit")

(* What is printed as a message is a whole one: all parts of the reply had *)
(* arrived and had been read (receive_message, lines 197-211).             *)
WholeMessages == \A h \in Hosts : report[h] = "received" => rest[h] = 0 /\ arrived[h] = 0

(* When all has been sent, every host of the table that listens has been   *)
(* sent the message ("sends it to every node in the network", README.md,   *)
(* line 15).                                                               *)
EveryListenerHears == pc = "receive" => nodes \cap Listening \subseteq heard
=============================================================================
