---------------------------- MODULE SocketServer ----------------------------
(***************************************************************************)
(* The socket of a session and the clients attached to it:                  *)
(* packages/coding-agent/src/core/socket-server/socket-server.ts and        *)
(* socket-client.ts.                                                        *)
(*                                                                          *)
(* Each connection is a pair of streams. The server reads one line of one   *)
(* connection at a time and answers at once; what it writes, what the       *)
(* client writes and the ends of the two streams are under way for as long  *)
(* as they like. A client object has one name for all its connections.      *)
(***************************************************************************)
EXTENDS Integers, Sequences, FiniteSets, SequencesExt

CONSTANTS
  Client,      \* the client objects, each known by its name
  ReadOnly,    \* those that attach in mode read-only
  MaxClients,  \* maxClients of the server
  MaxConns,    \* connections made
  MaxLines,    \* inputs sent by clients, and outputs of the session
  EarlyReturn  \* a client may connect while its last connection is closing

None == "none"

SocketAssumption ==
  /\ ReadOnly \subseteq Client /\ None \notin Client /\ EarlyReturn \in BOOLEAN
  /\ {MaxClients, MaxConns, MaxLines} \subseteq Nat

VARIABLES
  clients, \* #clients: the connection of each registered name, or 0
  conns,   \* the connections, oldest first
  heard,   \* what the server did: names that joined and left, inputs, outputs
  lines    \* inputs and outputs so far

vars == <<clients, conns, heard, lines>>

\* A connection: its client, the name in the closure of #handleConnection, what
\* is under way to the server and what was sent to the client, whether the
\* client still uses it, and whether the server's socket is open.
NewConn(c) ==
  [owner |-> c, id |-> None, in |-> <<"attach">>, out |-> <<>>, from |-> 0,
   used |-> TRUE, open |-> TRUE]

Registered == {c \in Client : clients[c] # 0}
Ids == DOMAIN conns

Event(kind, c) == [kind |-> kind, client |-> c]

-----------------------------------------------------------------------------
(* What the server sends.                                                   *)

\* #broadcast: to all registered sockets but that of the client named.
Broadcast(cs, to, event) ==
  [k \in DOMAIN cs |->
     IF \E c \in Client \ {event.client} : to[c] = k
     THEN [cs[k] EXCEPT !.out = Append(@, event)] ELSE cs[k]]

\* Defect: a name that leaves is not announced.
Leave_Silently(cs, registered, c) ==
  [clients |-> [registered EXCEPT ![c] = 0], conns |-> cs]

\* #handleClientDisconnect of a name that is registered.
Leave(cs, registered, c) ==
  LET others == [registered EXCEPT ![c] = 0] IN
  [clients |-> others, conns |-> Broadcast(cs, others, Event("left", c))]

\* #handleClientDisconnect.
Disconnect(cs, c) ==
  IF c # None /\ clients[c] # 0
  THEN LET left == Leave(cs, clients, c) IN
       /\ clients' = left.clients /\ conns' = left.conns
       /\ heard' = Append(heard, Event("left", c))
  ELSE conns' = cs /\ UNCHANGED <<clients, heard>>

-----------------------------------------------------------------------------
(* The clients.                                                             *)

Connect(c) ==
  /\ Len(conns) < MaxConns
  /\ \A k \in Ids : conns[k].owner = c => ~conns[k].used /\ (EarlyReturn \/ ~conns[k].open)
  /\ conns' = Append(conns, NewConn(c))
  /\ UNCHANGED <<clients, heard, lines>>

SendInput(k) ==
  /\ conns[k].used /\ lines < MaxLines
  /\ conns' = [conns EXCEPT ![k].in = Append(@, "input")]
  /\ lines' = lines + 1
  /\ UNCHANGED <<clients, heard>>

\* disconnect(): the name is given up, and this end is closed.
ClientDisconnects(k) ==
  /\ conns[k].used
  /\ conns' = [conns EXCEPT ![k].used = FALSE, ![k].in = @ \o <<"detach", "end">>]
  /\ UNCHANGED <<clients, heard, lines>>

\* The connection breaks: what was under way to the server is lost.
Breaks(k) ==
  /\ conns[k].used
  /\ conns' = [conns EXCEPT ![k].used = FALSE, ![k].in = <<"end">>]
  /\ UNCHANGED <<clients, heard, lines>>

\* The server has closed its end: the client's end follows.
ClientEnds(k) ==
  /\ conns[k].used /\ conns[k].out # <<>> /\ Last(conns[k].out) = Event("end", None)
  /\ conns' = [conns EXCEPT ![k].used = FALSE, ![k].in = Append(@, "end")]
  /\ UNCHANGED <<clients, heard, lines>>

-----------------------------------------------------------------------------
(* The server: one line of one connection.                                  *)

Reads(k, line) == conns[k].open /\ conns[k].in # <<>> /\ Head(conns[k].in) = line
Taken(k) == [conns EXCEPT ![k].in = Tail(@)]
\* socket.end(): the last thing sent.
Ended(cs, k) == [cs EXCEPT ![k].out = Append(@, Event("end", None))]

ReadAttach(k) ==
  LET c == conns[k].owner IN
  /\ Reads(k, "attach")
  /\ \/ /\ Cardinality(Registered) >= MaxClients \/ clients[c] # 0
        /\ conns' = Ended(Taken(k), k)
        /\ UNCHANGED <<clients, heard>>
     \/ /\ Cardinality(Registered) < MaxClients /\ clients[c] = 0
        /\ clients' = [clients EXCEPT ![c] = k]
        /\ conns' = Broadcast([Taken(k) EXCEPT ![k].id = c, ![k].from = Len(heard) + 1],
                              clients', Event("joined", c))
        /\ heard' = Append(heard, Event("joined", c))
  /\ UNCHANGED lines

\* Defect: the echo comes back to its author.
ReadInput_ToAll(k) ==
  LET c == conns[k].owner IN
  /\ Reads(k, "input")
  /\ conns' = [j \in Ids |-> IF j \in {clients[d] : d \in Client}
                             THEN [Taken(k)[j] EXCEPT !.out = Append(@, Event("input", c))]
                             ELSE Taken(k)[j]]
  /\ heard' = Append(heard, Event("input", c))
  /\ UNCHANGED <<clients, lines>>

ReadInput(k) ==
  LET c == conns[k].owner IN
  /\ Reads(k, "input")
  /\ \/ /\ clients[c] = 0 \/ c \in ReadOnly
        /\ conns' = Taken(k) /\ UNCHANGED <<clients, heard>>
     \/ /\ clients[c] # 0 /\ c \notin ReadOnly
        /\ conns' = Broadcast(Taken(k), clients, Event("input", c))
        /\ heard' = Append(heard, Event("input", c)) /\ UNCHANGED clients
  /\ UNCHANGED lines

ReadDetach(k) ==
  /\ Reads(k, "detach")
  /\ Disconnect(Ended(Taken(k), k), conns[k].owner)
  /\ UNCHANGED lines

\* Defect: a socket that closes leaves its name behind.
SocketCloses_Forgotten(k) ==
  /\ Reads(k, "end")
  /\ conns' = [Taken(k) EXCEPT ![k].open = FALSE]
  /\ UNCHANGED <<clients, heard, lines>>

\* The close (or error) of the server's socket, which ends with the client's:
\* the name that attached here leaves, whoever has it now.
SocketCloses(k) ==
  /\ Reads(k, "end")
  /\ Disconnect([Taken(k) EXCEPT ![k].open = FALSE], conns[k].id)
  /\ UNCHANGED lines

\* broadcastOutput.
Output ==
  /\ lines < MaxLines
  /\ lines' = lines + 1
  /\ conns' = Broadcast(conns, clients, Event("output", None))
  /\ heard' = Append(heard, Event("output", None))
  /\ UNCHANGED clients

-----------------------------------------------------------------------------
Init == clients = [c \in Client |-> 0] /\ conns = <<>> /\ heard = <<>> /\ lines = 0

Next ==
  \/ \E c \in Client : Connect(c)
  \/ \E k \in Ids :
       \/ SendInput(k) \/ ClientDisconnects(k) \/ Breaks(k) \/ ClientEnds(k)
       \/ ReadAttach(k) \/ ReadInput(k) \/ ReadDetach(k) \/ SocketCloses(k)
  \/ Output

Spec == Init /\ [][Next]_vars

-----------------------------------------------------------------------------
\* What came after `from' and was not of c itself, and whether c got it in order.
Due(events, from, c) == {i \in (from + 1)..Len(events) : events[i].client # c}
GotInOrder(got, events, from, c) ==
  LET due == Due(events, from, c) IN
  /\ Len(got) = Cardinality(due)
  /\ \A i \in due : got[Cardinality({j \in due : j <= i})] = events[i]

\* A client that is attached, as far as it can know, is registered with the
\* connection it uses, and every registered name has a connection whose close
\* will be heard: neither does a late close take the name of its successor
\* (SocketCloses), nor does a name stay when its connection is gone. Between
\* its attachment and its last line a client gets every event of the others,
\* in the order in which the server had them: all clients agree on who is
\* there and on what was said (#broadcast, #handleClientDisconnect).
ClientsAgree ==
  /\ \A k \in Ids :
       conns[k].used /\ conns[k].id # None =>
         /\ clients[conns[k].owner] = k
         /\ GotInOrder(conns[k].out, heard, conns[k].from, conns[k].owner)
  /\ \A c \in Registered : conns[clients[c]].open /\ conns[clients[c]].id = c
===============================================================================
