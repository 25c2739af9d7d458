----------------------------- MODULE CodexSockets -----------------------------
(***************************************************************************)
(* The WebSockets of openai-codex-responses.ts: one connection is cached   *)
(* for a session and reused; a stream that finds it busy opens one of its  *)
(* own; an idle one is closed by its timer.  A connection is opened across *)
(* an await, so that two streams of a session may both open one to cache.  *)
(* Sockets are numbered as they are opened, and the entry of a cached      *)
(* socket has its number.                                                  *)
(***************************************************************************)
EXTENDS Naturals, Sequences, FiniteSets

CONSTANTS Stream,      \* the streams of one session
          MaxSockets,  \* bound on the sockets opened
          Happens      \* may connections, responses and streams "fail" (an abort
                       \* is a failure), may servers "close" connections

\* What is assumed of the constants.
SocketsAssumption == MaxSockets \in Nat /\ Happens \subseteq {"fail", "close"}

VARIABLES
  at,        \* where a stream is
  socket,    \* the socket of a stream, 0 for none
  mode,      \* how it came by it: "own", "cached" or "new"
  starts,    \* the start events it has pushed
  got,       \* history: whose messages a stream was given
  open,      \* the sockets that are open
  owed,      \* the messages a socket's server will send: whose they are, "more" or "last"
  websocketSessionCache,  \* the entry of the session, 0 for none
  busy, timer             \* the entries that are busy, and those with a timer
vars == <<at, socket, mode, starts, got, open, owed, websocketSessionCache, busy, timer>>

Sockets == DOMAIN owed
Cached == websocketSessionCache

Init ==
  /\ at = [s \in Stream |-> "idle"]
  /\ socket = [s \in Stream |-> 0]
  /\ mode = [s \in Stream |-> "none"]
  /\ starts = [s \in Stream |-> 0]
  /\ got = [s \in Stream |-> <<>>]
  /\ open = {} /\ owed = <<>>
  /\ websocketSessionCache = 0 /\ busy = {} /\ timer = {}

-----------------------------------------------------------------------------
(* acquireWebSocket *)

\* Defect: a reused connection is not marked busy.
BusyWith_Unmarked(k) == busy

BusyWith(k) == busy \cup {k}

\* The request is sent and the start event pushed.
Send(s, k) ==
  /\ at' = [at EXCEPT ![s] = "running"]
  /\ socket' = [socket EXCEPT ![s] = k]
  /\ starts' = [starts EXCEPT ![s] = @ + 1]

Asks(s) == <<[of |-> s, type |-> "more"], [of |-> s, type |-> "last"]>>

\* The cached connection is idle and usable.
Reuse(s) ==
  /\ at[s] = "idle"
  /\ Cached # 0 /\ Cached \notin busy /\ Cached \in open
  /\ timer' = timer \ {Cached}
  /\ busy' = BusyWith(Cached)
  /\ mode' = [mode EXCEPT ![s] = "cached"]
  /\ Send(s, Cached)
  /\ owed' = [owed EXCEPT ![Cached] = @ \o Asks(s)]
  /\ UNCHANGED <<got, open, websocketSessionCache>>

\* It is busy, dead or not there.
Connect(s) ==
  /\ at[s] = "idle"
  /\ Cached = 0 \/ Cached \in busy \/ Cached \notin open
  /\ at' = [at EXCEPT ![s] = "connecting"]
  /\ mode' = [mode EXCEPT ![s] = IF Cached # 0 /\ Cached \in busy THEN "own" ELSE "new"]
  /\ timer' = timer \ {Cached}
  /\ websocketSessionCache' = IF Cached \in busy THEN Cached ELSE 0
  /\ UNCHANGED <<socket, starts, got, open, owed, busy>>

\* The connection is open. A new one is cached, in place of what another stream
\* may have cached meanwhile.
Connected(s) ==
  /\ at[s] = "connecting" /\ Len(owed) < MaxSockets
  /\ LET k == Len(owed) + 1 IN
       /\ open' = open \cup {k}
       /\ owed' = Append(owed, Asks(s))
       /\ Send(s, k)
       /\ IF mode[s] = "new" THEN websocketSessionCache' = k /\ busy' = busy \cup {k}
                             ELSE UNCHANGED <<websocketSessionCache, busy>>
  /\ UNCHANGED <<mode, got, timer>>

\* Defect: a stream that has started falls back too.
FallsBack_Always(s) == TRUE

\* With transport "auto" the request goes over SSE unless the WebSocket started.
FallsBack(s) == at[s] # "running"

AfterFailure(s) == starts' = [starts EXCEPT ![s] = IF FallsBack(s) THEN @ + 1 ELSE @]

\* The connection fails, or the stream is aborted while it is made.
ConnectFails(s) ==
  /\ at[s] = "connecting" /\ "fail" \in Happens
  /\ at' = [at EXCEPT ![s] = "over"] /\ AfterFailure(s)
  /\ UNCHANGED <<socket, mode, got, open, owed, websocketSessionCache, busy, timer>>

-----------------------------------------------------------------------------
(* release *)

\* Defect: no timer for a connection that is kept.
KeptTimer_None(k) == timer

KeptTimer(k) == timer \cup {k}

Kept(k) ==
  /\ busy' = busy \ {k} /\ timer' = KeptTimer(k)
  /\ UNCHANGED <<open, websocketSessionCache>>

\* A reused connection leaves the cache empty; a new one only takes itself out of it.
Dropped(s, k) ==
  /\ open' = open \ {k}
  /\ websocketSessionCache' =
       IF mode[s] = "cached" \/ (mode[s] = "new" /\ Cached = k) THEN 0 ELSE Cached
  /\ timer' = IF mode[s] = "new" THEN timer \ {k} ELSE timer
  /\ UNCHANGED busy

Release(s, keep) ==
  /\ at' = [at EXCEPT ![s] = "over"]
  /\ IF keep /\ mode[s] # "own" /\ socket[s] \in open THEN Kept(socket[s])
                                                      ELSE Dropped(s, socket[s])
  /\ UNCHANGED <<socket, mode>>

HasLast(s) == got[s] # <<>> /\ got[s][Len(got[s])].type = "last"

\* The last message has been processed.
Complete(s) ==
  /\ at[s] = "running" /\ HasLast(s)
  /\ Release(s, TRUE) /\ UNCHANGED <<starts, got, owed>>

\* The response failed, the stream is aborted, or the socket closed before the last
\* message (parseWebSocket).
Break(s) ==
  /\ at[s] = "running"
  /\ "fail" \in Happens \/ (socket[s] \notin open /\ ~HasLast(s))
  /\ Release(s, FALSE) /\ AfterFailure(s) /\ UNCHANGED <<got, owed>>

-----------------------------------------------------------------------------
(* The servers, and the timers *)

Listening(k) == {s \in Stream : at[s] = "running" /\ socket[s] = k}

\* A message arrives: every stream that listens to the socket has it.
Message(k) ==
  /\ k \in open /\ owed[k] # <<>>
  /\ owed' = [owed EXCEPT ![k] = Tail(@)]
  /\ got' = [s \in Stream |-> IF s \in Listening(k) THEN Append(got[s], Head(owed[k])) ELSE got[s]]
  /\ UNCHANGED <<at, socket, mode, starts, open, websocketSessionCache, busy, timer>>

ServerCloses(k) ==
  /\ "close" \in Happens /\ k \in open
  /\ open' = open \ {k}
  /\ UNCHANGED <<at, socket, mode, starts, got, owed, websocketSessionCache, busy, timer>>

\* The idle timer closes its own socket and empties the cache, whatever is in it.
Expire(k) ==
  /\ k \in timer /\ timer' = timer \ {k}
  /\ IF k \in busy THEN UNCHANGED <<open, websocketSessionCache>>
                   ELSE open' = open \ {k} /\ websocketSessionCache' = 0
  /\ UNCHANGED <<at, socket, mode, starts, got, owed, busy>>

-----------------------------------------------------------------------------
Step(s) == Reuse(s) \/ Connect(s) \/ Connected(s) \/ ConnectFails(s) \/ Complete(s) \/ Break(s)
Next == \/ \E s \in Stream : Step(s)
        \/ \E k \in 1..MaxSockets : k \in Sockets /\ (Message(k) \/ ServerCloses(k) \/ Expire(k))
Spec == Init /\ [][Next]_vars

\* Connections are made or fail, servers answer or close, streams read what they
\* are sent, and timers fire.
Progress ==
  \/ \E s \in Stream : Connected(s) \/ ConnectFails(s) \/ Complete(s) \/ Break(s)
  \/ \E k \in 1..MaxSockets : k \in Sockets /\ (Message(k) \/ Expire(k))

-----------------------------------------------------------------------------
\* A stream reads its own answer only and starts it once, whichever socket it is
\* given; and an open socket is in use or has a timer that will close it, also when
\* two streams opened one each and the cache holds the later one (acquireWebSocket,
\* release, scheduleSessionWebSocketExpiry).
SocketsServeOneStream ==
  /\ \A s \in Stream : starts[s] <= 1 /\ \A i \in DOMAIN got[s] : got[s][i].of = s
  /\ \A k \in open : Listening(k) # {} \/ k \in timer
===============================================================================
