-------------------------- MODULE GatewaySessions --------------------------
(***************************************************************************)
(* The sessions of the gateway, their processes and those who watch them:   *)
(* packages/gateway/src/session/ and gateway/routes/sessions.ts, ws.ts and  *)
(* session-stream.ts.                                                       *)
(*                                                                          *)
(* What happens in one callback is one action. A process is spawned, ready  *)
(* and announced to the sockets before any other callback, since `ready'    *)
(* resolves in a microtask. The handlers of a socket find what the others   *)
(* left only when hono gives all of them one WSContext, which is external.  *)
(***************************************************************************)
EXTENDS Integers, Sequences, SequencesExt

CONSTANTS
  MaxSessions,    \* sessions created
  MaxViewers,     \* sockets and streams opened
  MaxChunks,      \* chunks of output of a process
  MaxBufferLines, \* #maxBufferLines
  MaxInputs,      \* POST /:id/input requests
  LateBodies,     \* a session may be destroyed before the body of an input came
  OneContext      \* all handlers of a socket get one WSContext

GatewayAssumption ==
  /\ {MaxSessions, MaxViewers, MaxChunks, MaxInputs} \subseteq Nat
  /\ MaxBufferLines \in Nat \ {0} /\ {LateBodies, OneContext} \subseteq BOOLEAN

VARIABLES
  sessions, \* the Session objects, oldest first, each with its process
  viewers,  \* the sockets and streams, oldest first
  inputs    \* requests so far

vars == <<sessions, viewers, inputs>>

Sessions == DOMAIN sessions
Viewers == DOMAIN viewers

\* A Session: whether the manager lists it; its status; whether it has a
\* process, which runs, was killed, has written and of which the pump has read
\* so many chunks, and whether the pump failed; the buffer and the subscribers
\* of the process; its sockets in sessionWebSockets; the inputs whose body has
\* not come.
NewSession(command) ==
  [listed |-> TRUE, status |-> IF command THEN "running" ELSE "starting",
   spawned |-> command, alive |-> command, killed |-> FALSE,
   written |-> 0, read |-> 0, broken |-> FALSE,
   buffer |-> <<>>, subscribers |-> {}, sockets |-> {}, waiting |-> 0]

\* A socket or a stream. `exits' says whether it waits for the end of a process,
\* `unsub' whether its own handlers keep what ends its subscription.
NewViewer(kind, s, state, unsub) ==
  [kind |-> kind, session |-> s, state |-> state, got |-> <<>>, exits |-> FALSE, unsub |-> unsub]

Pumping(session) == ~session.broken /\ session.read < session.written

-----------------------------------------------------------------------------
(* Watching a process.                                                      *)

\* Defect: what was read before is not replayed.
Replay_Live(viewer, buffer) == viewer

Replay(viewer, buffer) == [viewer EXCEPT !.got = @ \o buffer]

\* onOutput and the handler of `exited', which runs at once when the process
\* was reported to have ended before.
Watch(viewer, session) ==
  [Replay(viewer, session.buffer) EXCEPT
     !.exits = TRUE,
     !.state = IF session.status = "stopped" THEN "ending" ELSE @]

OpenSocket(s) ==
  /\ Len(viewers) < MaxViewers
  /\ LET v == Len(viewers) + 1
         session == sessions[s]
         socket == NewViewer("socket", s, "open", session.listed /\ session.spawned)
     IN  \/ /\ ~session.listed
            /\ viewers' = Append(viewers, [socket EXCEPT !.state = "ending"])
            /\ UNCHANGED sessions
         \/ /\ session.listed /\ session.spawned
            /\ viewers' = Append(viewers, Watch(socket, session))
            /\ sessions' = [sessions EXCEPT ![s].sockets = @ \cup {v},
                                            ![s].subscribers = @ \cup {v}]
         \/ /\ session.listed /\ ~session.spawned
            /\ viewers' = Append(viewers, socket)
            /\ sessions' = [sessions EXCEPT ![s].sockets = @ \cup {v}]
  /\ UNCHANGED inputs

\* GET /:id/stream. Without a process it stays open, and nothing more.
OpenStream(s) ==
  /\ Len(viewers) < MaxViewers /\ sessions[s].listed
  /\ LET v == Len(viewers) + 1
         stream == NewViewer("stream", s, "open", TRUE)
     IN  IF sessions[s].spawned
         THEN /\ viewers' = Append(viewers, Watch(stream, sessions[s]))
              /\ sessions' = [sessions EXCEPT ![s].subscribers = @ \cup {v}]
         ELSE viewers' = Append(viewers, stream) /\ UNCHANGED sessions
  /\ UNCHANGED inputs

\* A message that is too large: the gateway closes the socket.
MessageTooLarge(v) ==
  LET session == sessions[viewers[v].session] IN
  /\ viewers[v].kind = "socket" /\ viewers[v].state = "open"
  /\ session.listed /\ session.spawned
  /\ viewers' = [viewers EXCEPT ![v].state = "ending"]
  /\ UNCHANGED <<sessions, inputs>>

\* onClose and onError of a socket, the abort signal of a stream. A WSContext that
\* is not the one of onOpen is in no set, and has no __processUnsub.
Close(v) ==
  LET s == viewers[v].session
      found == IF OneContext THEN {v} ELSE {}
  IN
  /\ viewers[v].state # "closed"
  /\ viewers' = [viewers EXCEPT ![v].state = "closed"]
  /\ sessions' = [sessions EXCEPT
       ![s].sockets = @ \ found,
       ![s].subscribers = @ \ (IF viewers[v].unsub THEN {v} ELSE found)]
  /\ UNCHANGED inputs

-----------------------------------------------------------------------------
(* Sessions.                                                                *)

Create ==
  /\ Len(sessions) < MaxSessions
  /\ \E command \in BOOLEAN : sessions' = Append(sessions, NewSession(command))
  /\ UNCHANGED <<viewers, inputs>>

\* destroy(), of one session or of all.
Destroyed(session) ==
  [session EXCEPT !.listed = FALSE, !.killed = @ \/ (session.listed /\ session.spawned)]
MayDestroy(s) == LateBodies \/ sessions[s].waiting = 0

Destroy(s) ==
  /\ sessions[s].listed /\ MayDestroy(s)
  /\ sessions' = [sessions EXCEPT ![s] = Destroyed(@)]
  /\ UNCHANGED <<viewers, inputs>>

DestroyAll ==
  /\ sessions # <<>> /\ \A s \in Sessions : MayDestroy(s)
  /\ sessions' = [s \in Sessions |-> Destroyed(sessions[s])]
  /\ UNCHANGED <<viewers, inputs>>

\* POST /:id/input finds the session, and awaits the body.
InputArrives(s) ==
  /\ inputs < MaxInputs /\ sessions[s].listed
  /\ inputs' = inputs + 1
  /\ sessions' = [sessions EXCEPT ![s].waiting = @ + 1]
  /\ UNCHANGED viewers

InputRefused(s) ==
  /\ sessions[s].waiting > 0
  /\ sessions' = [sessions EXCEPT ![s].waiting = @ - 1]
  /\ UNCHANGED <<viewers, inputs>>

\* notifyWebSocketsProcessAttached.
Notified(session) ==
  [v \in Viewers |-> IF v \in session.sockets THEN Watch(viewers[v], session) ELSE viewers[v]]

\* The body came: the session gets a process if it has none, and the process
\* the text.
InputBody(s) ==
  /\ sessions[s].waiting > 0
  /\ LET session == [sessions[s] EXCEPT !.waiting = @ - 1] IN
     IF session.spawned
     THEN sessions' = [sessions EXCEPT ![s] = session] /\ UNCHANGED viewers
     ELSE /\ sessions' = [sessions EXCEPT ![s] =
                            [session EXCEPT !.spawned = TRUE, !.alive = TRUE, !.status = "running",
                                            !.subscribers = session.sockets]]
          /\ viewers' = Notified(session)
  /\ UNCHANGED inputs

-----------------------------------------------------------------------------
(* Processes.                                                               *)

Writes(s) ==
  /\ sessions[s].alive /\ sessions[s].written < MaxChunks
  /\ sessions' = [sessions EXCEPT ![s].written = @ + 1]
  /\ UNCHANGED <<viewers, inputs>>

Ends(s) ==
  /\ sessions[s].alive
  /\ sessions' = [sessions EXCEPT ![s].alive = FALSE]
  /\ UNCHANGED <<viewers, inputs>>

\* The buffer keeps the newest chunks.
Buffered(buffer, chunk) ==
  LET longer == Append(buffer, chunk) IN
  IF Len(longer) > MaxBufferLines THEN Tail(longer) ELSE longer

\* One turn of the loop of #pumpStdout. Closed sockets and streams take nothing.
Pump(s) ==
  LET chunk == sessions[s].read + 1 IN
  /\ Pumping(sessions[s])
  /\ sessions' = [sessions EXCEPT ![s].read = chunk, ![s].buffer = Buffered(@, chunk)]
  /\ viewers' = [v \in Viewers |->
       IF v \in sessions[s].subscribers /\ viewers[v].state = "open"
       THEN [viewers[v] EXCEPT !.got = Append(@, chunk)] ELSE viewers[v]]
  /\ UNCHANGED inputs

\* Reading fails: nobody subscribes any more.
PumpFails(s) ==
  /\ sessions[s].alive /\ ~sessions[s].broken
  /\ sessions' = [sessions EXCEPT ![s].broken = TRUE, ![s].subscribers = {}]
  /\ UNCHANGED <<viewers, inputs>>

\* `exited' resolves, which need not wait for the pump: sockets and streams of
\* the process end.
Exited(s) ==
  /\ sessions[s].spawned /\ ~sessions[s].alive /\ sessions[s].status # "stopped"
  /\ sessions' = [sessions EXCEPT ![s].status = "stopped"]
  /\ viewers' = [v \in Viewers |->
       IF viewers[v].session = s /\ viewers[v].exits /\ viewers[v].state = "open"
       THEN [viewers[v] EXCEPT !.state = "ending"] ELSE viewers[v]]
  /\ UNCHANGED inputs

-----------------------------------------------------------------------------
Init == sessions = <<>> /\ viewers = <<>> /\ inputs = 0

Next ==
  \/ Create \/ DestroyAll
  \/ \E s \in Sessions :
       \/ OpenSocket(s) \/ OpenStream(s) \/ Destroy(s)
       \/ InputArrives(s) \/ InputRefused(s) \/ InputBody(s)
       \/ Writes(s) \/ Ends(s) \/ Pump(s) \/ PumpFails(s) \/ Exited(s)
  \/ \E v \in Viewers : MessageTooLarge(v) \/ Close(v)

Spec == Init /\ [][Next]_vars

-----------------------------------------------------------------------------
\* Whether it came before its process or after it, an open socket has the
\* output of the process without a gap or a repetition, from what the buffer
\* still held up to what was read last, and so has a stream opened on a process
\* (onOutput, notifyWebSocketsProcessAttached). None stays open when its process
\* was reported to have ended, none is subscribed when it is closed, and the
\* process of a destroyed session was killed (destroy, onClose, closeOnExit).
IsRun(chunks) == \A i \in 1..(Len(chunks) - 1) : chunks[i + 1] = chunks[i] + 1

UpToDate(viewer, session) ==
  IF session.read = 0 THEN viewer.got = <<>>
  ELSE viewer.got # <<>> /\ Last(viewer.got) = session.read
       /\ (Len(viewer.got) >= MaxBufferLines \/ Head(viewer.got) = 1)

ViewersFollowSessions ==
  /\ \A v \in Viewers :
       LET viewer == viewers[v]
           session == sessions[viewer.session]
           watching == viewer.kind = "socket" \/ viewer.exits
       IN  /\ IsRun(viewer.got)
           /\ viewer.state = "open" /\ watching /\ session.spawned =>
                /\ session.status # "stopped"
                /\ ~session.broken => UpToDate(viewer, session)
           /\ viewer.state = "closed" =>
                \A s \in Sessions : v \notin sessions[s].subscribers \cup sessions[s].sockets
  /\ \A s \in Sessions : ~sessions[s].listed /\ sessions[s].spawned => sessions[s].killed
===============================================================================
