--------------------------- MODULE AgentProperties ---------------------------
(***************************************************************************)
(* What packages/agent has to guarantee, stated over the module Agent.     *)
(***************************************************************************)
EXTENDS Agent

Statuses == {"waiting", "starting", "prepared", "executing", "ok", "error",
             "rejected", "final"}
Sections == {"idle", "poll", "inject", "injected", "request", "stream", "streaming",
             "answered", "tools", "turnEnd", "stopping", "end", "throw", "failed"}

Known == Message \ {NoMessage}

FlagsOK ==
  /\ activeRun \in BOOLEAN /\ aborted \in BOOLEAN
  /\ isStreaming \in BOOLEAN /\ errorMessage \in BOOLEAN
  /\ skipPoll \in BOOLEAN /\ moreCalls \in BOOLEAN
  /\ opened \in BOOLEAN /\ heard \in BOOLEAN
  /\ wiped \in BOOLEAN /\ ended \in BOOLEAN /\ late \in BOOLEAN

DataOK ==
  /\ messages \in Seq(Known) /\ streamingMessage \in Message
  /\ pendingToolCalls \subseteq CallId /\ orphans \subseteq CallId
  /\ steeringQueue \in Seq(Known) /\ followUpQueue \in Seq(Known)
  /\ steeringMode \in Modes /\ followUpMode \in Modes
  /\ pc \in Sections
  /\ context \in Seq(Known) /\ newMessages \in Seq(Known) /\ pending \in Seq(Known)
  /\ notices \in Seq(Event) /\ owed \in Seq(Known)
  /\ exec \in Seq(Statuses) /\ results \in Seq(Known)
  /\ created \in Nat /\ turns \in Nat /\ toolTurns \in Nat /\ runs \in Nat
  /\ base \in Nat /\ delivered \in Seq(Nat) /\ dropped \subseteq Nat

\* The type invariant of the agent and of the loop it runs.  No queue, context
\* or transcript ever holds an undefined message.
TypeOK == FlagsOK /\ DataOK

\* Nothing of a run outlives it: when no run is active the agent reports itself
\* idle, shows no partial message and no pending tool call (finishRun).
IdleIsClean ==
  ~activeRun => /\ ~isStreaming /\ streamingMessage = NoMessage
                /\ pendingToolCalls = {} /\ pending = <<>> /\ owed = <<>>
                /\ exec = <<>>

\* isStreaming is true while a prompt or continuation is processed, until the
\* awaited agent_end listeners settle (types.ts 267-272).
StreamingWhileActive == activeRun => isStreaming

\* The loop keeps its own copy of the transcript: whenever it calls the model,
\* that copy is exactly the transcript the application sees, although the two
\* are extended at different awaits (context.messages in agent-loop.ts against
\* _state.messages in agent.ts).
RequestSeesTranscript == At("request") /\ ~wiped => context = messages

\* What a run has taken of one line and not yet shown: the head of pending is shown
\* before it is removed.
Taken(kind) ==
  LET flight == IF pending # <<>> THEN pending ELSE owed IN
  IF flight = <<>> \/ Head(flight).kind # kind THEN <<>>
  ELSE IF Head(flight).id \in ToSet(delivered) THEN Tail(flight) ELSE flight

\* The abstract mailbox, with the lines read off the agent's state: what a run
\* has taken and not yet shown, then what is still queued.
Ids(s) == [k \in DOMAIN s |-> s[k].id]
MailLine == [prompt   |-> Ids(Taken("prompt")),
             steer    |-> Ids(Taken("steer") \o steeringQueue),
             followUp |-> Ids(Taken("followUp") \o followUpQueue)]
Mail == INSTANCE Mailbox WITH running <- activeRun, line <- MailLine, accepted <- created

\* Every message accepted by prompt(), steer() and followUp() is delivered once
\* and in the order of its line, or given up by a clear, a reset or a failing
\* run, whatever the loop is doing when it arrives.
ImplementsMailbox == Mail!Spec

\* How the two copies relate at every await of a run: the messages still to be
\* emitted make up the difference, except while a pending message, a partial
\* answer or the results of a turn are in one copy only.
CopiesAgree ==
  activeRun /\ ~wiped =>
    /\ pc \in {"poll", "inject", "request", "stream", "answered", "turnEnd", "stopping"}
         => context = messages \o owed
    /\ pc = "injected" => /\ pending # <<>>
                          /\ Append(context, Head(pending)) = messages \o owed
    /\ pc = "streaming" => /\ owed = <<>> /\ context # <<>>
                           /\ Front(context) = messages
    /\ pc = "tools" => context \o results = messages \o owed

\* What a section finds when the run resumes with it.
Resumable ==
  /\ pc = "injected" => pending # <<>>
  /\ pc \in {"streaming", "answered", "tools"} => context # <<>>

\* What is left of a run's work when it ends.
RunPhases ==
  /\ activeRun <=> pc # "idle"
  /\ exec # <<>> => pc \in {"tools", "throw"}
  /\ results # <<>> => pc \in {"tools", "throw"}
  /\ ~activeRun => notices = <<>> /\ ~heard

\* The messages reported with agent_end are exactly what the run added to the
\* transcript, in the same order (newMessages in agent-loop.ts).
RunReportsItsMessages ==
  At("end") /\ ~wiped => messages = SubSeq(messages, 1, base) \o newMessages

\* Before the model is called again every tool call of its last answer has
\* exactly one result, and the results follow the answer immediately.
CallsAnsweredBeforeRequest ==
  At("request") =>
    \A k \in DOMAIN newMessages :
      LET m == newMessages[k]
          after == (k + 1)..(k + m.calls) IN
      m.role = "assistant" /\ m.calls > 0 =>
        /\ after \subseteq DOMAIN newMessages
        /\ {<<newMessages[j].role, newMessages[j].id, newMessages[j].calls>> : j \in after}
             = {<<"toolResult", m.id, i>> : i \in 1..m.calls}

\* pendingToolCalls shows the calls that have started and have no outcome yet.
PendingCallsTrackExecution ==
  activeRun /\ notices = <<>> /\ ~wiped /\ pc \notin {"throw", "failed"} =>
    pendingToolCalls =
      {<<turns, i>> : i \in {j \in DOMAIN exec : exec[j] \notin {"waiting", "final"}}}

Queued == IdsOf(steeringQueue) \cup IdsOf(followUpQueue)

\* A queued message is in one place at a time: waiting in its queue, on its way
\* into the run, delivered to the transcript once, or dropped by a clear, a
\* reset or a failed run.  None is lost and none is delivered twice.
EachMessageInOnePlace ==
  /\ Queued \cup InFlight \cup ToSet(delivered) \cup dropped = 1..created
  /\ Len(delivered) = Cardinality(ToSet(delivered))
  /\ Queued \cap (InFlight \cup ToSet(delivered) \cup dropped) = {}
  /\ dropped \cap (InFlight \cup ToSet(delivered)) = {}

\* agent_end is the last event emitted for a run (types.ts 323, README.md 127).
AgentEndIsLast == ~late

\* The results of a turn are emitted in assistant source order (types.ts 33).
ResultsInSourceOrder ==
  \A j, k \in DOMAIN results : j < k => results[j].calls < results[k].calls

\* Every run settles: waitForIdle() and prompt() resolve.
RunsSettle == activeRun ~> ~activeRun

\* A steering message accepted while a run is active reaches the transcript
\* "after the current assistant turn finishes" (agent.ts 248), unless dropped.
SteeringIsInjected ==
  \A n \in 1..MaxUser :
    (activeRun /\ n \in IdsOf(steeringQueue)) ~> (n \in ToSet(delivered) \cup dropped)
===============================================================================
