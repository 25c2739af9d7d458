-------------------------------- MODULE Agent --------------------------------
(***************************************************************************)
(* The stateful agent of packages/agent: the class Agent (agent.ts) and    *)
(* the turn loop it runs (agent-loop.ts).                                  *)
(*                                                                         *)
(* JavaScript runs one synchronous section at a time; everything else      *)
(* happens at an await.  An action is the code between two awaits.  pc     *)
(* names the section of runLoop that the run resumes with; notices and     *)
(* owed hold the events it still has to emit before that, one await each.  *)
(* The application (steer, followUp, abort, reset, ...) and the tools in   *)
(* execution take their steps between any two of them.                     *)
(***************************************************************************)
EXTENDS AgentTypes, SequencesExt

CONSTANTS
  ToolExecution,  \* "sequential" or "parallel": options.toolExecution
  Modes,          \* the queue modes the application may select
  Faults,         \* who may throw: "listener", "hook", "request"
  AppCalls,       \* the optional calls the application makes, see below
  ResetWhileActive, \* whether reset() may be called during a run
  MaxUser,        \* bound: user messages ever created
  MaxPrompt,      \* bound: messages of one prompt([...]) call
  MaxCalls,       \* bound: tool calls of one assistant message
  MaxToolTurns,   \* bound: assistant messages that carry tool calls
  MaxRuns         \* bound: runs started

AppCallNames == {"abort", "clear", "reset", "mode", "trim", "followUp", "steer"}

ASSUME AgentAssumption ==
  /\ ToolExecution \in {"sequential", "parallel"}
  /\ Modes \subseteq QueueMode /\ Modes # {}
  /\ Faults \subseteq {"listener", "hook", "request"}
  /\ AppCalls \subseteq AppCallNames
  /\ ResetWhileActive \in BOOLEAN
  /\ {MaxUser, MaxPrompt, MaxCalls, MaxToolTurns, MaxRuns} \subseteq Nat

VARIABLES
  \* Agent: the active run and its abort signal
  activeRun, aborted,
  \* Agent._state
  messages, isStreaming, streamingMessage, pendingToolCalls, errorMessage,
  \* the two PendingMessageQueues
  steeringQueue, followUpQueue, steeringMode, followUpMode,
  \* the locals of runLoop
  pc, context, newMessages, pending, skipPoll, moreCalls,
  \* the events the current section still emits: first notices, then for each
  \* message of owed its message_start (opened) and message_end; heard is set
  \* while the listeners of the last emitted event are awaited
  notices, owed, opened, heard,
  \* the calls of the current turn: one status each, and the results in the
  \* order they were pushed; orphans still execute although their run failed
  exec, results, orphans,
  \* counters for the bounds, and fresh identities
  created, turns, toolTurns, runs,
  \* history: what a run started from, what happened to queued messages, and
  \* which events came after an agent_end
  base, wiped, delivered, dropped, ended, late

runVars    == <<activeRun, aborted>>
queueVars  == <<steeringQueue, followUpQueue>>
modeVars   == <<steeringMode, followUpMode>>
emitVars   == <<notices, owed, opened, heard>>
callVars   == <<exec, results, orphans>>
countVars  == <<created, turns, toolTurns, runs>>
endVars    == <<ended, late>>
fateVars   == <<delivered, dropped>>
stateVars  == <<messages, isStreaming, streamingMessage, pendingToolCalls,
                errorMessage>>
localVars  == <<context, newMessages, pending, skipPoll, moreCalls>>
vars == <<runVars, stateVars, queueVars, modeVars, pc, localVars, emitVars,
          callVars, countVars, base, wiped, fateVars, endVars>>

-------------------------------------------------------------------------------
(* Vocabulary *)

IdsOf(s) == {s[k].id : k \in DOMAIN s}

\* Messages taken from a queue or a prompt whose message_end is still to come.
InFlight ==
  {n \in {m.id : m \in {x \in ToSet(owed) \cup ToSet(pending) : x.role = "user"}} :
     \A k \in DOMAIN delivered : delivered[k] # n}

\* The run is about to resume at section p: every event of the section before
\* it was emitted.
At(p) == pc = p /\ notices = <<>> /\ owed = <<>>

\* A section that emits nothing before its next await.
Quiet == heard' = FALSE /\ UNCHANGED <<notices, owed, opened>>

\* A section that goes on to emit the events es and the messages ms.
Announce(es, ms) ==
  /\ notices' = es /\ owed' = ms
  /\ opened' = FALSE /\ heard' = FALSE

FirstOpenCall(i) ==
  /\ i \in DOMAIN exec /\ exec[i] # "final"
  /\ \A j \in 1..(i - 1) : exec[j] = "final"
Executing == {<<turns, i>> : i \in {j \in DOMAIN exec : exec[j] = "executing"}}

-------------------------------------------------------------------------------
Init ==
  /\ activeRun = FALSE /\ aborted = FALSE
  /\ messages = <<>> /\ isStreaming = FALSE /\ streamingMessage = NoMessage
  /\ pendingToolCalls = {} /\ errorMessage = FALSE
  /\ steeringQueue = <<>> /\ followUpQueue = <<>>
  /\ steeringMode \in Modes /\ followUpMode \in Modes
  /\ pc = "idle" /\ context = <<>> /\ newMessages = <<>> /\ pending = <<>>
  /\ skipPoll = FALSE /\ moreCalls = FALSE
  /\ notices = <<>> /\ owed = <<>> /\ opened = FALSE /\ heard = FALSE
  /\ exec = <<>> /\ results = <<>> /\ orphans = {}
  /\ created = 0 /\ turns = 0 /\ toolTurns = 0 /\ runs = 0
  /\ base = 0 /\ wiped = FALSE
  /\ delivered = <<>> /\ dropped = {}
  /\ ended = FALSE /\ late = FALSE

-------------------------------------------------------------------------------
(* The application's calls *)

\* Defect: the prompts are not counted among the new messages.
Reported_None(prompts) == <<>>
\* newMessages of a run that has just started.
Reported(prompts) == prompts

\* runWithLifecycle (434-457) up to the first await of runAgentLoop (95-109):
\* the snapshot of the transcript is taken and the prompts are added to it.
StartRun(prompts, skip) ==
  /\ ~activeRun
  /\ runs < MaxRuns /\ runs' = runs + 1
  /\ activeRun' = TRUE /\ aborted' = FALSE
  /\ isStreaming' = TRUE /\ streamingMessage' = NoMessage /\ errorMessage' = FALSE
  /\ context' = messages \o prompts /\ newMessages' = Reported(prompts)
  /\ pending' = <<>> /\ skipPoll' = skip /\ moreCalls' = FALSE
  /\ Announce(<<Notice("agent_start"), Notice("turn_start")>>, prompts)
  /\ pc' = "poll"
  /\ base' = Len(messages) /\ wiped' = FALSE /\ ended' = FALSE
  /\ UNCHANGED <<messages, pendingToolCalls, modeVars, callVars, turns,
                 toolTurns, fateVars, late>>

Prompt ==
  \E n \in 1..MaxPrompt :
    /\ created + n <= MaxUser /\ created' = created + n
    /\ StartRun([k \in 1..n |-> User("prompt", created + k)], FALSE)
    /\ UNCHANGED queueVars

\* continue() from a user or tool-result message: runContinuation.
ContinueTranscript ==
  /\ messages # <<>> /\ Last(messages).role # "assistant"
  /\ StartRun(<<>>, FALSE)
  /\ UNCHANGED <<created, queueVars>>

\* continue() from an assistant message: the queues provide the prompts, or
\* it throws and changes nothing.
ContinueQueued ==
  /\ messages # <<>> /\ Last(messages).role = "assistant"
  /\ \/ /\ steeringQueue # <<>>
        /\ steeringQueue' = AfterDrain(steeringMode, steeringQueue)
        /\ StartRun(Drained(steeringMode, steeringQueue), TRUE)
        /\ UNCHANGED followUpQueue
     \/ /\ steeringQueue = <<>> /\ followUpQueue # <<>>
        /\ followUpQueue' = AfterDrain(followUpMode, followUpQueue)
        /\ StartRun(Drained(followUpMode, followUpQueue), FALSE)
        /\ UNCHANGED steeringQueue
  /\ UNCHANGED created

\* What no application call other than a new run touches.
AppFrame == UNCHANGED <<activeRun, pc, localVars, emitVars, callVars, turns,
                        toolTurns, runs, base, delivered, endVars>>

Steer ==
  /\ "steer" \in AppCalls /\ created < MaxUser /\ created' = created + 1
  /\ steeringQueue' = Append(steeringQueue, User("steer", created + 1))
  /\ AppFrame
  /\ UNCHANGED <<aborted, stateVars, followUpQueue, modeVars, wiped, dropped>>

FollowUp ==
  /\ "followUp" \in AppCalls /\ created < MaxUser /\ created' = created + 1
  /\ followUpQueue' = Append(followUpQueue, User("followUp", created + 1))
  /\ AppFrame
  /\ UNCHANGED <<aborted, stateVars, steeringQueue, modeVars, wiped, dropped>>

ClearSteeringQueue ==
  /\ "clear" \in AppCalls /\ steeringQueue # <<>>
  /\ steeringQueue' = <<>> /\ dropped' = dropped \cup IdsOf(steeringQueue)
  /\ AppFrame
  /\ UNCHANGED <<aborted, stateVars, followUpQueue, modeVars, created, wiped>>

ClearFollowUpQueue ==
  /\ "clear" \in AppCalls /\ followUpQueue # <<>>
  /\ followUpQueue' = <<>> /\ dropped' = dropped \cup IdsOf(followUpQueue)
  /\ AppFrame
  /\ UNCHANGED <<aborted, stateVars, steeringQueue, modeVars, created, wiped>>

SetSteeringMode ==
  /\ "mode" \in AppCalls /\ steeringMode' \in Modes \ {steeringMode}
  /\ AppFrame
  /\ UNCHANGED <<aborted, stateVars, queueVars, followUpMode, created, wiped, dropped>>

SetFollowUpMode ==
  /\ "mode" \in AppCalls /\ followUpMode' \in Modes \ {followUpMode}
  /\ AppFrame
  /\ UNCHANGED <<aborted, stateVars, queueVars, steeringMode, created, wiped, dropped>>

Abort ==
  /\ "abort" \in AppCalls /\ activeRun /\ ~aborted
  /\ aborted' = TRUE
  /\ AppFrame
  /\ UNCHANGED <<stateVars, queueVars, modeVars, created, wiped, dropped>>

\* reset() looks at nothing; AgentSession only calls it once the agent is idle.
Reset ==
  /\ "reset" \in AppCalls /\ (activeRun => ResetWhileActive)
  /\ messages' = <<>> /\ isStreaming' = FALSE /\ streamingMessage' = NoMessage
  /\ pendingToolCalls' = {} /\ errorMessage' = FALSE
  /\ steeringQueue' = <<>> /\ followUpQueue' = <<>>
  /\ dropped' = dropped \cup IdsOf(steeringQueue) \cup IdsOf(followUpQueue)
  /\ wiped' = activeRun
  /\ AppFrame
  /\ UNCHANGED <<aborted, modeVars, created>>

\* state.messages = messages.slice(0, -1): what AgentSession does with a failed
\* answer before it retries with continue() (agent-session.ts 2443-2447).
TrimFailedAnswer ==
  /\ "trim" \in AppCalls /\ ~activeRun
  /\ messages # <<>> /\ Failed(Last(messages))
  /\ messages' = Front(messages)
  /\ AppFrame
  /\ UNCHANGED <<aborted, isStreaming, streamingMessage, pendingToolCalls,
                 errorMessage, queueVars, modeVars, created, wiped, dropped>>

Application ==
  \/ Prompt \/ ContinueTranscript \/ ContinueQueued
  \/ Steer \/ FollowUp \/ ClearSteeringQueue \/ ClearFollowUpQueue
  \/ SetSteeringMode \/ SetFollowUpMode \/ Abort \/ Reset \/ TrimFailedAnswer

-------------------------------------------------------------------------------
(* Emitting: processEvents (agent.ts 491-538) reduces the event into the    *)
(* state and then awaits the listeners.                                     *)

\* What a section of the loop never touches.
LoopFrame == UNCHANGED <<activeRun, aborted, modeVars, created, runs, base, wiped>>

\* Defect: a finished call stays pending.
PendingAfter_Stuck(e) ==
  IF e.type = "tool_execution_start" THEN pendingToolCalls \cup {e.call}
  ELSE pendingToolCalls
PendingAfter(e) ==
  CASE e.type = "tool_execution_start" -> pendingToolCalls \cup {e.call}
    [] e.type = "tool_execution_end"   -> pendingToolCalls \ {e.call}
    [] OTHER                           -> pendingToolCalls

\* The switch of processEvents for the events that carry no message.
Reduce(e) ==
  /\ pendingToolCalls' = PendingAfter(e)
  /\ errorMessage' = (errorMessage \/ (e.type = "turn_end" /\ e.failed))
  /\ streamingMessage' = IF e.type = "agent_end" THEN NoMessage ELSE streamingMessage
  /\ UNCHANGED isStreaming

EmitNotice ==
  /\ notices # <<>>
  /\ Reduce(Head(notices))
  /\ late' = (late \/ ended)
  /\ ended' = (ended \/ Head(notices).type = "agent_end")
  /\ notices' = Tail(notices) /\ heard' = TRUE
  /\ LoopFrame
  /\ UNCHANGED <<messages, queueVars, pc, localVars, owed, opened,
                 callVars, turns, toolTurns, fateVars>>

EmitMessageStart ==
  /\ notices = <<>> /\ owed # <<>> /\ ~opened
  /\ opened' = TRUE /\ heard' = TRUE
  /\ streamingMessage' = Head(owed)
  /\ late' = (late \/ ended)
  /\ LoopFrame
  /\ UNCHANGED <<messages, isStreaming, pendingToolCalls, errorMessage, queueVars,
                 pc, localVars, notices, owed, callVars, turns, toolTurns,
                 fateVars, ended>>

EmitMessageEnd ==
  /\ notices = <<>> /\ owed # <<>> /\ opened
  /\ opened' = FALSE /\ heard' = TRUE
  /\ owed' = Tail(owed)
  /\ streamingMessage' = NoMessage
  /\ messages' = Append(messages, Head(owed))
  /\ delivered' = IF Head(owed).role = "user"
                  THEN Append(delivered, Head(owed).id) ELSE delivered
  /\ late' = (late \/ ended)
  /\ LoopFrame
  /\ UNCHANGED <<isStreaming, pendingToolCalls, errorMessage, queueVars, pc,
                 localVars, notices, callVars, turns, toolTurns, dropped, ended>>

\* A rejection unwinds runLoop to the catch of runWithLifecycle: what was still
\* to be emitted or injected is gone.
Throw ==
  /\ pc' = "throw"
  /\ Announce(<<>>, <<>>)
  /\ dropped' = dropped \cup InFlight
  /\ pending' = <<>>
  /\ LoopFrame
  /\ UNCHANGED <<stateVars, queueVars, context, newMessages, skipPoll, moreCalls, callVars,
                 turns, toolTurns, delivered, endVars>>

ListenerThrows ==
  /\ "listener" \in Faults /\ heard /\ pc # "failed"
  /\ Throw

\* A listener of the agent_end that reports a failure throws: prompt() rejects,
\* but finishRun still runs (finally, 454-456).
FailureListenerThrows ==
  /\ "listener" \in Faults /\ heard /\ pc = "failed"
  /\ heard' = FALSE
  /\ LoopFrame
  /\ UNCHANGED <<stateVars, queueVars, pc, localVars, notices, owed, opened,
                 callVars, turns, toolTurns, fateVars, endVars>>

-------------------------------------------------------------------------------
(* Queued messages enter the run (agent-loop.ts 165-188 and 214-229). *)

Inject == /\ pc' = "inject" /\ Announce(<<Notice("turn_start")>>, <<>>)

\* The poll before the first turn, whose turn_start is already out.
PollAtStart ==
  /\ At("poll")
  /\ IF skipPoll
     THEN pending' = <<>> /\ UNCHANGED steeringQueue
     ELSE /\ pending' = Drained(steeringMode, steeringQueue)
          /\ steeringQueue' = AfterDrain(steeringMode, steeringQueue)
  /\ skipPoll' = FALSE
  /\ pc' = "inject" /\ Quiet
  /\ LoopFrame
  /\ UNCHANGED <<stateVars, followUpQueue, context, newMessages, moreCalls, callVars,
                 turns, toolTurns, fateVars, endVars>>

\* message_start and message_end of the next pending message.
EmitPending ==
  /\ At("inject") /\ pending # <<>>
  /\ Announce(<<>>, <<Head(pending)>>)
  /\ pc' = "injected"
  /\ LoopFrame
  /\ UNCHANGED <<stateVars, queueVars, localVars, callVars, turns, toolTurns,
                 fateVars, endVars>>

\* Defect: the message is reported but not added to the context.
InjectPending_NotInContext ==
  /\ At("injected")
  /\ newMessages' = Append(newMessages, Head(pending))
  /\ pending' = Tail(pending)
  /\ pc' = "inject" /\ Quiet
  /\ LoopFrame
  /\ UNCHANGED <<stateVars, queueVars, context, skipPoll, moreCalls, callVars,
                 turns, toolTurns, fateVars, endVars>>
InjectPending ==
  /\ At("injected")
  /\ context' = Append(context, Head(pending))
  /\ newMessages' = Append(newMessages, Head(pending))
  /\ pending' = Tail(pending)
  /\ pc' = "inject" /\ Quiet
  /\ LoopFrame
  /\ UNCHANGED <<stateVars, queueVars, skipPoll, moreCalls, callVars, turns, toolTurns,
                 fateVars, endVars>>

AllInjected ==
  /\ At("inject") /\ pending = <<>>
  /\ pc' = "request" /\ Quiet
  /\ LoopFrame
  /\ UNCHANGED <<stateVars, queueVars, localVars, callVars, turns, toolTurns,
                 fateVars, endVars>>

\* The inner loop goes on while there were tool calls or messages arrived.
KeepGoing(arrived) == moreCalls \/ arrived # <<>>

PollAfterTurn ==
  /\ At("turnEnd")
  /\ pending' = Drained(steeringMode, steeringQueue)
  /\ steeringQueue' = AfterDrain(steeringMode, steeringQueue)
  /\ IF KeepGoing(pending')
     THEN Inject
     ELSE pc' = "stopping" /\ Quiet
  /\ skipPoll' = FALSE
  /\ LoopFrame
  /\ UNCHANGED <<stateVars, followUpQueue, context, newMessages, moreCalls, callVars,
                 turns, toolTurns, fateVars, endVars>>

PollBeforeStop ==
  /\ At("stopping")
  /\ pending' = Drained(followUpMode, followUpQueue)
  /\ followUpQueue' = AfterDrain(followUpMode, followUpQueue)
  /\ IF followUpQueue # <<>>
     THEN Inject
     ELSE pc' = "end" /\ Announce(<<Notice("agent_end")>>, <<>>)
  /\ LoopFrame
  /\ UNCHANGED <<stateVars, steeringQueue, context, newMessages, skipPoll, moreCalls, callVars,
                 turns, toolTurns, fateVars, endVars>>

-------------------------------------------------------------------------------
(* streamAssistantResponse (238-331).  The provider is external: it streams *)
(* at most one start and one delta before the final message.                *)

\* transformContext, convertToLlm, getApiKey and streamFn return.
Request ==
  /\ At("request")
  /\ pc' = "stream" /\ Quiet
  /\ LoopFrame
  /\ UNCHANGED <<stateVars, queueVars, localVars, callVars, turns, toolTurns,
                 fateVars, endVars>>

RequestThrows ==
  /\ "request" \in Faults /\ At("request")
  /\ Throw

\* A partial message is put into the context and shown to the listeners.
Partial(m) ==
  /\ streamingMessage' = m /\ heard' = TRUE
  /\ late' = (late \/ ended)
  /\ LoopFrame
  /\ UNCHANGED <<messages, isStreaming, pendingToolCalls, errorMessage, queueVars,
                 newMessages, pending, skipPoll, moreCalls, notices, owed, opened, callVars,
                 turns, toolTurns, fateVars, ended>>

StreamStart ==
  /\ At("stream")
  /\ LET m == Assistant("start", turns + 1, 0) IN
       context' = Append(context, m) /\ Partial(m)
  /\ pc' = "streaming"

StreamUpdate ==
  /\ At("streaming") /\ Last(context).kind = "start"
  /\ LET m == Assistant("delta", turns + 1, 0) IN
       context' = Append(Front(context), m) /\ Partial(m)
  /\ UNCHANGED pc

\* What the provider may answer: an aborted signal makes it fail.
Answers ==
  {Assistant(kind, turns + 1, n) :
     kind \in IF aborted THEN {"aborted", "error"} ELSE {"stop", "error"},
     n \in IF toolTurns < MaxToolTurns THEN 0..MaxCalls ELSE {0}}

StreamFinal ==
  /\ pc \in {"stream", "streaming"} /\ At(pc)
  /\ \E m \in Answers :
       /\ context' = Append(IF pc = "streaming" THEN Front(context) ELSE context, m)
       /\ owed' = <<m>> /\ opened' = (pc = "streaming")
       /\ toolTurns' = toolTurns + (IF m.calls > 0 THEN 1 ELSE 0)
  /\ turns' = turns + 1
  /\ pc' = "answered" /\ heard' = FALSE
  /\ LoopFrame
  /\ UNCHANGED <<stateVars, queueVars, newMessages, pending, skipPoll, moreCalls, notices,
                 callVars, fateVars, endVars>>

\* newMessages.push(message) and the branch on it (191-205).
TakeAnswer ==
  /\ At("answered")
  /\ newMessages' = Append(newMessages, Last(context))
  /\ IF Failed(Last(context))
     THEN /\ pc' = "end"
          /\ Announce(<<TurnEnd(Last(context)), Notice("agent_end")>>, <<>>)
          /\ UNCHANGED <<exec, moreCalls>>
     ELSE /\ pc' = "tools" /\ Quiet
          /\ exec' = [i \in 1..Last(context).calls |-> "waiting"]
          /\ moreCalls' = (Last(context).calls > 0)
  /\ LoopFrame
  /\ UNCHANGED <<stateVars, queueVars, context, pending, skipPoll, results, orphans, turns,
                 toolTurns, fateVars, endVars>>

-------------------------------------------------------------------------------
(* Tool execution (336-631). *)

ToolFrame ==
  /\ LoopFrame
  /\ UNCHANGED <<stateVars, queueVars, localVars, orphans, turns, toolTurns,
                 fateVars, endVars>>

\* A call is started in sequential mode when the calls before it are final, in
\* parallel mode when they are prepared.
MayPrecede(status) ==
  status = "final" \/ (status = "prepared" /\ ToolExecution = "parallel")

\* tool_execution_start of the next call.
StartCall(i) ==
  /\ At("tools") /\ i \in DOMAIN exec /\ exec[i] = "waiting"
  /\ \A j \in 1..(i - 1) : MayPrecede(exec[j])
  /\ exec' = [exec EXCEPT ![i] = "starting"]
  /\ Announce(<<ToolNotice("tool_execution_start", <<turns, i>>)>>, <<>>)
  /\ UNCHANGED <<pc, results>> /\ ToolFrame

\* emitToolCallOutcome (604-631); the result joins the results.
Outcome(i, ok) ==
  LET m == ToolResult(turns, i, ok) IN
    /\ exec' = [exec EXCEPT ![i] = "final"]
    /\ results' = Append(results, m)
    /\ Announce(<<ToolNotice("tool_execution_end", <<turns, i>>)>>, <<m>>)
    /\ UNCHANGED pc /\ ToolFrame

\* prepareToolCall: the tool is unknown, its arguments are refused, or
\* beforeToolCall blocks it or throws: an error result at once.
RefuseCall(i) ==
  /\ At("tools") /\ i \in DOMAIN exec /\ exec[i] = "starting"
  /\ Outcome(i, FALSE)

PrepareCall(i) ==
  /\ At("tools") /\ i \in DOMAIN exec /\ exec[i] = "starting"
  /\ exec' = [exec EXCEPT ![i] =
                IF ToolExecution = "parallel" THEN "prepared" ELSE "executing"]
  /\ Quiet /\ UNCHANGED <<pc, results>> /\ ToolFrame

\* runnableCalls.map(executePreparedToolCall) (417-420).
LaunchCalls ==
  /\ At("tools")
  /\ \A i \in DOMAIN exec : exec[i] \in {"prepared", "final"}
  /\ \E i \in DOMAIN exec : exec[i] = "prepared"
  /\ exec' = [i \in DOMAIN exec |->
                IF exec[i] = "prepared" THEN "executing" ELSE exec[i]]
  /\ Quiet /\ UNCHANGED <<pc, results>> /\ ToolFrame

\* A tool settles, whatever the loop is doing; the execution is rejected when
\* a listener of one of its updates threw (550-553).
ToolSettles(i) ==
  /\ i \in DOMAIN exec /\ exec[i] = "executing"
  /\ \E s \in {"ok", "error"} \cup (IF "listener" \in Faults THEN {"rejected"} ELSE {}) :
       exec' = [exec EXCEPT ![i] = s]
  /\ UNCHANGED <<pc, emitVars, results>> /\ ToolFrame

\* finalizeExecutedToolCall of the first call whose execution was awaited.
Finalize(i) ==
  /\ At("tools") /\ FirstOpenCall(i) /\ exec[i] \in {"ok", "error"}
  /\ Outcome(i, exec[i] = "ok")

ExecutionThrows(i) ==
  /\ At("tools") /\ FirstOpenCall(i)
  /\ \/ exec[i] = "rejected"
     \/ "hook" \in Faults /\ exec[i] \in {"ok", "error"}    \* afterToolCall
  /\ Throw

\* Defect: executions are launched but not awaited.
Awaited_Launched(status) == status \notin {"waiting", "starting", "prepared"}
\* A call the loop has dealt with.
Awaited(status) == status = "final"

\* The results enter the context together, in the order they were pushed.  An
\* execution not awaited by then would go on by itself.
EndTurn ==
  /\ At("tools") /\ \A i \in DOMAIN exec : Awaited(exec[i])
  /\ context' = context \o results /\ newMessages' = newMessages \o results
  /\ exec' = <<>> /\ results' = <<>> /\ orphans' = orphans \cup Executing
  /\ pc' = "turnEnd"
  /\ Announce(<<TurnEnd(Last(context))>>, <<>>)
  /\ LoopFrame
  /\ UNCHANGED <<stateVars, queueVars, pending, skipPoll, moreCalls, turns, toolTurns,
                 fateVars, endVars>>

\* tool_execution_update: not reduced, and delivered to the listeners of
\* whatever run is active (531-537); with no active run emit() throws instead.
ToolUpdate(c) ==
  /\ c \in Executing \cup orphans
  /\ late' = (late \/ (activeRun /\ (ended \/ c \in orphans)))
  /\ UNCHANGED <<runVars, stateVars, queueVars, modeVars, pc, localVars, emitVars,
                 callVars, countVars, base, wiped, fateVars, ended>>

\* An execution nobody awaits any more comes to its end.
OrphanSettles(c) ==
  /\ c \in orphans /\ orphans' = orphans \ {c}
  /\ UNCHANGED <<runVars, stateVars, queueVars, modeVars, pc, localVars, emitVars,
                 exec, results, countVars, base, wiped, fateVars, endVars>>

-------------------------------------------------------------------------------
(* The end of a run (agent.ts 450-482). *)

\* handleRunFailure: the failure message goes to the transcript, not through
\* message events; executions in progress are left to themselves.
HandleRunFailure ==
  /\ pc = "throw"
  /\ messages' = Append(messages,
       Assistant(IF aborted THEN "aborted" ELSE "error", 0, 0))
  /\ errorMessage' = TRUE
  /\ orphans' = orphans \cup Executing /\ exec' = <<>> /\ results' = <<>>
  /\ newMessages' = <<Last(messages')>>
  /\ Announce(<<Notice("agent_end")>>, <<>>)
  /\ pc' = "failed"
  /\ LoopFrame
  /\ UNCHANGED <<isStreaming, streamingMessage, pendingToolCalls, queueVars, context,
                 pending, skipPoll, moreCalls, turns, toolTurns, fateVars, endVars>>

\* Defect: no finally, the run is only finished when it did not throw.
RunOver_NoFinally == At("end")
RunOver == At("end") \/ At("failed")

\* Defect: the pending tool calls are not reset.
RuntimeStateReset_CallsKept ==
  /\ isStreaming' = FALSE /\ streamingMessage' = NoMessage
  /\ UNCHANGED pendingToolCalls
RuntimeStateReset ==
  isStreaming' = FALSE /\ streamingMessage' = NoMessage /\ pendingToolCalls' = {}

FinishRun ==
  /\ RunOver
  /\ RuntimeStateReset
  /\ activeRun' = FALSE /\ aborted' = FALSE
  /\ pc' = "idle" /\ Quiet
  /\ context' = <<>> /\ newMessages' = <<>> /\ pending' = <<>> /\ skipPoll' = FALSE
  /\ moreCalls' = FALSE
  /\ UNCHANGED <<messages, errorMessage, queueVars, modeVars, callVars, countVars,
                 base, wiped, fateVars, endVars>>

-------------------------------------------------------------------------------
CallIndices == 1..MaxCalls

Emit == EmitNotice \/ EmitMessageStart \/ EmitMessageEnd

QueueSteps ==
  \/ PollAtStart \/ EmitPending \/ InjectPending \/ AllInjected
  \/ PollAfterTurn \/ PollBeforeStop

CallSteps(i) == StartCall(i) \/ RefuseCall(i) \/ PrepareCall(i) \/ Finalize(i)
TurnSteps ==
  \/ Request \/ TakeAnswer
  \/ \E i \in CallIndices : CallSteps(i)
  \/ LaunchCalls \/ EndTurn

RunEnds == HandleRunFailure \/ FinishRun

Inner == QueueSteps \/ TurnSteps \/ RunEnds

Throws ==
  \/ ListenerThrows \/ FailureListenerThrows \/ RequestThrows
  \/ \E i \in CallIndices : ExecutionThrows(i)

Provider == StreamStart \/ StreamUpdate \/ StreamFinal

Tools ==
  \/ \E i \in CallIndices : ToolSettles(i)
  \/ \E c \in orphans : OrphanSettles(c)
  \/ \E c \in Executing \cup orphans : ToolUpdate(c)

Next == Application \/ Emit \/ Inner \/ Throws \/ Provider \/ Tools

Spec == Init /\ [][Next]_vars

\* The event loop resumes a section whose await settled, the provider ends its
\* stream and a tool its execution.  Nothing makes the application call.
Fairness ==
  /\ WF_vars(Emit \/ Inner)
  /\ WF_vars(\E i \in CallIndices : ExecutionThrows(i))
  /\ WF_vars(StreamFinal)
  /\ \A i \in CallIndices : WF_vars(ToolSettles(i))
  /\ WF_vars(\E c \in orphans : OrphanSettles(c))

FairSpec == Spec /\ Fairness
===============================================================================
