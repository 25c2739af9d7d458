----------------------------- MODULE AgentSession -----------------------------
(***************************************************************************)
(* A session around an agent, and the terminal's input loop in front of it: *)
(* packages/coding-agent/src/core/agent-session.ts with the submission of   *)
(* text of modes/interactive/interactive-mode.ts.                           *)
(*                                                                          *)
(* The session listens to the agent, and handles what it heard later, one   *)
(* event after the other (_agentEventQueue): it writes messages to the      *)
(* session file, keeps a copy of the queues for display, retries failed     *)
(* answers after a pause and compacts a context that has grown. The pause   *)
(* and the compaction are awaited by the handler of an event, so the events *)
(* after it wait as well. Prompts, aborts, bash results, navigation and the *)
(* timers that continue the agent come whenever the user or the event loop  *)
(* has them come.                                                           *)
(*                                                                          *)
(* The agent here is what Agent.tla has in full, reduced to what a session  *)
(* sees: a run shows messages, answers, executes tools, polls the queues    *)
(* one message at a time and ends.                                          *)
(***************************************************************************)
EXTENDS Integers, Sequences, FiniteSets, SequencesExt

CONSTANTS
  Client,         \* "interactive", or "rpc": no queue for texts during compaction
  Lag,            \* extension handlers may suspend the handling of an event
  Uses,           \* what the user, tools and extensions do besides submitting text
  Outcomes,       \* how an answer may end besides "stop"
  RunFailures,    \* a request may reject (hooks, credentials)
  MaxTexts,       \* texts submitted
  MaxAnswers,     \* answers that may end other than "stop"
  MaxRetries,     \* settings: retry.maxRetries
  MaxCompactions, \* automatic compactions
  MaxActs         \* bash results, custom messages, manual compactions, navigations

ASSUME SessionAssumption ==
  /\ Client \in {"interactive", "rpc"} /\ Lag \in BOOLEAN /\ RunFailures \in BOOLEAN
  /\ Outcomes \subseteq {"toolUse", "error", "overflow"}
  /\ {MaxTexts, MaxAnswers, MaxRetries, MaxCompactions, MaxActs} \subseteq Nat

Text == 1..MaxTexts

VARIABLES
  agent,   \* the Agent: run, signal, transcript and queues
  session, \* the AgentSession and its entries
  ui       \* the input loop and its queue

vars == <<agent, session, ui>>
World == [agent |-> agent, session |-> session, ui |-> ui]
\* The next state is the world w, bound so that it is evaluated once.
Becomes(w) == \E v \in {w} : agent' = v.agent /\ session' = v.session /\ ui' = v.ui

-----------------------------------------------------------------------------
(* Messages and entries. An entry of the current path is the message it     *)
(* holds; a compaction entry names the first position it kept.              *)

Msg(role, id, stop) == [role |-> role, id |-> id, stop |-> stop]
User(t, via) == Msg("user", t, via)
Answer(stop) == Msg("assistant", 0, stop)
ToolResult == Msg("toolResult", 0, "")
BashResult == Msg("bash", 0, "")
Custom == Msg("custom", 0, "")
BranchSummary == Msg("branchSummary", 0, "")
Compaction(first) == Msg("compaction", first, "")

IsAnswer(m) == m.role = "assistant"
Failed(m) == m.role = "assistant" /\ m.stop \in {"error", "overflow", "fatal"}

LastCompaction(entries) == SelectLastInSeq(entries, LAMBDA m : m.role = "compaction")

WithoutCompactions(entries) ==
  LET kept[i \in 0..Len(entries)] ==
        IF i = 0 THEN <<>>
        ELSE IF entries[i].role # "compaction" THEN Append(kept[i - 1], entries[i])
        ELSE kept[i - 1]
  IN  kept[Len(entries)]

\* buildSessionContext of the current path.
Context(entries) ==
  LET c == LastCompaction(entries) IN
  IF c = 0 THEN entries
  ELSE <<entries[c]>> \o WithoutCompactions(SubSeq(entries, entries[c].id, c - 1)
                                               \o SubSeq(entries, c + 1, Len(entries)))

\* prepareCompaction: nothing to do right after a compaction; otherwise a cut
\* at no tool result and at no compaction, not before what was kept last.
CutPoints(entries) ==
  LET c == LastCompaction(entries)
      start == IF c = 0 THEN 1 ELSE entries[c].id
  IN  IF entries = <<>> \/ Last(entries).role = "compaction" THEN {}
      ELSE {i \in start..Len(entries) : entries[i].role \notin {"compaction", "toolResult"}}
Cut(entries) == IF CutPoints(entries) = {} THEN {0} ELSE CutPoints(entries)

\* Whether the last answer is younger than the last compaction.
FreshAnswer(s) ==
  LET known == s.entries \o s.events IN
  SelectLastInSeq(known, IsAnswer) > LastCompaction(known)

\* The failed answer at the end of the transcript is taken out of it.
TrimAnswer(messages) ==
  IF messages # <<>> /\ IsAnswer(Last(messages)) THEN Front(messages) ELSE messages

-----------------------------------------------------------------------------
(* The compactions under way. Automatic ones share one controller field.    *)

Events == 0  \* the handler of agent_end, where a text stands for its prompt
Nobody == -1
Running(w) == w.session.compactions
Sleeping(w) == w.session.backoff # "none"
\* The handler of an event awaits a pause or a compaction.
Blocked(w) == Sleeping(w) \/ \E c \in Running(w) : c.runner = Events

isCompacting(w) ==
  \/ w.session.controller # Nobody
  \/ w.session.manual \in {"summary", "aborted"}
  \/ w.session.tree # "none"

isStreaming(w) == w.agent.run # "idle"

-----------------------------------------------------------------------------
(* Calls into the agent, and what it lets the session hear.                 *)

\* Messages are added to the transcript; message_start and message_end of each follow.
ShowAll(w, ms) ==
  [w EXCEPT !.agent.messages = @ \o ms,
            !.session.events = IF w.session.connected THEN @ \o ms ELSE @]
Show(w, m) == ShowAll(w, <<m>>)

\* A poll of a queue: its first message is shown.
PollSteering(w) ==
  IF w.agent.steering = <<>> THEN w
  ELSE Show([w EXCEPT !.agent.steering = Tail(@)], Head(w.agent.steering))
PollFollowUps(w) ==
  IF w.agent.followUp = <<>> THEN w
  ELSE Show([w EXCEPT !.agent.followUp = Tail(@)], Head(w.agent.followUp))

\* runWithLifecycle and the start of the loop.
StartRun(w, messages) ==
  PollSteering(ShowAll([w EXCEPT !.agent.run = "request", !.agent.aborted = FALSE], messages))

AgentEnd == Msg("agent_end", 0, "")

\* Calls that return: the input loop asks for the next text.
Return(w, calls) ==
  [w EXCEPT !.session.calls = [t \in Text |-> IF t \in calls THEN "none" ELSE @[t]],
            !.ui.loop = IF @ \in calls THEN 0 ELSE @]
CallsAt(w, pc) == {t \in Text : w.session.calls[t] = pc}

\* Synchronously, when agent_end is heard.
createRetryPromiseForAgentEnd(w, last) ==
  IF last = "error" THEN [w EXCEPT !.session.retryPromise = TRUE] ELSE w

\* agent_end, and finishRun; then prompt() resumes, and waits for a retry if
\* one is promised.
EndRun(w, last) ==
  LET heard == IF w.session.connected
               THEN createRetryPromiseForAgentEnd(
                      [w EXCEPT !.session.events = Append(@, AgentEnd)], last)
               ELSE w
      ended == Return([heard EXCEPT !.agent.run = "idle"], CallsAt(w, "settling"))
      running == CallsAt(w, "running")
  IN  IF ended.session.retryPromise
      THEN [ended EXCEPT !.session.calls =
              [t \in Text |-> IF t \in running THEN "retrying" ELSE @[t]]]
      ELSE Return(ended, running)

\* resolveRetry: whoever waits goes on to wait for an idle agent.
resolveRetry(w) ==
  LET waiting == CallsAt(w, "retrying")
      resolved == [w EXCEPT !.session.retryPromise = FALSE]
  IN  IF isStreaming(w)
      THEN [resolved EXCEPT !.session.calls =
              [t \in Text |-> IF t \in waiting THEN "settling" ELSE @[t]]]
      ELSE Return(resolved, waiting)

\* abortRetry.
abortRetry(w) ==
  resolveRetry([w EXCEPT !.session.backoff = IF @ = "sleeping" THEN "aborted" ELSE @])

-----------------------------------------------------------------------------
(* Queueing, and the session's copy of the queues.                          *)

queueSteer(w, t) ==
  [w EXCEPT !.session.steering = Append(@, t),
            !.agent.steering = Append(@, User(t, "steer"))]
queueFollowUp(w, t) ==
  [w EXCEPT !.session.followUp = Append(@, t),
            !.agent.followUp = Append(@, User(t, "followUp"))]
Queue(w, q) ==
  IF q.mode = "followUp" THEN queueFollowUp(w, q.text) ELSE queueSteer(w, q.text)
QueueAll(w, qs) ==
  LET queued[i \in 0..Len(qs)] == IF i = 0 THEN w ELSE Queue(queued[i - 1], qs[i])
  IN  queued[Len(qs)]

\* Defect: the agent keeps what the session shows as cleared.
clearQueue_CopyOnly(w) ==
  [w EXCEPT !.session.steering = <<>>, !.session.followUp = <<>>]

clearQueue(w) ==
  [w EXCEPT !.session.steering = <<>>, !.session.followUp = <<>>,
            !.agent.steering = <<>>, !.agent.followUp = <<>>]

-----------------------------------------------------------------------------
(* Compaction. compaction_end makes the interface send the texts it kept:   *)
(* synchronously, before the compaction's own code goes on (`Hear'). A      *)
(* check knows whether the context is over the threshold and where it may   *)
(* be cut; `later' is the check of a prompt sent from inside another.       *)

NoCheck == [should |-> FALSE, first |-> 0]

\* runAutoCompaction up to its wait for the summary, or to its compaction_end
\* when it finds nothing to do.
runAutoCompaction(w, runner, reason, first) ==
  LET started == [w EXCEPT !.session.controller = runner] IN
  IF first = 0 THEN started
  ELSE [started EXCEPT !.session.compactions = @ \cup
         {[runner |-> runner, reason |-> reason, first |-> first, aborted |-> FALSE]}]

\* The controller goes after compaction_end was heard.
CompactHearing(w, runner, reason, first, Hear(_)) ==
  LET begun == runAutoCompaction(w, runner, reason, first) IN
  IF first = 0 THEN [Hear(begun) EXCEPT !.session.controller = Nobody] ELSE begun

\* Defect: an overflow is recovered from whenever it is seen.
RecoversOverflow_Always(w) == TRUE

\* One compaction and retry for an overflow, until something else was heard.
RecoversOverflow(w) == ~w.session.overflowRecoveryAttempted

\* checkCompaction and prompt, what hears their compaction_end left open.
CheckHearing(w, stop, runner, check, Hear(_)) ==
  IF (runner = Events /\ stop = "aborted") \/ ~FreshAnswer(w.session) THEN w
  ELSE IF stop = "overflow"
  THEN IF ~RecoversOverflow(w) THEN Hear(w)
       ELSE CompactHearing([w EXCEPT !.session.overflowRecoveryAttempted = TRUE,
                                     !.agent.messages = TrimAnswer(@)],
                           runner, "overflow", check.first, Hear)
  ELSE IF check.should THEN CompactHearing(w, runner, "threshold", check.first, Hear)
  ELSE w

\* Results of commands go where messages go.
AddNow(w, ms) ==
  [w EXCEPT !.agent.messages = @ \o ms, !.session.entries = @ \o ms]

\* Defect: the agent sees the results, the file does not.
flushPendingBashMessages_Unsaved(w) ==
  [w EXCEPT !.agent.messages = @ \o w.session.pendingBash, !.session.pendingBash = <<>>]

\* flushPendingBashMessages.
flushPendingBashMessages(w) ==
  [AddNow(w, w.session.pendingBash) EXCEPT !.session.pendingBash = <<>>]

\* prompt() of an idle agent, up to its first wait. That the check in front of a
\* prompt finds something to compact is one of the Uses.
PromptHearing(w, t, check, Hear(_)) ==
  LET flushed == flushPendingBashMessages(w)
      last == SelectLastInSeq(flushed.agent.messages, IsAnswer)
      checked == IF last = 0 \/ "precheck" \notin Uses THEN flushed
                 ELSE CheckHearing(flushed, flushed.agent.messages[last].stop, t, check, Hear)
      waits == \E c \in Running(checked) : c.runner = t
  IN  [checked EXCEPT !.session.calls[t] = IF waits THEN "compacting" ELSE "starting"]

\* flushCompactionQueue: for a retry all texts are queued; otherwise the first
\* is prompted and the others are queued behind it. A compaction that ends inside
\* that prompt finds no text to send.
flushCompactionQueue(w, willRetry, check) ==
  LET queued == w.ui.queued
      emptied == [w EXCEPT !.ui.queued = <<>>]
  IN  IF queued = <<>> THEN w
      ELSE IF willRetry THEN QueueAll(emptied, queued)
      ELSE QueueAll(PromptHearing([emptied EXCEPT !.ui.flushed = queued],
                                  Head(queued).text, check, LAMBDA v : v),
                    Tail(queued))

\* As they are called, with the interface to hear of it.
checkCompaction(w, stop, runner, check, later) ==
  CheckHearing(w, stop, runner, check, LAMBDA v : flushCompactionQueue(v, FALSE, later))
prompt(w, t, check) ==
  PromptHearing(w, t, check, LAMBDA v : flushCompactionQueue(v, FALSE, NoCheck))

\* agent.continue() is called 100 ms, or a moment, later.
ContinueLater(w) == [w EXCEPT !.session.timers = @ + 1]

\* Everything of a finished compaction but the removal of its controller.
Compacted(w, c) ==
  LET entries == Append(w.session.entries, Compaction(c.first))
      saved == [w EXCEPT !.session.entries = entries, !.agent.messages = Context(entries)]
      willRetry == c.reason = "overflow"
      sent == flushCompactionQueue(saved, willRetry, NoCheck)
      ms == sent.agent.messages
  IN  IF willRetry
      THEN ContinueLater(IF ms # <<>> /\ Failed(Last(ms))
                         THEN [sent EXCEPT !.agent.messages = Front(@)] ELSE sent)
      ELSE IF sent.agent.steering # <<>> \/ sent.agent.followUp # <<>>
      THEN ContinueLater(sent) ELSE sent

\* The compaction is over; the prompt that awaited it goes on.
Finished(w, c) ==
  LET over == [w EXCEPT !.session.compactions = @ \ {c}, !.session.controller = Nobody] IN
  IF c.runner = Events THEN over ELSE [over EXCEPT !.session.calls[c.runner] = "starting"]

-----------------------------------------------------------------------------
(* What the environment of the session may do when.                         *)

\* Handlers that do not suspend run before any other callback of the event
\* loop, and so does the code behind an aborted pause.
Settled ==
  /\ session.backoff # "aborted"
  /\ \/ Lag
     \/ /\ session.events = <<>> \/ Blocked(World)
        /\ CallsAt(World, "starting") = {}
        /\ ~(session.manual = "waiting" /\ agent.run = "idle")

\* Users, providers and tools are slower than a timer, unless they are "early".
Quiet == Settled /\ ("early" \in Uses \/ session.timers = 0)

AtRest ==
  /\ agent.run = "idle" /\ session.events = <<>> /\ ~Blocked(World) /\ session.timers = 0
  /\ ~isCompacting(World) /\ session.manual = "none" /\ \A t \in Text : session.calls[t] = "none"

\* Manual compaction and navigation: when nothing goes on, unless they come "midrun".
MayDisturb == Quiet /\ ("midrun" \in Uses \/ AtRest)

\* No run is started while the session still handles the end of the last one,
\* unless they may "overlap".
MayOverlap == "overlap" \in Uses \/ (~Sleeping(World) /\ session.compactions = {})

Acts(use) == use \in Uses /\ Quiet /\ ui.acts < MaxActs
Acted(w) == [w EXCEPT !.ui.acts = @ + 1]

\* Whether the context may have grown over the threshold.
Growth ==
  IF Cardinality({i \in DOMAIN session.entries : session.entries[i].role = "compaction"})
       + Cardinality(session.compactions) < MaxCompactions
  THEN BOOLEAN ELSE {FALSE}
\* A check finds where to cut: in the path as it is, or behind the results that a
\* prompt puts there first.
EventChecks == [should : Growth, first : Cut(session.entries)]
Checks == [should : Growth, first : Cut(flushPendingBashMessages(World).session.entries)]

-----------------------------------------------------------------------------
(* Submitting text, and the prompts that result.                            *)

Submit ==
  /\ Quiet
  /\ ui.submitted < MaxTexts
  /\ \E mode \in {"steer"} \cup (Uses \cap {"followUp"}), check \in Checks :
       LET t == ui.submitted + 1
           w == [World EXCEPT !.ui.submitted = t]
       IN  \/ /\ Client = "interactive" /\ isCompacting(w)
              /\ Becomes([w EXCEPT !.ui.queued = Append(@, [text |-> t, mode |-> mode])])
           \/ /\ ~(Client = "interactive" /\ isCompacting(w)) /\ isStreaming(w)
              /\ Becomes(Queue(w, [text |-> t, mode |-> mode]))
           \/ /\ Client = "interactive" /\ ~isCompacting(w) /\ ~isStreaming(w) /\ ui.loop = 0
              /\ MayOverlap
              /\ Becomes(prompt([w EXCEPT !.ui.loop = t], t, check))
           \* The loop awaits an earlier prompt: nobody takes the text.
           \/ /\ Client = "interactive" /\ ~isCompacting(w) /\ ~isStreaming(w) /\ ui.loop # 0
              /\ Becomes(w)
           \/ /\ Client = "rpc" /\ ~isStreaming(w) /\ MayOverlap
              /\ Becomes(prompt(w, t, check))

\* prompt() behind its waits: agent.prompt, which throws during a run; what
\* flushCompactionQueue had sent goes back to its queue.
StartPrompt(t) ==
  /\ session.calls[t] = "starting" /\ session.backoff # "aborted"
  /\ IF agent.run = "idle"
     THEN Becomes(StartRun([World EXCEPT !.session.calls[t] = "running"], <<User(t, "prompt")>>))
     ELSE LET thrown == Return(World, {t}) IN
          Becomes(IF ui.flushed # <<>> /\ Head(ui.flushed).text = t
                  THEN [clearQueue(thrown) EXCEPT !.ui.queued = ui.flushed] ELSE thrown)

-----------------------------------------------------------------------------
(* The agent's run.                                                         *)

AgentAnswers ==
  /\ Quiet
  /\ agent.run = "request"
  /\ \E stop \in IF agent.aborted THEN {"aborted"}
                 ELSE {"stop"} \cup (IF agent.answers < MaxAnswers THEN Outcomes ELSE {}) :
       LET shown == [Show(World, Answer(stop)) EXCEPT
                       !.agent.answers = IF stop \in Outcomes THEN @ + 1 ELSE @]
       IN  Becomes(
             CASE stop = "toolUse" -> [shown EXCEPT !.agent.run = "tools"]
               [] stop \in {"error", "overflow", "aborted"} -> EndRun(shown, stop)
               [] stop = "stop" ->
                    IF agent.steering # <<>> THEN PollSteering(shown)
                    ELSE IF agent.followUp # <<>> THEN PollFollowUps(shown)
                    ELSE EndRun(shown, stop))

ToolsFinish ==
  /\ Quiet
  /\ agent.run = "tools"
  /\ Becomes(PollSteering([Show(World, ToolResult) EXCEPT !.agent.run = "request"]))

\* handleRunFailure: the failure is in the transcript and in agent_end, and no
\* message_end announces it.
RunFails ==
  /\ Quiet
  /\ RunFailures /\ agent.run = "request" /\ agent.answers < MaxAnswers
  /\ \E stop \in IF agent.aborted THEN {"fatal"} ELSE {"error", "fatal"} :
       Becomes(EndRun([World EXCEPT !.agent.messages = Append(@, Answer(stop)),
                                    !.agent.answers = @ + 1], stop))

\* continue() from a timer; its rejections are caught and dropped.
ContinueFires ==
  /\ Settled
  /\ session.timers > 0
  /\ LET w == [World EXCEPT !.session.timers = @ - 1]
         ms == agent.messages
     IN  Becomes(
           IF agent.run # "idle" \/ ms = <<>> THEN w
           ELSE IF ~IsAnswer(Last(ms)) THEN StartRun(w, <<>>)
           ELSE IF agent.steering # <<>>
           THEN PollSteering([w EXCEPT !.agent.run = "request", !.agent.aborted = FALSE])
           ELSE IF agent.followUp # <<>>
           THEN StartRun([w EXCEPT !.agent.followUp = Tail(@)], <<Head(agent.followUp)>>)
           ELSE w)

-----------------------------------------------------------------------------
(* The handling of events, one after the other.                             *)

\* Defect: every text that starts is taken for a steering text.
Delivered_Steering(s, t) == [s EXCEPT !.steering = RemoveFirst(@, t)]

\* The copy of the queues loses a text that was delivered.
Delivered(s, t) ==
  IF t \in ToSet(s.steering) THEN [s EXCEPT !.steering = RemoveFirst(@, t)]
  ELSE [s EXCEPT !.followUp = RemoveFirst(@, t)]

\* message_start and message_end of a message.
HandleMessage ==
  /\ session.events # <<>> /\ ~Blocked(World) /\ Head(session.events) # AgentEnd
  /\ LET m == Head(session.events)
         s == [session EXCEPT !.events = Tail(@), !.entries = Append(@, m)]
     IN  session' =
           CASE m.role = "user" ->
                  Delivered([s EXCEPT !.overflowRecoveryAttempted = FALSE], m.id)
             [] IsAnswer(m) /\ Failed(m) -> [s EXCEPT !.lastAssistant = m.stop]
             [] IsAnswer(m) /\ ~Failed(m) ->
                  [s EXCEPT !.lastAssistant = m.stop, !.retryAttempt = 0,
                            !.overflowRecoveryAttempted = FALSE]
             [] OTHER -> s
  /\ UNCHANGED <<agent, ui>>

\* Defect: the pause begins with the failed answer still in the transcript.
handleRetryableError_Untrimmed(w) ==
  [w EXCEPT !.session.retryAttempt = @ + 1, !.session.retryPromise = TRUE,
            !.session.backoff = "sleeping"]

\* handleRetryableError up to its pause.
handleRetryableError(w) ==
  [w EXCEPT !.session.retryAttempt = @ + 1, !.session.retryPromise = TRUE,
            !.agent.messages = TrimAnswer(@), !.session.backoff = "sleeping"]

\* Defect: the first attempt is not counted.
MayRetry_OneMore(w) == w.session.retryAttempt <= MaxRetries

MayRetry(w) == w.session.retryAttempt < MaxRetries

HandleAgentEnd ==
  /\ session.events # <<>> /\ ~Blocked(World) /\ Head(session.events) = AgentEnd
  /\ \E check \in EventChecks, later \in Checks :
       LET last == session.lastAssistant
           w == [World EXCEPT !.session.events = Tail(@), !.session.lastAssistant = "none"]
       IN  Becomes(
             IF last = "none" THEN w
             ELSE IF last = "error" /\ MayRetry(World)
             THEN handleRetryableError(w)
             ELSE checkCompaction(
                    resolveRetry(IF last = "error" THEN [w EXCEPT !.session.retryAttempt = 0] ELSE w),
                    last, Events, check, later))

BackoffElapses ==
  /\ Quiet
  /\ session.backoff = "sleeping"
  /\ Becomes(ContinueLater([World EXCEPT !.session.backoff = "none"]))

\* The pause was aborted: no retry, and the check that follows a last failure.
BackoffAborted ==
  /\ session.backoff = "aborted"
  /\ \E check \in EventChecks, later \in Checks :
       LET w == [World EXCEPT !.session.backoff = "none", !.session.retryAttempt = 0] IN
       Becomes(checkCompaction(resolveRetry(w), "error", Events, check, later))

-----------------------------------------------------------------------------
(* The end of an automatic compaction.                                      *)

\* The controller a compaction finds is whoever's set it last; none is a
\* TypeError, which is reported like any failure.
MayFinish(c) ==
  /\ session.controller # Nobody
  /\ \A d \in session.compactions : d.runner = session.controller => ~d.aborted

CompactionSucceeds(c) ==
  /\ Quiet
  /\ ~c.aborted /\ MayFinish(c)
  /\ Becomes(Finished(Compacted(World, c), c))

CompactionFails(c) ==
  /\ Quiet
  /\ \E check \in Checks : Becomes(Finished(flushCompactionQueue(World, FALSE, check), c))

-----------------------------------------------------------------------------
(* Aborts.                                                                  *)

\* restoreQueuedMessagesToEditor.
Restored(w) ==
  [clearQueue(w) EXCEPT
     !.ui.queued = <<>>,
     !.ui.editor = @ \cup ToSet(w.session.steering) \cup ToSet(w.session.followUp)
                     \cup {w.ui.queued[i].text : i \in DOMAIN w.ui.queued}]

Dequeue ==
  /\ Quiet
  /\ "dequeue" \in Uses
  /\ Restored(World) # World
  /\ Becomes(Restored(World))

EscapeRun ==
  /\ Quiet
  /\ "abort" \in Uses /\ agent.run # "idle" /\ ~agent.aborted
  /\ Becomes([Restored(World) EXCEPT !.agent.aborted = TRUE])

EscapeRetry ==
  /\ Quiet
  /\ "abort" \in Uses /\ session.backoff = "sleeping"
  /\ Becomes(abortRetry(World))

\* abortCompaction.
EscapeCompaction ==
  /\ Quiet
  /\ "abort" \in Uses /\ isCompacting(World)
  /\ Becomes([World EXCEPT
       !.session.compactions =
         {IF c.runner = session.controller THEN [c EXCEPT !.aborted = TRUE] ELSE c : c \in @},
       !.session.manual = IF @ = "summary" THEN "aborted" ELSE @])

\* abort(), of extensions and remote clients.
Abort ==
  /\ Quiet
  /\ "stop" \in Uses
  /\ \/ agent.run # "idle" /\ ~agent.aborted
     \/ session.retryPromise \/ session.backoff = "sleeping"
  /\ Becomes([abortRetry(World) EXCEPT !.agent.aborted = agent.run # "idle"])

-----------------------------------------------------------------------------
(* Results of commands and messages of extensions.                          *)

\* Defect: a result enters at once, whatever the agent does.
recordBashResult_Now(w) == AddNow(w, <<BashResult>>)

recordBashResult(w) ==
  IF isStreaming(w) THEN [w EXCEPT !.session.pendingBash = Append(@, BashResult)]
  ELSE AddNow(w, <<BashResult>>)

BashEnds ==
  /\ Acts("bash")
  /\ Becomes(Acted(recordBashResult(World)))

\* sendCustomMessage without and with triggerTurn.
SendCustomMessage ==
  /\ Acts("custom")
  /\ \E triggerTurn \in IF MayOverlap THEN BOOLEAN ELSE {FALSE} :
       Becomes(Acted(
         IF isStreaming(World) THEN [World EXCEPT !.agent.steering = Append(@, Custom)]
         ELSE IF triggerTurn THEN StartRun(World, <<Custom>>)
         ELSE AddNow(World, <<Custom>>)))

-----------------------------------------------------------------------------
(* Manual compaction: the session stops listening, aborts what runs, and    *)
(* listens again when it is through.                                        *)

Compact ==
  /\ Acts("compact") /\ MayDisturb /\ session.manual = "none"
  /\ Becomes(Acted([abortRetry(World) EXCEPT
       !.session.connected = FALSE, !.session.manual = "waiting",
       !.agent.aborted = agent.run # "idle"]))

ManualEnds(w, check) ==
  [flushCompactionQueue(w, FALSE, check) EXCEPT
     !.session.manual = "none", !.session.cut = 0, !.session.connected = TRUE]

CompactPrepares ==
  /\ session.manual = "waiting" /\ agent.run = "idle" /\ session.backoff # "aborted"
  /\ \E first \in Cut(session.entries), check \in Checks :
       Becomes(IF first = 0 THEN ManualEnds(World, check)
               ELSE [World EXCEPT !.session.manual = "summary", !.session.cut = first])

CompactSucceeds ==
  /\ Quiet
  /\ session.manual = "summary"
  /\ LET entries == Append(session.entries, Compaction(session.cut)) IN
     Becomes(ManualEnds([World EXCEPT !.session.entries = entries,
                                      !.agent.messages = Context(entries)], NoCheck))

CompactFails ==
  /\ Quiet
  /\ session.manual \in {"summary", "aborted"}
  /\ \E check \in Checks : Becomes(ManualEnds(World, check))

-----------------------------------------------------------------------------
(* Navigation along the path; other branches look the same from here.       *)

\* The path that ends at an entry, or in front of it when it is a user's.
Targets ==
  {n \in DOMAIN session.entries : session.entries[n].role \notin {"user", "custom"}}
    \cup {n - 1 : n \in {k \in DOMAIN session.entries : session.entries[k].role \in {"user", "custom"}}}

MoveTo(w, path) == [w EXCEPT !.session.entries = path, !.agent.messages = Context(path)]

Navigate ==
  /\ Acts("tree") /\ MayDisturb /\ session.tree # "summary"
  /\ \E n \in Targets \ {Len(session.entries)} :
       \/ Becomes(Acted([MoveTo(World, SubSeq(session.entries, 1, n)) EXCEPT !.session.tree = "none"]))
       \/ Becomes(Acted([World EXCEPT !.session.tree = "summary", !.session.branch = n]))

NavigateSucceeds ==
  /\ Quiet
  /\ session.tree = "summary"
  /\ Becomes([MoveTo(World, Append(SubSeq(session.entries, 1, session.branch), BranchSummary))
                EXCEPT !.session.tree = "none", !.session.branch = 0])

NavigateAborts ==
  /\ Quiet
  /\ session.tree = "summary"
  /\ Becomes([World EXCEPT !.session.tree = "none", !.session.branch = 0])

\* A hook cancels: the controller of the summary stays behind.
NavigateCancelled ==
  /\ Quiet
  /\ "cancel" \in Uses /\ session.tree = "summary"
  /\ Becomes([World EXCEPT !.session.tree = "left", !.session.branch = 0])

-----------------------------------------------------------------------------
Init ==
  /\ agent = [run |-> "idle", aborted |-> FALSE, messages |-> <<>>,
              steering |-> <<>>, followUp |-> <<>>, answers |-> 0]
  /\ session = [entries |-> <<>>, events |-> <<>>, connected |-> TRUE,
                steering |-> <<>>, followUp |-> <<>>, lastAssistant |-> "none",
                overflowRecoveryAttempted |-> FALSE,
                retryAttempt |-> 0, retryPromise |-> FALSE, backoff |-> "none",
                timers |-> 0, calls |-> [t \in Text |-> "none"], pendingBash |-> <<>>,
                compactions |-> {}, controller |-> Nobody,
                manual |-> "none", cut |-> 0, tree |-> "none", branch |-> 0]
  /\ ui = [loop |-> 0, submitted |-> 0, queued |-> <<>>, flushed |-> <<>>,
           editor |-> {}, acts |-> 0]

\* What goes on by itself.
Progress ==
  \/ \E t \in Text : StartPrompt(t)
  \/ AgentAnswers \/ ToolsFinish \/ RunFails \/ ContinueFires
  \/ HandleMessage \/ HandleAgentEnd \/ BackoffElapses \/ BackoffAborted
  \/ \E c \in session.compactions : CompactionSucceeds(c)
  \/ \E c \in session.compactions : CompactionFails(c)
  \/ CompactPrepares \/ CompactSucceeds \/ CompactFails
  \/ NavigateSucceeds \/ NavigateAborts \/ NavigateCancelled

Next ==
  \/ Progress
  \/ Submit \/ Dequeue \/ EscapeRun \/ EscapeRetry \/ EscapeCompaction \/ Abort
  \/ BashEnds \/ SendCustomMessage \/ Compact \/ Navigate

Spec == Init /\ [][Next]_vars

\* Requests are answered, tools and summaries end, timers fire, handlers run.
FairSpec == Spec /\ WF_vars(Progress)
===============================================================================
