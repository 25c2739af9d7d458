------------------------ MODULE AgentSessionProperties ------------------------
(* What a session around an agent has to keep, stated over AgentSession.     *)
EXTENDS AgentSession

\* How an answer stopped, or which way a text of the user came.
Stops ==
  {"", "stop", "toolUse", "error", "overflow", "aborted", "fatal",
   "steer", "followUp", "prompt"}
Messages ==
  [role : {"user", "assistant", "toolResult", "bash", "custom", "branchSummary",
           "compaction", "agent_end"},
   id : Nat, stop : Stops]

\* Every field of agent-session.ts and of the input loop keeps its type, a
\* retry counter never exceeds its setting, and one summary at a time runs for
\* a prompt.
TypeOK ==
  /\ agent.run \in {"idle", "request", "tools"} /\ agent.aborted \in BOOLEAN
  /\ {agent.messages, agent.steering, agent.followUp, session.entries,
      session.events, session.pendingBash} \subseteq Seq(Messages)
  /\ {session.steering, session.followUp} \subseteq Seq(Text)
  /\ session.retryAttempt \in 0..MaxRetries /\ session.retryPromise \in BOOLEAN
  /\ session.backoff \in {"none", "sleeping", "aborted"} /\ session.timers \in Nat
  /\ session.calls \in
       [Text -> {"none", "compacting", "starting", "running", "retrying", "settling"}]
  /\ session.compactions \subseteq
       [runner : {Events} \cup Text, reason : {"threshold", "overflow"},
        first : Nat \ {0}, aborted : BOOLEAN]
  /\ \A c, d \in session.compactions : c.runner = d.runner => c = d
  /\ session.controller \in {Nobody, Events} \cup Text
  /\ session.manual \in {"none", "waiting", "summary", "aborted"}
  /\ session.tree \in {"none", "summary", "left"}
  /\ ui.loop \in {0} \cup Text /\ ui.submitted \in 0..MaxTexts /\ ui.editor \subseteq Text

Lasting(messages) == SelectSeq(messages, LAMBDA m : ~Failed(m) /\ m.role # "bash")
BashResults(messages) == Cardinality({i \in DOMAIN messages : messages[i].role = "bash"})

\* With nothing under way, the transcript the agent sends with its next request
\* is the context of the session file, failed answers aside: what is resumed
\* later is what is talked about now (the appends of _processAgentEvent, the
\* trims before a retry, _runAutoCompaction, compact, navigateTree and
\* _flushPendingBashMessages keep them together).
TranscriptIsContext ==
  AtRest =>
    LET context == Context(session.entries) IN
    /\ Lasting(agent.messages) = Lasting(context)
    /\ BashResults(agent.messages) = BashResults(context)

TextsOf(messages) ==
  LET users == SelectSeq(messages, LAMBDA m : m.role = "user") IN
  [i \in DOMAIN users |-> users[i].id]
QueuedBy(via, messages) ==
  TextsOf(SelectSeq(messages, LAMBDA m : m.role = "user" /\ m.stop = via))

\* The copies of the queues that the interface shows hold the texts that wait,
\* in order, and besides them only texts whose start the agent has announced
\* and the session has yet to hear (queueing, delivery and clearQueue change the
\* agent and the copy in different steps).
Mirrors(copy, via, queue) ==
  /\ IsSuffix(TextsOf(queue), copy)
  /\ IsSuffix(copy, QueuedBy(via, session.events) \o TextsOf(queue))
MirrorsFollowQueues ==
  session.connected =>
    /\ Mirrors(session.steering, "steer", agent.steering)
    /\ Mirrors(session.followUp, "followUp", agent.followUp)

\* A call and its result are neighbours on the path and in the transcript:
\* providers refuse anything between them (recordBashResult defers results of
\* commands, cut points are no tool results).
ResultFollowsCall(messages) ==
  \A i \in DOMAIN messages :
    messages[i].role = "toolResult" =>
      i > 1 /\ messages[i - 1].role = "assistant" /\ messages[i - 1].stop = "toolUse"
ToolResultsFollowCalls ==
  ResultFollowsCall(Context(session.entries)) /\ ResultFollowsCall(agent.messages)

\* No more than MaxRetries retries follow a failed answer, however prompts,
\* aborts and compactions fall between them (_retryAttempt).
RetryIsBounded ==
  LET e == session.entries IN
  \A i \in DOMAIN e : i + MaxRetries + 1 <= Len(e) =>
    \E j \in i..(i + MaxRetries + 1) : ~(IsAnswer(e[j]) /\ e[j].stop = "error")

\* After an overflow the context is compacted once: the retry that overflows as
\* well is not followed by another compaction until a text or an answer was
\* heard (_overflowRecoveryAttempted). A context that cannot shrink would loop.
OverflowRecoveredOnce ==
  LET e == session.entries
      recovered(i) == e[i].stop = "overflow" /\ e[i + 1].role = "compaction"
  IN  \A i \in DOMAIN e : i + 3 <= Len(e) => ~(recovered(i) /\ recovered(i + 2))

\* A failure is answered by so many requests and no more, an overflow by one
\* compaction (the counters of AgentSession, reset by prompts and answers).
RecoveryIsBounded == RetryIsBounded /\ OverflowRecoveredOnce

\* The places a submitted text can be in: on the path or on its way there, in a
\* queue of the agent, kept by the interface, back in the editor, or in a prompt
\* that has yet to start a run.
Places(t) ==
  LET in(texts) == Cardinality({i \in DOMAIN texts : texts[i] = t}) IN
  in(TextsOf(session.entries)) + in(TextsOf(session.events))
    + in(TextsOf(agent.steering)) + in(TextsOf(agent.followUp))
    + Cardinality({i \in DOMAIN ui.queued : ui.queued[i].text = t})
    + (IF t \in ui.editor THEN 1 ELSE 0)
    + (IF session.calls[t] \in {"compacting", "starting"} THEN 1 ELSE 0)

\* A text is in one place at a time: it is not sent twice, and what comes back to
\* the editor was not sent (submission, flushCompactionQueue and its recovery,
\* restoreQueuedMessagesToEditor, deliveries).
EachTextOnce == \A t \in Text : Places(t) <= 1

\* With nothing under way the interface keeps no text: what was submitted during
\* a compaction is delivered after it (CHANGELOG.md of the package; the flush on
\* compaction_end).
QueuedTextsAreSent == AtRest => ui.queued = <<>>

\* Every prompt() returns: when its run ends, and the retry promised for a failed
\* answer, however it ends, resolves the promise (waitForRetry, _resolveRetry).
PromptSettles == \A t \in Text : session.calls[t] # "none" ~> session.calls[t] = "none"
===============================================================================
