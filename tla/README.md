# Verification of draht

draht is a monorepo of TypeScript packages around a coding agent: a library that
talks to model providers (`packages/ai`), an agent with a turn loop, tools and
message queues (`packages/agent`), the coding agent built on it
(`packages/coding-agent`), a terminal UI, and several services and small tools.
This directory holds TLA+ models of the parts whose correctness depends on
ordering, failure and long call sequences, the TLC configurations that check
them on small instances, and theorems about them that TLAPS proves for every
value of the constants.

All paths below are relative to the repository's root, `packages/` being
`src/packages/` in `PROJECT.json`.

| module | code it is about | what it is |
|---|---|---|
| `AgentTypes`, `Agent`, `AgentProperties` | `agent.ts`, `agent-loop.ts` | the agent, its queues and its turn loop |
| `Mailbox` | | what the agent promises about messages; `Agent` implements it |
| `MCAgent` | | instances for TLC |
| `AgentProofs` | | theorems about the agent: its two transcripts, its calls and results; its messages |
| `EventStream` | `event-stream.ts` | the stream between producers and consumers |
| `ProviderStream` | the providers, `proxy.ts` | answers as blocks and events, and a proxy's client |
| `RequestRetries` | `google-gemini-cli.ts`, `openai-codex-responses.ts` | attempts, endpoints, waits |
| `CodexSockets` | `openai-codex-responses.ts` | the cached connection of a session |
| `FileMutationQueue`, `FileMutationQueueProofs` | `file-mutation-queue.ts`, `edit.ts`, `write.ts` | serialization of file tools |
| `FifoLock` | | what the queue promises; `FileMutationQueue` implements it |
| `MCStreams`, `MCFileMutationQueue` | | instances of the six above |
| `StreamsProofs` | | theorems about `EventStream`, and about `MCStreams` as a whole |
| `SessionEntries`, `SessionManager`, `SessionProperties`, `MCSession`, `SessionProofs` | `session-manager.ts`, `agent-session-runtime.ts`, `compaction.ts` | the session tree, its files, crashes |
| `AgentSession`, `AgentSessionProperties`, `MCAgentSession`, `AgentSessionProofs` | `agent-session.ts`, `interactive-mode.ts` | a session around an agent, and the terminal's input loop |
| `Compaction` | `compaction.ts` | what is cut, kept and summarized |
| `SocketServer` | `socket-server.ts`, `socket-client.ts` | the socket of a session and its clients |
| `AuthStorage` | `auth-storage.ts` | credentials shared by processes |
| `SettingsManager` | `settings-manager.ts` | settings shared by processes |
| `TuiScreen`, `StdinBuffer` | `tui.ts`, `stdin-buffer.ts` | the screen and the keyboard of the terminal |
| `GatewaySessions` | `packages/gateway/src/session`, routes | sessions, processes, sockets and streams |
| `ConnectionProofs` | | theorems about `CodexSockets`, `RequestRetries`, `GatewaySessions`, `SocketServer` |
| `MomChannel` | `packages/mom/src` | a Slack channel, its log and the agent's context |
| `Orchestrator` | `packages/orchestrator/src` | the plan of a task, resumed after a crash |
| `RecordProofs` | | theorems about `Compaction`, `MomChannel`, `SettingsManager` |
| `MCServices` | | instances of `Compaction`, `SocketServer`, `AuthStorage`, `SettingsManager`, `TuiScreen`, `StdinBuffer`, `GatewaySessions`, `MomChannel`, `Orchestrator` |
| `ServicesProofs` | | theorems about `AuthStorage`, and about `MCServices` as a whole |

`tlc -config <run>.cfg <MC module>` repeats a run, `tlapm <module>.tla` a
proof. `PROJECT.json` lists the runs, maps each definition to the lines it
models and names, for each property, a plausible bug that breaks it (the
definitions under a comment `Defect:`, which nothing else uses).

`MCStreams` and `MCServices` gather components that share no state. A behaviour
chooses one part at its start and is one of that part only; the variables of the
others have one value throughout. Nothing is claimed about the parts together.
`StreamsProofs` and `ServicesProofs` carry what is proved of a part in its own module
over to the property that a run checks of the whole: the instance of the part is the
same (`EditsSame` and its like), a step of the whole is a step of the part at work
(`EditsStep`), and the part at work never changes (`PartStays`), so that the part's
invariant is one of the whole.

## 1. Inventory

JavaScript runs one synchronous section at a time, so what interleaves in this
code are the sections between two awaits, the callbacks that resume them, and
other processes on the same files. "Hard" below names where that matters.

### Modelled

**Agent and agent loop** (`packages/agent/src/agent.ts`, `agent-loop.ts`).
*State*: the transcript and the streaming flags (`_state`), a steering and a
follow-up queue with a drain mode each, the active run with its abort signal;
in a run, the loop's own copy of the transcript, the messages the run added, the
messages taken from a queue, and the calls of the turn.
*Operations*: `prompt`, `continue`, `steer`, `followUp`, `clear*Queue`, `abort`,
`reset`, mode setters, `waitForIdle`; the loop's polls, requests, streaming,
tool preparation, execution and finalization.
*Interaction*: pulls events from a provider's `EventStream`, awaits listeners
(`AgentSession` is one) at each event, calls tools and hooks.
*Hard*: everything the application may call at any await; hooks, tools and
listeners that throw; parallel tools; two copies of the transcript.
*Correct when*: no accepted message is lost, doubled or reordered; every request
sees the visible transcript; every call is answered before the next request;
every run settles and leaves the agent clean.

**EventStream** (`packages/ai/src/utils/event-stream.ts`). *State*: a queue, the
pending promises of consumers, `done`, the result promise. *Operations*: `push`,
`end`, iteration, `result`. *Hard*: several consumers, an end with events
queued, events after the end. *Correct when*: every event goes to one consumer,
in order, the result is that of the last event, everyone comes to the end.

**Providers** (`packages/ai/src/providers`, `packages/agent/src/proxy.ts`).
*State*: the output under construction and the block that deltas go to; the
attempt and the endpoint of a request; the cached connection of a session, its
busy flag and its timer; in a proxy's client, the answer it rebuilds.
*Operations*: one handler per kind of chunk; the retry loop; acquiring, releasing
and expiring a connection. *Interaction*: push events to an `EventStream`.
*Hard*: chunks of several blocks that interleave, streams that end early or
empty, aborts, two streams that open a connection at once. *Correct when*: the
events tell the answer whole, a request is retried as often as it may be, a
connection serves one stream at a time, and everything ends.

**File mutation queue** (`packages/coding-agent/src/core/tools/file-mutation-queue.ts`,
with `edit.ts` and `write.ts`). *State*: a map from a key to the promise of the
last call; the files. *Operations*: `withFileMutationQueue` around the bodies of
the tools. *Interaction*: called by tools the agent runs in parallel, aborted by
the agent's signal. *Hard*: keys computed through links, aborts during I/O.
*Correct when*: mutations of one file do not overlap, no edit is lost, every call
returns, nothing leaks.

**Session manager** (`packages/coding-agent/src/core/session-manager.ts`, session
switches of `agent-session-runtime.ts`). *State*: the list of entries and its
index, the label map, the leaf, `flushed`, the file name; the JSONL files.
*Operations*: the `append*` methods, `branch`, `resetLeaf`, `branchWithSummary`,
`createBranchedSession`, `newSession`, `setSessionFile`, `open`,
`continueRecent`, `forkFrom`, and `AgentSessionRuntime.fork`. *Hard*: crashes
between and within writes, files written late (first answer), sessions cut out
of sessions. *Correct when*: a file holds what its session holds, contexts are
those of the path, copies keep the context they copy.

**AgentSession** (`packages/coding-agent/src/core/agent-session.ts`, with the input
loop of `modes/interactive/interactive-mode.ts`). *State*: the events heard and
not handled, the mirrored queues, the retry counter, promise and pause, timers
that continue the agent, compactions and their shared controller, pending bash
results; the interface's queue for texts submitted during a compaction.
*Operations*: `prompt`, steering and follow-ups, `clearQueue`, `abort`,
`abortRetry`, `compact`, `abortCompaction`, bash results, custom messages, tree
navigation; the handling of each agent event. *Interaction*: drives the agent,
appends to the session manager, is called by modes and extensions. *Hard*: checks
made before an await and used after it, timers against prompts and aborts,
overlapping compactions, deliveries between two clears. *Correct when*: at rest
the transcript is the context of the file, the mirrors follow the queues, a text
is in one place, recoveries are bounded, every prompt returns.

**Compaction** (`core/compaction/compaction.ts`). *State*: none but the path.
*Operations*: `findCutPoint`, `prepareCompaction`, `compact`. *Hard*: compactions
of what compactions kept, cuts inside a turn. *Correct when*: nothing is
forgotten, and what is recent is kept.

**Socket server** (`core/socket-server`). *State*: clients by name, sockets, what
is under way on each. *Operations*: attach, input, detach, output, close. *Hard*:
a close handler that runs after the name is taken again. *Correct when*: clients
agree on who is there and what was said.

**Auth storage** (`core/auth-storage.ts`). *State*: credentials in memory and in a
locked file. *Operations*: `getApiKey` with its refresh, `set`, `remove`, `login`,
`logout`, `reload`. *Hard*: processes that refresh one rotating token, a lock lost
meanwhile, crashes. *Correct when*: no refreshed token or stored key is lost.

**Settings manager** (`core/settings-manager.ts`). *State*: the settings, the fields
modified, a write queue. *Operations*: setters, `flush`, `reload`. *Hard*: other
processes' writes between two of ours, failed writes. *Correct when*: our fields
reach the file and others' survive.

**Terminal** (`packages/tui/src/tui.ts`, `stdin-buffer.ts`). *State*: the lines drawn
last, the cursor, the viewport, whether a render is due; the bytes not yet cut
into keys. *Operations*: `requestRender`, `doRender`, `start`, `stop`, resizes;
`process` and its timer. *Hard*: rows that scrolled away, sequences cut by reads.
*Correct when*: a resting screen shows the content, keys arrive whole.

**Gateway** (`packages/gateway/src/session`, `gateway/routes`). *State*: sessions, their
process with its buffer and subscribers, sockets and streams. *Operations*:
creating and destroying sessions, inputs, opening and closing sockets and streams,
output and exit of processes. *Hard*: sockets before the process, after it and
after its end. *Correct when*: a viewer has the output without gap or repetition,
and no process outlives its session.

**mom** (`packages/mom/src/slack.ts`, `main.ts`, `agent.ts`, `context.ts`). *State*: a
channel's log, the session's entries, the queue of events, the run. *Operations*:
messages, events, backfill, sync, answer. *Hard*: crashes, messages during runs
and while the bot is down, repeated deliveries. *Correct when*: the log is complete, and the agent
answers in the knowledge of it, nothing twice.

**Orchestrator** (`packages/orchestrator/src`). *State*: the plan, the results, the
state file. *Operations*: sorting, execution, skipping, synthesis, resumption.
*Hard*: plans in any order with cycles and unknown names, stops anywhere.
*Correct when*: a subtask runs once and behind what it needs, and a plan that
stopped can be resumed.

### Not modelled

| component | why |
|---|---|
| router | a sequential chain: the models of a role are tried until one answers, and a configuration file is read and written whole; no order of events can harm it |
| OAuth and utilities of `packages/ai` | parsing, validation and HTTP; `models.generated.ts` is data |
| bash executor and other tools | processes, files and text |
| extensions and resources | loading of user code; its hooks are steps of `Agent` that may throw and waits of `AgentSession` |
| modes, beyond the input loop | user interface and line framing around `AgentSession` |
| web-ui, pods, ci, compliance, deploy-guardian, infra, invoice, knowledge, landing, templates, workflows, scripts | browser components, ssh and HTTP wrappers, text checks |

Most lines of the repository are of these kinds: the user interface of the
interactive mode and the web, tables of models, text formatting, file and process
I/O, and tests of them. The map covers what keeps state over several steps.

## 2. Plan

1. The agent, its queues and its turn loop; the stream; the file mutation queue;
   the session tree and its files. *Done.*
2. The session around the agent, with the terminal's input loop. *Done for one
   path of the tree; branches beside it, models and extension commands left.*
3. What surrounds a session: its socket, credentials, settings, the terminal,
   compaction. *Done.*
4. The services: gateway, mom, orchestrator. *Done but for the watcher of mom's
   event files and the gateway's event bus.*
5. The providers: blocks and events, retries, connections. *Done but for what
   they put into requests.*
6. Theorems. *Done for the safety properties of the agent, the stream, the file
   mutation queue, credentials, settings, retries, the connections of codex, the gateway,
   the socket server, mom's channel, compaction, the labels and files of sessions, the
   order of calls and compactions around an agent, the place of results in its session,
   and for both refinements.* Left, in this order: what the paths of a session give
   (`MessageExtendsContext`, `CompactionKeepsRecent`); `AnswersArriveWhole`.
7. Left to model: the undo stack and kill ring of the editor, two processes on one
   session file, the watcher of event files.

## 3. The agent

### Correspondence

`AgentTypes` has the data: messages reduced to role, stop reason, number of tool
calls and an identity; lifecycle events; `PendingMessageQueue` as the operators
`Drained` and `AfterDrain`.

`Agent` has one variable for each field of the agent and each local of `runLoop`
that lives across an await. An action is the code between two awaits. `pc` names
the section of `runLoop` at which the run resumes; a section that emits several
events announces them in `notices` (events without a message) and `owed`
(messages, each with its `message_start` and `message_end`), and `Emit` delivers
one per step, since `processEvents` awaits the listeners after each. So between
any two events the application, the provider and the tools take their steps.

| actions | code |
|---|---|
| `Prompt`, `ContinueTranscript`, `ContinueQueued`, `StartRun` | `prompt`, `continue`, `runWithLifecycle`, start of `runAgentLoop` |
| `Steer` ... `SetFollowUpMode`, `Abort`, `Reset` | the methods of those names |
| `TrimFailedAnswer` | the retry of `AgentSession` taking the failed answer out |
| `EmitNotice`, `EmitMessageStart`, `EmitMessageEnd` | `processEvents` |
| `PollAtStart`, `EmitPending`, `InjectPending`, `AllInjected`, `PollAfterTurn`, `PollBeforeStop` | the two loops of `runLoop` |
| `Request`, `StreamStart`, `StreamUpdate`, `StreamFinal`, `TakeAnswer` | `streamAssistantResponse` and the branch on its result |
| `StartCall`, `RefuseCall`, `PrepareCall`, `LaunchCalls`, `ToolSettles`, `Finalize`, `EndTurn` | `executeToolCallsSequential` and `...Parallel` and their helpers |
| `ToolUpdate`, `OrphanSettles` | executions reporting, those of a failed run included |
| `ListenerThrows`, `RequestThrows`, `ExecutionThrows`, `HandleRunFailure`, `FailureListenerThrows`, `FinishRun` | rejections, `handleRunFailure`, `finishRun` |

The provider is an environment: it streams at most one start and one delta
before the final message, enough to have each kind of partial message in the
context when something else happens, and an aborted signal makes it fail. The
history variables `base`, `wiped`, `delivered`, `dropped`, `ended` and `late` are
read by properties and guards of no action.

`Mailbox` is what the agent promises about messages: three lines (prompts,
steering, follow-ups), each message delivered once, in the order of its line, by
a running run, or given up. Messages are numbered as they are accepted.
`ImplementsMailbox` reads the lines off the agent's state: what a run has taken and
not shown, then what is queued.

### Runs

| run | instance | shows |
|---|---|---|
| `agent_queues` | sequential tools, both drain modes and changes between them, 3 user messages, clear and reset, 2 runs, one turn of up to 2 calls | `EachMessageInOnePlace`, `RequestSeesTranscript`, `RunReportsItsMessages`, `ImplementsMailbox` |
| `agent_faults` | listeners, hooks and requests that throw, aborts, parallel tools, trimming and continuing, 2 runs | `IdleIsClean`, `CopiesAgree`, `CallsAnsweredBeforeRequest`, `PendingCallsTrackExecution`, and under fairness `RunsSettle` |

Two runs let work of a failed run reach into the next; three messages put two in
one queue with one in flight; two calls give every order of start, end and
refusal. The bounds are guards of the actions that create messages, runs and
calls.

Fairness (`FairSpec` of `Agent`): the event loop resumes a section whose
await settled, the provider ends its stream (section 4 has where it does not), a
tool settles, and a rejection that is there is seen. Nothing is assumed of the
application: it may never call again. An agent that is idle with its bounds used up
may stop, so deadlock is not checked in any run of this project: the systems
modelled are passive and rest in states with nothing to do. That nothing rests too
early is what the liveness properties say.

`AgentProperties` states more than the runs list: `ResultsInSourceOrder`,
`AgentEndIsLast` and `StreamingWhileActive`, each true under a narrower
environment only (section 8), and the type invariant and the latter are theorems.

### Theorems

For every value of the constants, `AgentProofs` has: `TypeCorrect`; `IdleAgentIsClean`;
`CopiesTheorem`; `RequestTheorem` (every request sees the transcript); and, provided
that reset is not called during a run (`ResetWhileActive = FALSE`),
`StreamingTheorem`.

`RequestSeesTranscript` is far from inductive: it speaks of one section, while
the two copies are extended at different awaits. The invariant is
`TypeOK /\ Resumable /\ RunPhases /\ IdleIsClean /\ CopiesAgree`. `CopiesAgree` says
section by section how the copies differ: by the messages still to be emitted,
by one pending message that is shown and not yet in the context, by a partial
answer that is in the context only, by the results of the turn.
`Resumable` says that a section finds what it takes the head of, which is what
makes the types inductive. `RunPhases` confines calls and results to the section
that executes tools. `agent_faults` checks `CopiesAgree` and `IdleIsClean`.

Three more each add one part to that invariant.
`PendingCallsTheorem` (`PendingCallsTrackExecution`): a section changes `exec` before it
emits the event that changes `pendingToolCalls`, so in between the two differ by that
event (`CallsTracked`). `ReportTheorem` (`RunReportsItsMessages`): `newMessages` ends the
context at each section, or the context without the partial answer (`NewTracked`);
with `CopiesAgree` it ends the transcript when the run does. `AnsweredTheorem`
(`CallsAnsweredBeforeRequest`): while tools are executed the answer is the newest of
`newMessages` and `results` has one result for each call that is done, whatever the
order (`ResultsTracked`); a pigeonhole argument makes them the results of all calls
when all are done. It needs that queues hold users' messages only (`UsersQueued`).

The last part of `AgentProofs` has `OnePlaceTheorem` (`EachMessageInOnePlace`) and
`MailboxTheorem`: `Spec => ImplementsMailbox`. The invariant `MailInv` says where a run
may have messages in its hands (`MailPhases`: taken from one line, at the polls and
injections only), and that the identities of the flight, the queues, the delivered and
the dropped are disjoint and make up all that were created (`MailPlaced`). For the refinement each
action is shown to be a step of one line or a stutter. Delivery is the step in which
the message is shown, `EmitMessageEnd`; the later steps that put it into the context
and out of `pending` stutter. What a failing run gives up is the front of one line,
and what `clear*Queue` gives up is the back. It assumes nothing about the constants.

## 4. Streams, answers and requests

All of this section is checked by the run `streams` (module `MCStreams`), one part
at a time, with fairness of `StreamsProgress`: what was asked for is answered or
fails, timers fire, file operations end, callbacks run, and producers end their
streams. `StreamsEnd` says of each part that it comes to its end; no part can go on
for ever, so that fairness of the parts' steps together is enough.

| run | part | instance | shows |
|---|---|---|---|
| `streams` | stream | 3 consumers, one of which may leave, 4 events | `DeliveredOnceInOrder`, `StreamsEnd` |
| | edits | 3 edits or writes under two names of one file that exists, failures, no aborts | `FileExclusion`, `NoLostEdit`, `ImplementsFifoLock`, `StreamsEnd` |
| | writes | 2 writes of a file that appears between calls, aborts, failures | `ImplementsFifoLock`, `StreamsEnd` |
| | answers | 7 providers, up to 3 blocks and 2 pieces, limits of tokens, connections cut, aborts | `AnswersArriveWhole`, `StreamsEnd` |
| | requests | 2 providers, 3 endpoints, 3 retries | `RetriesAreBounded`, `StreamsEnd` |
| | sockets | 3 streams, 3 connections that fail and close | `SocketsServeOneStream`, `StreamsEnd` |
| `mutation_cut` | | 2 edits of one file, aborts | `NoLostEdit` is violated |
| `answer_limit` | answers | | `EndedCallsAreComplete` is violated |
| `proxy_ended` | answers | | `AnswerSettles` is violated |

### The event stream

`EventStream` numbers events as `push` accepts them. A consumer is a `for await`
over the stream: it asks (`Ask`), waits in line, is resumed with a value or with
done (`Resume`), or leaves. The result promise is awaited by nobody in the model;
it keeps its first value (`Resolve`). `End` may come at any time and again, with
or without a result, as in `end(result?)`. Three consumers make a line of two
behind the one served; four events fill the queue and the line one after the other.

`StreamsProofs` proves for any number of consumers and events: `TypeCorrect`,
`EventsGivenOnce`, `EventsGivenInOrder`, both together as `EventsAreDelivered`,
`QueueOrLine` and `LastEventIsResult`. The argument: the queue holds exactly the
newest events, in order (`QueueIsNewest`), so whatever is handed out next, directly
by `push` or from the queue, is the first event that nobody has; hence what has been
handed out (`HandedOut`) is an initial segment, each event with one consumer, and
each consumer's events increase. The line holds waiting consumers only, each
once (`InLine`), and nobody has a given value unless resumed. `StreamsAreStream` says
that the whole of `MCStreams` does to the stream what `EventStream` does, so that all
this holds there.

### The file mutation queue

`FileMutationQueue` models `withFileMutationQueue` together with the bodies of
`edit` and `write`, since what matters is when their I/O happens. A call awaits
the call whose promise it found in the map. (The chained promise of a call
resolves when the call has released it, see the module's head.) An abort
rejects the tool's promise and leaves its I/O to itself: `io` is separate from
`status`. `RealOf` says where a path leads; a file that is not there has no real
path, and the key is the path as given. Three calls are a holder, one behind it and
one that comes while those leave, which is where an entry of the map could be taken
away wrongly.

`FileMutationQueueProofs`, under `QueueAssumption` and for any calls, paths and
links: `TypeCorrect`; `CallsAreSerialized` and `CallsAreServedInOrder` (calls of one
key exclude each other and are served in the order made, aborts and failures
included); `MapIsTidy`. The invariant `QueueInv` says that each call awaits the call
before it of its key (`Chained`, `AwaitsOwnKey`), that the map holds the newest call
of each key unless it has returned (`MapIsNewest`, `MapIsPending`), and that a call
past its await found it resolved (`PastAwait`). `QueueIsFifoLock` proves, from the same
invariant, that the queue implements `FifoLock`: clients arrive at the lock of
their key, enter it one at a time in the order of arrival, and leave.

`FilesAreSerialized` (`FileExclusion`) and `EditsAreKept` (`NoLostEdit`) speak of files
instead of keys and need more: that no link dangles (`Undangling`; links to files that
exist are allowed) and that nobody aborts. Then a path has the key of its file
before and after the file is written, and a tool's body runs while its call holds
the queue (`BodyInside`). An edit that is about to write has therefore read what the
last one left (`EditsKept`). Both assumptions are necessary: `MCFileMutationQueue_cut`
with writes, the paths `Aliased`, no existing file and no aborts violates the first,
`mutation_cut` the second. `streams` has `FileExclusion` with a link to a file that
exists; `StreamsProofs` has both properties as the run states them
(`FileExclusionTheorem`, `NoLostEditTheorem`), and `LockTheorem` the refinement of
`FifoLock` by the queue of that run, its edits and its writes with aborts.

### Answers

`ProviderStream` keeps of a chunk which block it is for and which piece it brings. An
API sends blocks (`said`); a provider builds `content` and pushes events; a proxy's
client reads the events from the wire and has nothing else. The providers differ in
how a block is found and ended, which is one action per kind of chunk:

| actions | code |
|---|---|
| `ContentBlockStart`, `ContentBlockDelta`, `ContentBlockStop`, `BedrockDelta` | the handlers of `anthropic.ts` and `amazon-bedrock.ts`, blocks by index |
| `ItemAdded`, `ItemDelta`, `ArgumentsDone`, `ItemDone` | `openai-responses-shared.ts`, which azure and codex share |
| `Delta` | `openai-completions.ts`, `mistral.ts`: a delta that names no block, ids of tool calls; `google.ts`, `google-gemini-cli.ts`: parts, with whole tool calls |
| `Begin`, `Ends`, `Limit`, `Abort` | start, the end of the stream with its reason, errors, the empty attempts of gemini-cli |
| `Deliver`, `Cut` | `processProxyEvent` and the end of the body in `proxy.ts` |

`Limit` is an API that reaches its limit of tokens within a block; `Cut` a proxy
whose connection closes. `AnswersArriveWhole` compares the client's answer with the
provider's at each moment at which it has read everything, and with what was said
when it is done. Reasoning summaries end in a separator that the provider strips and
the client keeps: the comparison joins the pieces without it. Two kinds of text reach
the provider's answer but no delta. A block of redacted thinking starts with a text
that stands for it (`anthropic.ts:314-323`): the client's block is empty, and the
property leaves that text out of what it compares. And `openai-responses` takes
the arguments of a call from other events than deltas: `ArgumentsDone` may extend what
the deltas gave, which a delta of its own tells, and the run has that; but an item that
is added with arguments (l. 317), arguments that do not begin with those of the deltas
(l. 410-427) and an item that has them only when it is done (l. 451-464, in the event
and not in the answer) the client never sees. With `apart` in `Happens` these come as
well, and the property fails; the run has it off. The `input` that a call of Anthropic
starts with is taken to be empty. With `MaxWire = 0` the
client reads before the next chunk; more events on the way only delay it. Checked as
well: 2 blocks of 4 pieces and 3 of 3.

### Requests and connections

`RequestRetries` is the loop over attempts of gemini-cli (which changes endpoints at
403 and 404) and codex, with the reply of each attempt as an input: what is thrown in
the loop is caught by it. `CodexSockets` numbers connections as they are opened. A
stream finds the cached connection idle, opens one of its own when it is busy, or one
for the cache; the opening takes an await, so that two may do the last. Three streams
are two that race and one that comes when the loser's connection is replaced.

`ConnectionProofs` has `SocketsTheorem` (`SocketsServeOneStream`) for any number of
streams and connections, failures and closings included. Its invariant says that no
two streams run on one socket (`OneStream`), why (`Guarded`: the socket of a stream is
marked busy or is not in the cache), that what a stream has read and what its socket
still owes make up its answer (`HasSocket`), and that an open socket without a stream
is idle, with nothing owed and a timer (`OpenInUse`): so a stream that finds it
reads nothing of another. `RetriesTheorem` (`RetriesAreBounded`) is for any number of
retries and endpoints and both providers; it counts replies against attempts
(`AttemptsAreCounted`). `StreamsProofs` states both of the whole, for the four replies and
three streams of the run.

## 5. Sessions and their files

`SessionEntries` computes what `session-manager.ts` computes from a list of
entries: the index, the labels, the path (a recursive function over the index),
the context (`buildSessionContext`), and where `prepareCompaction` may cut.
Entries are numbered as they are made; the eight-digit ids of the code are
retried on collision. `SessionManager` has the session in memory as one record,
the files as sequences of lines, and one action per method, all of which are
synchronous. A crash takes the memory; a crash during an append leaves some of
its lines, the last perhaps cut (`Torn`), and what is appended behind a cut line
is unreadable (`Garbage`), as a cut line has no newline.

| run | instance | shows |
|---|---|---|
| `session_paths` | 4 entries, labels, branches, settings, compactions, extraction of paths, one session in memory | `TypeOK`, `LabelsReplay`, `ExtractionKeepsPlainPaths`, `MessageExtendsContext`, `CompactionKeepsRecent` |
| `session_files` | 5 entries, 2 files, labels, extraction, forks, crashes between and within appends (whole lines), empty files | `ReloadIsFaithful`, `AnsweredForkCopiesHistory`, `FilesOnlyGrow` |
| `session_bookmark` | 4 entries, labels, extraction | `ExtractionKeepsContext` is violated |

Four entries allow a message, a compaction, a message and a second compaction that
reaches behind the first; five a session with a label that is extracted, forked or
written again after a crash; two files a session and one made out of it.

`SessionProofs` has four theorems, for any number of entries and files and all uses and
disturbances. The invariant `Base` has that a session in memory starts with a header,
that its labels are those a replay of its entries gives and its leaf is one of them
(`ManagerOK`), that parents are older than their children, which makes a path end, and
that lines on disk are entries made so far or spoilt lines (`DiskOK`). It gives
`LabelsTheorem` (`LabelsReplay`). Each action that keeps it also extends what is
loaded from each file (`Grows`), behind a torn line too: `GrowTheorem` (`FilesOnlyGrow`).
The other two assume that no crash cuts a line in two (`"torn" \notin Disturbances`), as
they are false otherwise: behind a torn line the next entry is lost, and with it what a
reload should give, and what a label is on. `Faithful` then adds that a label comes
behind the entry it is on (`Closed`), in memory and in each file, and what `flushed` says
of the file (`Complete`): a session that is not flushed may have lines in its file, those
a crash left of its first write, but no others than its own, and is without an answer;
so its first write repeats them (`LabelsOfRepeated`: labels that come again change
nothing), and from then on file and memory have the same entries and labels. That is
`ReloadTheorem` (`ReloadIsFaithful`); `Closed` gives `TypeTheorem` (`TypeOK`).

What these proofs need of the operators are lemmas about `OfTypes`, `ToSet`, `Labels`
and `GetBranch`. Sequences are inducted over by sets (`SeqInduction`: a set of sequences
that has the empty one and is closed under `Append` has all), from the least number of
a set, since an induction rule with a predicate as its parameter is not to be had.

`Compaction` is the arithmetic of `compaction.ts` over a path that grows and is
compacted again and again: where a cut may be, which cut the budget chooses, what is
summarized and what each summary stands for. The run `services` checks
`CompactionsKeepHistory` with 6 entries of one size and a budget of two of them,
enough for a compaction behind a compaction, each with a cut inside a turn.
`HistoryTheorem` (`RecordProofs`) proves the first half, `NothingIsForgotten`, for
every path, all sizes and every budget. The invariant adds to it that a compaction
keeps from somewhere in front of itself (`KeptIsInFront`): so the next compaction
starts at or before the previous one, everything from there on is kept or summarized,
and what is in front of it is in the previous summary, which is handed on. Both need
`LongFirstTurns = FALSE`: when a compaction cuts within the turn the last one kept
first, there is no history to summarize, and the summary of the last one is not handed
on.

`RecentTheorem` proves the second half, `KeepsWhatIsRecent`, for every path, all sizes
and every budget, whatever a compaction cuts. Its invariant adds where results stand
(`ResultsBehindCalls`) and that no compaction kept from a result (`StartsWithoutResult`):
so neither does the next one, even when nothing may be cut and it keeps from where the
last one did. If two messages kept were not below the budget without the first of them,
and the last was no result, the cut would be at or behind the second
(`KeptReachesBudget`), and nothing in front of a cut that is kept is a message
(`KeptReachesCut`). Sizes are summed by the library's fold, a recursive function: that
there is one for each finite set, and that its value is a number, are `SumsExist` and
`TotalIsNumber`. `CompactionsTheorem` (`ServicesProofs`) is `CompactionsKeepHistory` as
the run states it.

## 6. The session around the agent

`AgentSession` has three variables: the agent, reduced to what a session sees of it
(a run shows messages, polls its queues one message at a time, answers, executes
tools, ends); the session with its entries; and the input loop. A *world* is all
three, and the synchronous pieces of the code are operators from worlds to worlds
(`prompt`, `checkCompaction`, `runAutoCompaction`, `flushCompactionQueue`, ...), named
as in the code and composed by the actions, since one callback runs many of them.
What the session hears of the agent waits in `events` (`_agentEventQueue`); the
handler of one event may be blocked by a pause or a compaction, and then so are those
behind it, while prompts, timers and aborts are not.

| actions | code |
|---|---|
| `Submit`, `Dequeue`, `Escape*` | the submission of text, the restoring of queued texts and the abort keys of `interactive-mode.ts` |
| `StartPrompt`, and `prompt` under it | `prompt` up to each of its waits |
| `AgentAnswers`, `ToolsFinish`, `RunFails`, `ContinueFires` | what the agent does, and the timers that continue it |
| `HandleMessage`, `HandleAgentEnd` | `_processAgentEvent` |
| `BackoffElapses`, `BackoffAborted` | the pause of `_handleRetryableError` |
| `CompactionSucceeds`, `CompactionFails`, `Compact*` | `_runAutoCompaction`, `compact` |
| `Navigate*`, `BashEnds`, `SendCustomMessage`, `Abort` | `navigateTree`, `recordBashResult`, `sendCustomMessage`, `abort` |

| run | instance | shows |
|---|---|---|
| `session_turns` | the terminal; 2 texts, tools, errors, overflows and failing runs, follow-ups, aborts, restored queues, manual compaction, navigation, a bash result, a custom message | `TypeOK`, `TranscriptIsContext`, `MirrorsFollowQueues`, `ToolResultsFollowCalls`, `EachTextOnce` |
| `session_prompts` | a client over rpc; 2 texts, 3 answers that fail or overflow, aborts, checks in front of prompts, users faster than timers | `RecoveryIsBounded`, and under fairness `PromptSettles` |

Two texts are one in a run or a recovery and one that comes meanwhile; three failing
answers are one more than a retry allows, one retry being as good as three to be
counted wrong; one automatic compaction lets a prompt and a retry fall into it.
Fairness of `Progress`: requests are answered, tools and summaries end, timers fire,
handlers run. Nothing is assumed of the user.

What a narrower environment hides, found with wider ones and kept out of the runs:
custom messages that come before the timer of a retry make one text appear twice
(`early` with `custom`); a run that fails without a message leaves the retry
promise unresolved (`MCAgentSession_failure.cfg`), so that `session_prompts` has
`RunFailures = FALSE`; results of commands are held back until the next prompt and
stand in the file where they stand in the transcript only if nothing was said in
between, which is why `TranscriptIsContext` counts them. A cancelled `navigateTree`
leaves `_branchSummaryAbortController` set, after which `isCompacting` stays true. An
abort in the gap between pause and timer finds nothing to abort. Two automatic
compactions share `_autoCompactionAbortController`, which the first to end clears.
A text submitted while the input loop awaits a prompt that neither streams nor
compacts (the pause before a retry) is taken by nobody.

### Theorems

`AgentSessionProofs` proves `OrderTheorem`, `Spec => []Orderly(World)`, and from it
`TypeTheorem` (`TypeOK`), from `SessionAssumption` alone: for every number of texts,
answers, retries and compactions, both clients, and all `Uses`, those the runs leave
out included. `Orderly` says, of a world of the right type (`Worlds`):

- `RunnersWait`: two compactions never run for one prompt or both for a handler, a
  prompt for which one runs waits for it, and the handler of an event that awaits a
  compaction is not in the pause of a retry. `_handleRetryableError`,
  `_checkCompaction` and `prompt` each go on after their wait as if this were so.
- `CallsSubmitted` and `TextsWait`: only what was submitted is prompted; the interface
  keeps no text twice and none that is being prompted, and of those that
  `flushCompactionQueue` has sent, only the first may be. This is what makes
  `StartPrompt` and the flush begin a call that is not there yet.
- `SummariesLand`: a manual compaction that summarizes has its cut, and a navigation
  that does so has its place in the path.

A step of this system is a composition of operators on worlds, so the proof is one lemma
for each operator and the step lemmas only put them together. Most operators begin no
call and no compaction: they relate their worlds by `Keeps`, which is transitive and
under which `Orderly` is preserved (`KeepsOrder`). The others (`checkCompaction`,
`prompt`, `flushCompactionQueue`) need somebody who is not waiting already: `Free`
and `Begun` say of whom a check may begin a compaction, and `CallOrders` what a prompt
becomes. `flushCompactionQueue` and `prompt` call each other, but not twice: the flush empties
the queue it is called for. `CompactHearing`, `CheckHearing` and `PromptHearing` are the
bodies of `runAutoCompaction`, `checkCompaction` and `prompt` with what hears their
`compaction_end` as a parameter; it is nothing inside a flush (`PlainPrompt`), and the
flush outside of one (`PromptOrders`).

`ResultsTheorem` is `Spec => []ToolResultsFollowCalls` for every number of texts,
answers, retries and compactions, every set of outcomes, and both clients, under
`Undisturbed`. The instance of `session_turns` is one of those it is about; the two runs
that violate the property each break one of its conjuncts:

- `~Lag`: what the handlers of events await is there at once, unless it is a pause or a
  summary. An extension's handler that suspends lets a command's result in
  (`MCAgentSession_lag`).
- No use is `overlap`, `early`, `midrun` or `precheck`: no run is started while the end
  of the last one is handled (`MCAgentSession_overlap`), nobody is faster than the timer
  of a retry or of a continuation, manual compaction and navigation come at rest, and the
  check in front of a prompt finds nothing to compact.
- With manual compaction or navigation the client is the terminal, which keeps texts
  back meanwhile, and no custom message follows in a further act: one with `triggerTurn`
  starts a run during the summary, which `compact` and `navigateTree` do not prevent.

The property is not inductive, since a result is appended to the file a callback later
than to the transcript, and a summary ends with a path it did not begin with. `Steady`
is, together with `Orderly` (`SteadyTheorem`); TLC has checked it on the instance of
`session_turns`. It has two halves:

- `Turns`: the session waits (a pause, a summary) or something of it goes on (a run,
  events not handled, a prompt that starts a run, a timer), but not both. It waits for
  one thing at a time (`OneWait`), which somebody asked for (`Asked`); one prompt starts
  at a time, and the end of a run is the last event of it (`OnePrompt`).
- `Followed`: results stand behind their calls in the path and in the transcript, and no
  compaction in the path keeps from a result (`Path`); of the events only the first may
  be a result, and only where the path ends in a call, and while tools run the transcript
  and what has been heard of it end in the call (`Heard`); a summary under way cuts at no
  result (`Cutting`); what is queued is no result (`Queues`).

Here most operators touch none of this (`Passes`); those that put something on the path
do so at rest (`Still`), where the path ends in no call that is being answered. The lemmas
on sequences say when results stay behind their calls as sequences are joined
(`ResultsConcat`), are cut short (`SubSeqResults`), lose their compactions
(`WithoutCompactionsResults`), and become a context (`ContextResults`).

*Not proved* are the other properties of `session_turns` and `session_prompts`. They are
not theorems of `Spec` for every `Uses` either: with those named above under what a
narrower environment hides, simulation finds `MirrorsFollowQueues`, `EachTextOnce` and
`RecoveryIsBounded` violated (a custom message that starts a run during a manual
compaction; a flush whose texts are restored after one of them was delivered; two runs
that overlap). They hold on the instances of the runs.

## 7. What surrounds a session, and the services

All in the run `services` (module `MCServices`), one part at a time, safety only. Each
module has a constant for what may happen around it, and the run takes the largest
environment in which the property holds; what fails with more is said here, and any of
it can be tried by changing the constant in `MCServices_all.cfg`.

| part | module | instance | property |
|---|---|---|---|
| socket, narrow | `SocketServer` | 2 clients, one of them read-only, 3 connections, 2 lines; and a server for one client | `ClientsAgree` |
| auth | `AuthStorage` | 2 processes, 3 tokens, an API key, network failures, contention, stale locks, crashes | `CredentialsSurvive` |
| settings | `SettingsManager` | 2 processes and an editor, 2 fields, 4 values, 2 reloads, contention | `SettingsSurvive` |
| first | | 1 process whose file does not exist, several changes at once | |
| tui | `TuiScreen` | heights 1 and 2, up to 3 lines, a resize (in Termux, any number of changes of the height), overlays, stop and start, both values of clearOnShrink | `TerminalIsFollowed` |
| keys | `StdinBuffer` | 3 keys or pastes in chunks of any length | |
| gateway | `GatewaySessions` | 1 session, 2 sockets or streams, 3 chunks, a buffer of 2 | `ViewersFollowSessions` |
| compaction | `Compaction` | 6 entries (section 5) | `CompactionsKeepHistory` |
| mom | `MomChannel` | 3 messages, 1 of them on the pages of a backfill, 1 line that repeats, 2 events, a queue of 1, crashes | `ContextFollowsChannel` |
| plan | `Orchestrator` | every plan of up to 3 subtasks, unknown names and cycles included | `PlanIsFollowed` |

**Socket server.** A connection is two streams with what is under way on them; the
server handles one line of one connection at a time. Three connections of two clients
are one that is closing, its successor, and another client that watches. A client that
connects again before its old socket has closed (`EarlyReturn`) loses its new name to
the old close handler, so that the property fails. `ClientsTheorem` (`ConnectionProofs`)
proves `ClientsAgree` for any number of clients, connections and lines and any limit, if
`EarlyReturn` is FALSE and no client has the name that stands for none
(`SocketAssumption`). Its invariant `Agreed` speaks of registered names, connections and
what was said: a client has one open connection; a connection attaches with its first
line, before which nothing was sent on it (`ConnIsSound`); while it is used it has what
is due to it, in order (`Hears`, which also holds in the middle of an attachment, when
the name of who comes `late` is registered and not announced yet); and a registered name
has an open connection. One event more adds one to what is due to everybody but its author
(`NextIsDue`), which `#broadcast` sends to exactly them (`AllHear`).

**Auth storage.** A token is its generation; the provider refuses what was exchanged.
Three tokens are two refreshes and a login between them. `CredentialsTheorem`
(`ServicesProofs`) holds for any number of processes, tokens and keys. Its
invariant: who is in an exchange and was not told that its lock is lost holds the lock
and has read the file as it is (`HolderIsCurrent`); a token that was given and is not
yet written is nowhere else (`GivenIsFresh`); a used token in the file is about to be
replaced or counts as lost (`UsedIsReplaced`). The assumption that a lost lock is
noticed before the write is necessary: `unnoticed` breaks the property.

**Settings manager.** One scope with fields as leaves; reads and writes under the lock
are one step. A second change while the first is queued is unmarked with it, and is
lost when its own write fails (`burst` with contention); the file is created
without a lock, so that two processes that start together overwrite each other
(`missing` with two processes). `SettingsTheorem` (`RecordProofs`) holds for any
number of processes, fields, changes and reloads, with contention and an editor,
if neither these two nor an unreadable file occur (`Orderly`). Its invariant: the file
holds the latest values (`FileIsLatest`); each value that is still to be stored was set
once and is owed by one manager for one field (`OwedIsNew`); a queued write has all
that is marked (`QueueHasMarks`); what a manager shows and is not stored is marked
(`UnstoredIsMarked`). One process with bursts and without a file is the part `first`.
`FirstSettingsTheorem` holds for any number of its changes and reloads and any fields
(`Alone`). Several writes may wait now, and a snapshot behind another has values that
are stored when it is written, so the invariant `AloneInv` speaks of their order: what
waits of a field was set after what waits before it (`Rises`) and after what the file
holds, unless it is that (`Follows`); a value is of one field (`Separate`); what is shown
was stored or is queued (`Shown`); and the file that is being created gets the write at
the head (`Creates`). `SettingsSurviveTheorem` puts both together.

**Screen and keyboard.** `TuiScreen` has the terminal with its scrolling, the fields of
`TUI` and the flags and ticks of its scheduling; `Tick` is `doRender` with each of its
branches. Its invariant speaks of screens on which no render is due. A frame without
lines (`empty`), a change of lines that is not requested (`unforced` after a stop)
and cursors above the viewport (`cursorAbove`) are outside the run. In Termux, where the
keyboard on the screen takes rows and gives them back, a change of the height alone is
not followed by a full redraw (`tui.ts:969`): the render goes on from the row at which
the viewport must begin now (`prevViewportTop`, `tui.ts:894-895`), and any number of such
changes may come. The terminal (external) then gives up blank rows below the cursor
first, lets further rows leave at its top, and takes rows back from there
as long as it has some. `farCursor` is outside the run: a height that takes the row of
the cursor, or a blank last line below it, from the screen, after which later lines go to
wrong rows and the property fails. Without the recomputed top it fails as well. Heights
1 and 2 with up to 3 lines have content that fits, scrolls by one and by more than a
screen; Termux alone was checked with heights 1 to 3 and 4 lines too. `StdinBuffer` cuts
characters into sequences as the code does, with a timer; pauses inside a sequence
(`slow`), an escape with another key behind it (`hasty`) and an escape directly in front
of a paste are told apart by time alone, and fail.

**Gateway.** One session is enough, since sessions share nothing. Three chunks and a
buffer of two make the buffer forget one. `LateBodies` lets a session be destroyed
while the body of an input is awaited: it then gets a process that nothing kills. Seen
in the code and outside the property: `exited` may resolve before the last output
was read, which is then lost to viewers; the socket of a destroyed session without a
process stays open; a stream opened before the process gets no output; a process spawned
by an input announces neither its start nor its end; the event bus made in
`cli.ts` is not that of `server.ts:69`, so that `/events` is silent. The handlers of a
socket (`ws.ts:171-217`) find its place in the set of its session, and what ends its
subscription, by the context object they are called with. `OneContext` assumes that the
framework calls all handlers of a socket with one object, which `src/` alone cannot
confirm; without it a closed socket stays in its set and, if the process came after it,
subscribed, and the property fails.
`ViewersTheorem` (`ConnectionProofs`) proves `ViewersFollowSessions` for any number of
sessions, sockets, streams, chunks and inputs and any size of the buffer, if
`LateBodies` is FALSE and `OneContext` is TRUE. Its invariant `GatewayInv` has for each session that its buffer is
an unbroken run up to what was read, as long as the buffer or from the start
(`UpTo`), and that a destroyed session awaits no input and its process was killed
(`SessionIsSound`); for each socket or stream that it is among the sockets of its
session while it is open, and subscribed and up to date once there is a process
(`Follows`); and that whoever is subscribed to a session is one of its own.

**mom.** A message is its number. Slack may deliver one again, and the handlers
log every delivery without a look at what the log has (`Deliver`, `Replay`;
`slack.ts:298-309`, `377-386`): the log may hold a message several times, in any order.
Messages up to `startupTs` start no run. The property therefore asks that what was said is
in the log, and that each message is in the context of an answer once. A backfill
asks Slack for what is behind the newest line and reads three pages of 1000, newest first
(`MaxBackfill`); what these do not hold (`Beyond`) no later backfill asks for, so it is
lost for good and exempt, by `since`. Six things are outside the run, and the property
fails with each: `Sync` compares texts, not times, so that equal texts are dropped
(`repeat`), and those of users unknown to the bot's list stand in the context twice
(`stranger`); an event that is answered before the backfill makes it skip what was missed
(`early`), and so does a backfill that cannot reach Slack (`unreachable`); a message that is
delivered again to the bot that took it as new may be answered again (`retry`), and an
old one delivered before `startupTs` is noted counts as new (`hasty`, `slack.ts:164`).
A "stop" while a run posts or prepares stops nothing, though "_Stopping..._" is posted;
channels without a log are not backfilled. Assumed: nothing is said between the backfill
and the connection, the clocks of Slack and of the host agree, and the pages hold messages
of users only. Three messages are one with which the log begins and two that a crash
leaves to a backfill of one. `ChannelTheorem` (`RecordProofs`) proves
`ContextFollowsChannel` for any number of messages, pages, repeated lines, events, queued
events and crashes, if none of these six occurs (`Environment \subseteq {"crash"}`). Its
invariant: a line has the time of something said, be it a repeated line or out
of order (`LogFits`); what was said since `since` is logged, or the bot is not up yet and
it is newer than any line, so that the backfill asks for it (`MissesNothing`); the
context has no text twice (`ContextFits`); the message a run answers is new to the context
until it is prompted, and all that a run has synced is known (`RunFits`). The
messages a backfill or a sync takes over are an increasing enumeration of a set, which
exists for each finite one (`OrderExists`).

`ServicesProofs` has `ClientsAgree`, `SettingsSurvive`, `ViewersFollowSessions`,
`ContextFollowsChannel`, `CompactionsKeepHistory` and `CredentialsSurvive` as the run
states them, for any values of the bounds and under the same assumptions about what may
happen.

**Orchestrator.** `topologicalSort` is a recursive function over all plans of three
subtasks: a cycle of two with one behind it, a chain, a fork. A skipped subtask is not
in the state file; a resumed plan starts from empty results and executes everything
again (`MCServices_resume.cfg`); `duplicate` ids, a progress `listener` that throws and
a `torn` state file break the property. With `listener` a task may even be both completed
and failed: its first attempt fails, and the callback throws behind the retry that has
completed it (`engine.ts:92-107`).

## 8. Findings

Four runs show disagreements of the code with what it says of itself.

* `session_bookmark`: a label becomes the leaf, so the next entry is its child.
  `createBranchedSession` leaves labels out and the `parentId` of their children
  alone: in the extracted session the path, and so the context, begins after
  the last label. "Create a new session file containing only the path from root
  to the specified leaf" (`session-manager.ts:1161`).
* `mutation_cut`: an abort rejects the promise of an `edit` whose `writeFile` is
  in flight, which releases the queue; the next edit then reads and writes
  the file at the same time, and one of them is lost. "Serialize file mutation
  operations targeting the same file" (`file-mutation-queue.ts:16`).
* `answer_limit`: an answer that reaches its limit of tokens inside a tool call has
  the call reported as ended, with what arguments were there. "Here toolCall.arguments
  is complete" (`ai/README.md:306`). The agent loop executes the call, since the
  answer's reason is neither `error` nor `aborted`.
* `proxy_ended`: a proxy's connection that closes early ends the client's stream with
  neither done nor error; `result()` stays pending and the agent's run with it. "then
  terminate with either: `done` ... or `error`" (`types.ts:232`).

Further configurations in this directory reach states in which a property fails
that holds elsewhere under a narrower environment; they document why the
environment of the runs, and the assumptions of the theorems, are as they are. Where the
configuration is that of a run, the property replaces those it lists.

| configuration | property that fails | why |
|---|---|---|
| `MCAgent_late` | `AgentEndIsLast` | after `afterToolCall` rejects, another call's updates come after `agent_end` (`types.ts:323`) |
| `MCAgent_late`, with `Faults = {}` | `ResultsInSourceOrder` | in a parallel turn a refused call is answered before an earlier call that runs (`types.ts:33` has source order) |
| `MCAgent_reset` | `StreamingWhileActive` | `reset()` during a run clears `isStreaming` (`types.ts:268`) |
| `MCAgent_late`, with `FairSpec` | `SteeringIsInjected` | what is steered after the last poll of a run waits for the next one (`agent.ts:248`) |
| `MCFileMutationQueue_cut`, with writes, `Aliased`, no existing file, no aborts | `FileExclusion` | a call through a dangling link and one made once its target exists have two keys |
| `MCSession_files` | `ForkCopiesHistory` | a fork in front of which there is no answer starts empty: the extracted file was never written |
| `MCSession_repair` | `FileIsWellFormed` | an empty file is given a header, `flushed` is reset by a message without an answer, and the first answer writes the header again |
| `MCSession_repair`, with `{"crash", "torn"}` | `ReloadIsFaithful` | the first entry behind a cut line is skipped with it |
| `MCAgentSession_queue` | `QueuedTextsAreSent` | a text kept during a compaction whose prompt is refused, a run having begun meanwhile, goes back to the interface's queue and stays there (`CHANGELOG.md:1849` has it delivered); with `Uses = {"tree"}` those kept during the summary of a navigation stay, as no compaction ends |
| `MCAgentSession_failure` | `PromptSettles` | a run that fails without a message leaves the retry promise (`agent-session.ts:2490`) |
| `MCAgentSession_overlap` | `ToolResultsFollowCalls` | the handler of an event trims a transcript to which a new run has added |
| `MCAgentSession_lag` | `ToolResultsFollowCalls` | handlers of extensions that suspend let a bash result in between a call and its result in the file |
| `MCServices_resume` | `ResumeRepeatsNothing` | a resumed plan executes what its file has as completed |
| `MCStreams_all` | `LongDelaysFailAtOnce` | gemini-cli's error for a delay that is too long is caught by the loop it is thrown in (`types.ts:94`, `settings.md:84` have it fail at once) |

## 9. Limits

*Proved* are, of the safety properties that the runs check, all those of `Agent`,
`EventStream`, `FileMutationQueue`, `RequestRetries`, `CodexSockets`, `AuthStorage`,
`SettingsManager`, `GatewaySessions`, `SocketServer`, `MomChannel` and `Compaction`, the
labels, types and files of `SessionManager`, the types of `AgentSession`
with the order of its calls and compactions, the refinements of `Mailbox` and
`FifoLock`, and under `Undisturbed` (section 6) the place of tool results in a session;
each under the assumptions its section names and no other, and again, where
the run is about several parts, of the parts put together. *Checked only*, on
the instances above, are the liveness properties (out of the prover's reach), the contexts that `SessionManager` makes of its paths,
and what the runs say of answers, the terminal, plans and of what else a session around
an agent makes of its messages (section 6 says why). What `Orchestrator` and `StdinBuffer`
compute is recursive, and the screen and the answers fold over sequences: each lemma
about them needs an induction over a set of sequences of its own.

*Abstracted*: the text of messages, entries, files and prompts; token counts, except in
`Compaction` (elsewhere a compaction may choose any cut point that `prepareCompaction`
may); times, except for the order of timers. *Left out* of the modelled components:
`agentLoop` and `agentLoopContinue`, which push the events of the same loop into an
`EventStream`; a `writeFile` that fails half way; migration of old session files,
listing of sessions, two processes on one session file, and the extension events
around a switch; models, thinking levels, tools and templates of `AgentSession`, and
branches beside the path that it navigates; `google-vertex.ts` (`google.ts` over
again), what providers put into requests, usage, signatures, tool calls without an
id and messages of WebSockets that arrive as blobs; runtime overrides and environment
keys of credentials; the project scope of settings; overlay focus, the editor and the
meaning of keys; authentication, configuration and the event bus of the gateway; what
mom posts, its tools and the watcher of its event files. Crashes are modelled where
something is kept: sessions, credentials, mom's channel, plans. Components not modelled
are in section 1 and in `PROJECT.json`, with the hazards they hold.
