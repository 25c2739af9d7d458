------------------------------ MODULE MCStreams -------------------------------
(***************************************************************************)
(* Small instances of what lies between a request and those who read its   *)
(* answer, and of the queue of file mutations: the parts that wait.  They   *)
(* share no state; a variable is that of the part at work, or Unused, and   *)
(* those of EventStream, which is extended, are as they were first.         *)
(***************************************************************************)
EXTENDS EventStream, TLC

CONSTANTS
  Parts,                          \* the parts to check
  o1, o2, o3, target, alias, NoOp, \* file mutations
  MaxBlocks, MaxPieces, MaxWire, Answers, \* answers
  s1, s2, s3, Connections         \* connections

VARIABLES
  part,
  status, job, key, currentQueue, fileMutationQueues, io, aborted, read,
  exists, landed, calls,
  said, limited, phase, currentBlock, started, emptyAttempt, wire, client,
  attempt, endpointIndex, replies,
  socket, mode, starts, open, owed, websocketSessionCache, busy, timer,
  place, messages, outcome, content, provider

Op == {o1, o2, o3}
Path == {target, alias}
Client == {s1, s2, s3}

Everyone == {"anthropic", "bedrock", "openai-completions", "openai-responses",
             "mistral", "google", "gemini-cli"}

\* An alias and its target, which exists; and one that writes create, with aborts.
Edits == INSTANCE FileMutationQueue WITH
  Tools <- {"edit", "write"}, RealOf <- [p \in Path |-> target], Existing <- {target},
  Aborts <- FALSE, result <- outcome
Writes == INSTANCE FileMutationQueue WITH
  Op <- {o1, o2}, Tools <- {"write"}, RealOf <- [p \in Path |-> target], Existing <- {},
  Aborts <- TRUE, result <- outcome
Answer == INSTANCE ProviderStream WITH
  Providers <- Everyone, Interleaving <- {"anthropic", "bedrock", "mistral"},
  MaxWire <- MaxWire, MaxEmptyStreamRetries <- 2, Happens <- Answers
Request == INSTANCE RequestRetries WITH
  Providers <- {"gemini-cli", "codex"}, Endpoints <- 3, MaxRetries <- 3,
  at <- place, result <- outcome
Connection == INSTANCE CodexSockets WITH
  Stream <- Client, MaxSockets <- 3, Happens <- Connections, at <- place, got <- messages

ASSUME Assumptions ==
  /\ StreamAssumption /\ Edits!QueueAssumption /\ Writes!QueueAssumption
  /\ Answer!ProviderAssumption /\ Request!RetryAssumption /\ Connection!SocketsAssumption

editVars == <<status, job, key, currentQueue, fileMutationQueues, io, aborted, read,
              exists, landed, calls>>
answerVars == <<said, limited, phase, currentBlock, started, emptyAttempt, wire, client>>
requestVars == <<attempt, endpointIndex, replies>>
socketVars == <<socket, mode, starts, open, owed, websocketSessionCache, busy, timer>>
sharedVars == <<place, messages, outcome, content, provider>>
streamsVars == <<part, vars, editVars, answerVars, requestVars, socketVars, sharedVars>>

Unused == "unused"
EditsOff ==
  /\ status = Unused /\ job = Unused /\ key = Unused /\ currentQueue = Unused
  /\ fileMutationQueues = Unused /\ io = Unused /\ aborted = Unused /\ read = Unused
  /\ exists = Unused /\ landed = Unused /\ calls = Unused
AnswerOff ==
  /\ said = Unused /\ limited = Unused /\ phase = Unused /\ currentBlock = Unused
  /\ started = Unused /\ emptyAttempt = Unused /\ wire = Unused /\ client = Unused
RequestOff == attempt = Unused /\ endpointIndex = Unused /\ replies = Unused
SocketsOff ==
  /\ socket = Unused /\ mode = Unused /\ starts = Unused /\ open = Unused /\ owed = Unused
  /\ websocketSessionCache = Unused /\ busy = Unused /\ timer = Unused

StreamsInit ==
  /\ part \in Parts /\ Init
  /\ IF part = "edits" THEN Edits!Init ELSE IF part = "writes" THEN Writes!Init ELSE EditsOff
  /\ IF part = "answers" THEN Answer!Init ELSE AnswerOff
  /\ IF part = "requests" THEN Request!Init ELSE RequestOff
  /\ IF part = "sockets" THEN Connection!Init ELSE SocketsOff
  /\ part \notin {"requests", "sockets"} => place = Unused
  /\ part # "sockets" => messages = Unused
  /\ part \notin {"edits", "writes", "requests"} => outcome = Unused
  /\ part \notin {"edits", "writes", "answers"} => content = Unused
  /\ part \notin {"answers", "requests"} => provider = Unused

Editing == part \in {"edits", "writes"}
Calls == IF part = "edits" THEN Op ELSE IF part = "writes" THEN {o1, o2} ELSE {}

\* What the steps of a part leave alone.
InStream ==
  /\ part = "stream"
  /\ UNCHANGED <<part, editVars, answerVars, requestVars, socketVars, sharedVars>>
InEdits ==
  /\ part \in {"edits", "writes"}
  /\ UNCHANGED <<part, vars, answerVars, requestVars, socketVars, place, messages, provider>>
InAnswers ==
  /\ part = "answers"
  /\ UNCHANGED <<part, vars, editVars, requestVars, socketVars, place, messages, outcome>>
InRequests ==
  /\ part = "requests"
  /\ UNCHANGED <<part, vars, editVars, answerVars, socketVars, messages, content>>
InSockets ==
  /\ part = "sockets"
  /\ UNCHANGED <<part, vars, editVars, answerVars, requestVars, outcome, content, provider>>

StreamMoves == InStream /\ Next
EditsMove == InEdits /\ ((part = "edits" /\ Edits!Next) \/ (part = "writes" /\ Writes!Next))
AnswerMoves == InAnswers /\ Answer!Next
RequestMoves == InRequests /\ Request!Next
SocketsMove == InSockets /\ Connection!Next

StreamsNext == StreamMoves \/ EditsMove \/ AnswerMoves \/ RequestMoves \/ SocketsMove
StreamsSpec == StreamsInit /\ [][StreamsNext]_streamsVars

\* The steps the parts' own fairness is about: what has been asked for is answered
\* or fails, timers fire, and callbacks run.  No part can go on for ever, so that
\* fairness of them together is enough.
StreamsProgress ==
  \/ InStream /\ Progress
  \/ InEdits /\ ((part = "edits" /\ Edits!Progress) \/ (part = "writes" /\ Writes!Progress))
  \/ InAnswers /\ Answer!Progress
  \/ InRequests /\ Request!Progress
  \/ InSockets /\ Connection!Progress
FairSpec == StreamsSpec /\ WF_streamsVars(StreamsProgress)

-----------------------------------------------------------------------------
\* One file is mutated by one tool at a time, under any of its names
\* (withFileMutationQueue in file-mutation-queue.ts).
FileExclusion == part = "edits" => Edits!FileExclusion

\* No edit is lost (withFileMutationQueue in file-mutation-queue.ts, edit.ts, write.ts).
NoLostEdit == part = "edits" => Edits!NoLostEdit

\* The calls for a file are served in the order they were made
\* (withFileMutationQueue in file-mutation-queue.ts).
Lock == INSTANCE FifoLock WITH
  Lock <- Path, Client <- Op,
  arrivals <- IF Editing THEN Edits!Arrivals ELSE <<>>,
  left <- {o \in Calls : status[o] = "done"},
  holders <- [k \in Path |-> {o \in Calls : status[o] = "running" /\ key[o] = k}]
ImplementsFifoLock == Lock!Spec

\* The answer the events tell is the answer (the providers and proxy.ts).
AnswersArriveWhole == part = "answers" => Answer!AnswersArriveWhole

\* A request is retried as long as it may be and no longer (google-gemini-cli.ts,
\* openai-codex-responses.ts).
RetriesAreBounded == part = "requests" => Request!RetriesAreBounded

\* A connection serves one stream at a time (openai-codex-responses.ts).
SocketsServeOneStream == part = "sockets" => Connection!SocketsServeOneStream

\* Everything comes to its end: those who iterate, the events, the calls that
\* queue for a file, answers, requests and connections (event-stream.ts,
\* file-mutation-queue.ts, the providers).
StreamsEnd ==
  <>[](/\ part = "stream" => Ended
       /\ part = "edits" => Edits!Ended
       /\ part = "writes" => Writes!Ended
       /\ part = "answers" => client.status # "live"
       /\ part = "requests" => place = "over"
       /\ part = "sockets" => open = {})

\* "If the server's requested delay exceeds this value, the request fails
\* immediately" (ai/src/types.ts:94; google-gemini-cli.ts retries it).
LongDelaysFailAtOnce == part = "requests" => Request!LongDelaysFailAtOnce

\* "Here toolCall.arguments is complete" (ai/README.md:306; not when the answer
\* reached its limit).
EndedCallsAreComplete == part = "answers" => Answer!EndedCallsAreComplete

\* A stream "must terminate with either" done or error (ai/src/types.ts:232; a
\* proxy's connection that closes early ends it without).
AnswerSettles == <>(part = "answers" => Answer!Settled)
===============================================================================
