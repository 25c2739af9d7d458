----------------------------- MODULE AgentProofs -----------------------------
(***************************************************************************)
(* Proofs about the agent for every value of its constants.                *)
(***************************************************************************)
EXTENDS AgentProperties, SequenceTheorems, FiniteSetTheorems, TLAPS

\* A function on 1..n with values in S is a sequence over S.
LEMMA FunctionIsSeq ==
  ASSUME NEW S, NEW n \in Nat, NEW f \in [1..n -> S]
  PROVE  f \in Seq(S)
BY SeqDef

\* The messages the loop builds are messages.
LEMMA BuiltMessages ==
  ASSUME NEW n \in Nat, NEW k \in Nat
  PROVE  /\ \A kind \in {"prompt", "steer", "followUp"} : User(kind, n) \in Known
         /\ \A kind \in {"start", "delta", "stop", "error", "aborted"} :
              Assistant(kind, n, k) \in Known
         /\ \A ok \in BOOLEAN : ToolResult(n, k, ok) \in Known
         /\ NoMessage \in Message
BY DEF User, Assistant, ToolResult, Known, Message, NoMessage, Kinds

\* The events the loop announces are events.
LEMMA BuiltEvents ==
  /\ \A t \in EventTypes : <<Notice(t)>> \in Seq(Event)
  /\ \A t, u \in EventTypes : <<Notice(t), Notice(u)>> \in Seq(Event)
  /\ \A m \in Known, t \in EventTypes :
       /\ <<TurnEnd(m)>> \in Seq(Event)
       /\ <<TurnEnd(m), Notice(t)>> \in Seq(Event)
  /\ \A t \in EventTypes, c \in CallId : <<ToolNotice(t, c)>> \in Seq(Event)
<1>1. \A t \in EventTypes : Notice(t) \in Event
  BY DEF Notice, Event, NoCall, CallId
<1>2. \A m \in Known : TurnEnd(m) \in Event
  BY DEF TurnEnd, Event, EventTypes, NoCall, CallId, Failed
<1>3. \A t \in EventTypes, c \in CallId : ToolNotice(t, c) \in Event
  BY DEF ToolNotice, Event
<1> QED BY <1>1, <1>2, <1>3

\* Draining a queue splits it: what is returned, then what stays.
LEMMA DrainSplits ==
  ASSUME NEW S, NEW q \in Seq(S), NEW mode
  PROVE  /\ Drained(mode, q) \in Seq(S)
         /\ AfterDrain(mode, q) \in Seq(S)
         /\ q # <<>> => Drained(mode, q) # <<>>
BY DEF Drained, AfterDrain

\* Front and Last of a nonempty sequence.
LEMMA FrontLast ==
  ASSUME NEW S, NEW s \in Seq(S), s # <<>>
  PROVE  /\ Last(s) \in S
         /\ Front(s) \in Seq(S)
BY DEF Front, Last

\* Appending to a sequence keeps its type and leaves it nonempty.
LEMMA Appended ==
  ASSUME NEW S, NEW s \in Seq(S)
  PROVE  \A e \in S : Append(s, e) \in Seq(S) /\ Append(s, e) # <<>>
BY AppendProperties

\* Front undoes Append.
LEMMA FrontOfAppend ==
  ASSUME NEW S, NEW s \in Seq(S), NEW e \in S
  PROVE  /\ Front(Append(s, e)) = s
         /\ Last(Append(s, e)) = e
         /\ Append(s, e) # <<>>
BY DEF Front, Last

\* The identities in a queue are numbers.
LEMMA IdsAreNumbers ==
  ASSUME NEW q \in Seq(Known)
  PROVE  IdsOf(q) \subseteq Nat
<1>1. \A k \in DOMAIN q : q[k].id \in Nat
  BY ElementOfSeq, LenProperties DEF Known, Message
<1> QED BY <1>1 DEF IdsOf

-------------------------------------------------------------------------------
LEMMA TypeInit == Init => TypeOK
<1>1. "idle" \in Sections
  BY DEF Sections
<1>2. /\ <<>> \in Seq(Known) /\ <<>> \in Seq(Event)
      /\ <<>> \in Seq(Statuses) /\ <<>> \in Seq(Nat)
  OBVIOUS
<1>3. NoMessage \in Message
  BY BuiltMessages
<1>4. Init => FlagsOK
  BY DEF Init, FlagsOK
<1>5. Init => DataOK
  BY <1>1, <1>2, <1>3 DEF Init, DataOK
<1> QED BY <1>4, <1>5 DEF TypeOK

\* The application's calls keep the types.
LEMMA TypeApplication == TypeOK /\ Application => TypeOK'
<1> SUFFICES ASSUME TypeOK, Application PROVE TypeOK'
  OBVIOUS
<1> USE DEF TypeOK, FlagsOK, DataOK
<1>1. ASSUME NEW prompts \in Seq(Known), NEW skip \in BOOLEAN, StartRun(prompts, skip),
            created' \in Nat, steeringQueue' \in Seq(Known), followUpQueue' \in Seq(Known)
      PROVE  TypeOK'
  <2>1. <<Notice("agent_start"), Notice("turn_start")>> \in Seq(Event)
    BY BuiltEvents DEF EventTypes
  <2>2. "poll" \in Sections
    BY DEF Sections
  <2>3. /\ <<>> \in Seq(Known) /\ NoMessage \in Message
        /\ messages \o prompts \in Seq(Known) /\ Len(messages) \in Nat
    BY <1>1, BuiltMessages
  <2>4. FlagsOK'
    BY <1>1 DEF StartRun, Announce
  <2>5. /\ messages' = messages /\ streamingMessage' = NoMessage
        /\ UNCHANGED <<pendingToolCalls, orphans, steeringMode, followUpMode, exec, results>>
        /\ UNCHANGED <<turns, delivered, dropped>>
        /\ toolTurns' = toolTurns /\ runs' = runs + 1 /\ base' = Len(messages)
        /\ pc' = "poll" /\ context' = messages \o prompts /\ newMessages' = prompts
        /\ pending' = <<>> /\ owed' = prompts
        /\ notices' = <<Notice("agent_start"), Notice("turn_start")>>
    BY <1>1 DEF StartRun, Reported, Announce, modeVars, callVars, fateVars
  <2>6. DataOK'
    <3>1. /\ messages' \in Seq(Known) /\ streamingMessage' \in Message
          /\ pendingToolCalls' \subseteq CallId /\ orphans' \subseteq CallId
          /\ steeringMode' \in Modes /\ followUpMode' \in Modes
          /\ pc' \in Sections /\ notices' \in Seq(Event)
          /\ exec' \in Seq(Statuses) /\ results' \in Seq(Known)
      BY <2>1, <2>2, <2>3, <2>5
    <3>2. /\ context' \in Seq(Known) /\ newMessages' \in Seq(Known) /\ pending' \in Seq(Known)
          /\ owed' \in Seq(Known)
          /\ turns' \in Nat /\ toolTurns' \in Nat /\ runs' \in Nat
          /\ base' \in Nat /\ delivered' \in Seq(Nat) /\ dropped' \subseteq Nat
      BY <2>3, <2>5
    <3> QED BY <1>1, <3>1, <3>2
  <2> QED BY <2>4, <2>6 DEF TypeOK
<1>2. CASE Prompt
  <2>1. PICK n \in 1..MaxPrompt :
          /\ created' = created + n
          /\ StartRun([k \in 1..n |-> User("prompt", created + k)], FALSE)
          /\ UNCHANGED queueVars
    BY <1>2 DEF Prompt
  <2>2. [k \in 1..n |-> User("prompt", created + k)] \in Seq(Known)
    <3>1. \A k \in 1..n : User("prompt", created + k) \in Known
      BY BuiltMessages
    <3> QED BY <3>1, FunctionIsSeq
  <2>3. created' \in Nat
    BY <2>1
  <2> QED BY <1>1, <2>1, <2>2, <2>3 DEF queueVars
<1>3. CASE ContinueTranscript
  BY <1>1, <1>3, EmptySeq DEF ContinueTranscript, queueVars
<1>4. CASE ContinueQueued
  BY <1>1, <1>4, DrainSplits DEF ContinueQueued
<1>5. CASE Steer
  BY <1>5, BuiltMessages, AppendProperties
     DEF Steer, AppFrame, stateVars, queueVars, modeVars, localVars,
         emitVars, callVars, endVars
<1>6. CASE FollowUp
  BY <1>6, BuiltMessages, AppendProperties
     DEF FollowUp, AppFrame, stateVars, queueVars, modeVars, localVars,
         emitVars, callVars, endVars
<1>7. CASE ClearSteeringQueue
  BY <1>7, IdsAreNumbers, EmptySeq, ZenonT(30)
     DEF ClearSteeringQueue, AppFrame, stateVars, queueVars, modeVars, localVars,
         emitVars, callVars, endVars
<1>8. CASE ClearFollowUpQueue
  BY <1>8, IdsAreNumbers, EmptySeq, ZenonT(30)
     DEF ClearFollowUpQueue, AppFrame, stateVars, queueVars, modeVars, localVars,
         emitVars, callVars, endVars
<1>9. CASE SetSteeringMode
  BY <1>9 DEF SetSteeringMode, AppFrame, stateVars, queueVars, modeVars, localVars,
         emitVars, callVars, endVars
<1>10. CASE SetFollowUpMode
  BY <1>10 DEF SetFollowUpMode, AppFrame, stateVars, queueVars, modeVars, localVars,
         emitVars, callVars, endVars
<1>11. CASE Abort
  BY <1>11 DEF Abort, AppFrame, stateVars, queueVars, modeVars, localVars,
         emitVars, callVars, endVars
<1>12. CASE Reset
  BY <1>12, IdsAreNumbers, EmptySeq, BuiltMessages
     DEF Reset, AppFrame, stateVars, queueVars, modeVars, localVars,
         emitVars, callVars, endVars
<1>13. CASE TrimFailedAnswer
  BY <1>13, FrontLast DEF TrimFailedAnswer, AppFrame, stateVars, queueVars, modeVars, localVars,
         emitVars, callVars, endVars
<1> QED BY <1>2, <1>3, <1>4, <1>5, <1>6, <1>7, <1>8, <1>9, <1>10, <1>11, <1>12, <1>13 DEF Application

\* The identities of messages in flight are numbers.
LEMMA InFlightAreNumbers == DataOK => InFlight \subseteq Nat
<1>1. \A m \in Known : m.id \in Nat
  BY DEF Known, Message
<1>2. DataOK => ToSet(owed) \subseteq Known /\ ToSet(pending) \subseteq Known
  BY ElementOfSeq, LenProperties DEF DataOK, ToSet
<1> QED BY <1>1, <1>2 DEF InFlight

\* So are the names of the executing calls.
LEMMA ExecutingAreCalls == DataOK => Executing \subseteq CallId
<1>1. DataOK => DOMAIN exec \subseteq Nat
  BY LenProperties DEF DataOK
<1> QED BY <1>1 DEF Executing, CallId, DataOK

\* Emitting an event keeps the types.
LEMMA TypeEmit == TypeOK /\ Emit => TypeOK'
<1> SUFFICES ASSUME TypeOK, Emit PROVE FlagsOK' /\ DataOK'
  BY DEF TypeOK
<1> USE DEF TypeOK, FlagsOK, DataOK, LoopFrame, stateVars, queueVars, modeVars,
            localVars, emitVars, callVars, endVars, fateVars, countVars, runVars,
            Quiet, Announce
<1>1. CASE EmitNotice
  <2>1. PendingAfter(Head(notices)) \subseteq CallId
    <3>1. Head(notices) \in Event
      BY <1>1 DEF EmitNotice
    <3>2. Head(notices).call \in CallId
      BY <3>1 DEF Event
    <3> QED BY <3>2 DEF PendingAfter
  <2>2. Tail(notices) \in Seq(Event)
    BY <1>1 DEF EmitNotice
  <2>3. NoMessage \in Message
    BY BuiltMessages
  <2>4. FlagsOK'
    BY <1>1 DEF EmitNotice, Reduce
  <2>5. DataOK'
    BY <1>1, <2>1, <2>2, <2>3 DEF EmitNotice, Reduce
  <2> QED BY <2>4, <2>5
<1>2. CASE EmitMessageStart
  <2>1. Head(owed) \in Message
    BY <1>2 DEF EmitMessageStart, Known
  <2>2. FlagsOK'
    BY <1>2 DEF EmitMessageStart
  <2>3. DataOK'
    BY <1>2, <2>1 DEF EmitMessageStart
  <2> QED BY <2>2, <2>3
<1>3. CASE EmitMessageEnd
  <2>1. Head(owed) \in Known /\ Tail(owed) \in Seq(Known)
    BY <1>3 DEF EmitMessageEnd
  <2>2. Head(owed).id \in Nat
    BY <2>1 DEF Known, Message
  <2>3. NoMessage \in Message
    BY BuiltMessages
  <2>4. Append(messages, Head(owed)) \in Seq(Known) /\ Append(delivered, Head(owed).id) \in Seq(Nat)
    BY <2>1, <2>2
  <2>5. FlagsOK'
    BY <1>3 DEF EmitMessageEnd
  <2>6. DataOK'
    BY <1>3, <2>1, <2>2, <2>3, <2>4 DEF EmitMessageEnd
  <2> QED BY <2>5, <2>6
<1> QED BY <1>1, <1>2, <1>3 DEF Emit

\* Polling the queues and injecting messages keeps the types.
LEMMA TypeQueues == TypeOK /\ Resumable /\ QueueSteps => TypeOK'
<1> SUFFICES ASSUME TypeOK, Resumable, QueueSteps PROVE FlagsOK' /\ DataOK'
  BY DEF TypeOK
<1> USE DEF TypeOK, FlagsOK, DataOK, LoopFrame, stateVars, queueVars, modeVars,
            localVars, emitVars, callVars, endVars, fateVars, countVars, runVars,
            Quiet, Announce
<1>1. CASE PollAtStart
  <2>1. "inject" \in Sections
    BY DEF Sections
  <2>2. <<>> \in Seq(Known) /\ <<>> \in Seq(Event) /\ <<>> \in Seq(Statuses)
    OBVIOUS
  <2>3. Drained(steeringMode, steeringQueue) \in Seq(Known) /\ AfterDrain(steeringMode, steeringQueue) \in Seq(Known)
    BY DrainSplits
  <2>4. FlagsOK'
    BY <1>1 DEF PollAtStart, At
  <2>5. DataOK'
    BY <1>1, <2>1, <2>2, <2>3 DEF PollAtStart, At
  <2> QED BY <2>4, <2>5
<1>2. CASE EmitPending
  <2>1. "injected" \in Sections
    BY DEF Sections
  <2>2. <<Head(pending)>> \in Seq(Known)
    BY <1>2 DEF EmitPending
  <2>3. <<>> \in Seq(Known) /\ <<>> \in Seq(Event) /\ <<>> \in Seq(Statuses)
    OBVIOUS
  <2>4. FlagsOK'
    BY <1>2 DEF EmitPending, At
  <2>5. DataOK'
    BY <1>2, <2>1, <2>2, <2>3 DEF EmitPending, At
  <2> QED BY <2>4, <2>5
<1>3. CASE InjectPending
  <2>1. "inject" \in Sections
    BY DEF Sections
  <2>2. pending # <<>>
    BY <1>3 DEF InjectPending, At, Resumable
  <2>3. FlagsOK'
    BY <1>3 DEF InjectPending, At
  <2>4. DataOK'
    BY <1>3, <2>1, <2>2 DEF InjectPending, At
  <2> QED BY <2>3, <2>4
<1>4. CASE AllInjected
  <2>1. "request" \in Sections
    BY DEF Sections
  <2>2. FlagsOK'
    BY <1>4 DEF AllInjected, At
  <2>3. DataOK'
    BY <1>4, <2>1 DEF AllInjected, At
  <2> QED BY <2>2, <2>3
<1>5. CASE PollAfterTurn
  <2>1. "inject" \in Sections /\ "stopping" \in Sections
    BY DEF Sections
  <2>2. <<Notice("turn_start")>> \in Seq(Event)
    BY BuiltEvents DEF EventTypes
  <2>3. Drained(steeringMode, steeringQueue) \in Seq(Known) /\ AfterDrain(steeringMode, steeringQueue) \in Seq(Known)
    BY DrainSplits
  <2>4. <<>> \in Seq(Known) /\ <<>> \in Seq(Event) /\ <<>> \in Seq(Statuses)
    OBVIOUS
  <2>5. FlagsOK'
    BY <1>5 DEF PollAfterTurn, Inject, At
  <2>6. DataOK'
    BY <1>5, <2>1, <2>2, <2>3, <2>4 DEF PollAfterTurn, Inject, At
  <2> QED BY <2>5, <2>6
<1>6. CASE PollBeforeStop
  <2>1. "inject" \in Sections /\ "end" \in Sections
    BY DEF Sections
  <2>2. <<Notice("turn_start")>> \in Seq(Event)
    BY BuiltEvents DEF EventTypes
  <2>3. <<Notice("agent_end")>> \in Seq(Event)
    BY BuiltEvents DEF EventTypes
  <2>4. Drained(followUpMode, followUpQueue) \in Seq(Known) /\ AfterDrain(followUpMode, followUpQueue) \in Seq(Known)
    BY DrainSplits
  <2>5. <<>> \in Seq(Known) /\ <<>> \in Seq(Event) /\ <<>> \in Seq(Statuses)
    OBVIOUS
  <2>6. FlagsOK'
    BY <1>6 DEF PollBeforeStop, Inject, At
  <2>7. DataOK'
    BY <1>6, <2>1, <2>2, <2>3, <2>4, <2>5 DEF PollBeforeStop, Inject, At
  <2> QED BY <2>6, <2>7
<1> QED BY <1>1, <1>2, <1>3, <1>4, <1>5, <1>6 DEF QueueSteps

\* A rejection keeps the types.
LEMMA TypeThrows == TypeOK /\ Resumable /\ Throws => TypeOK'
<1> SUFFICES ASSUME TypeOK, Resumable, Throws PROVE FlagsOK' /\ DataOK'
  BY DEF TypeOK
<1> USE DEF TypeOK, FlagsOK, DataOK, LoopFrame, stateVars, queueVars, modeVars,
            localVars, emitVars, callVars, endVars, fateVars, countVars, runVars,
            Quiet, Announce
<1>1. CASE ListenerThrows
  <2>1. "throw" \in Sections
    BY DEF Sections
  <2>2. <<>> \in Seq(Known) /\ <<>> \in Seq(Event) /\ <<>> \in Seq(Statuses)
    OBVIOUS
  <2>3. InFlight \subseteq Nat
    BY InFlightAreNumbers
  <2>4. FlagsOK'
    BY <1>1 DEF ListenerThrows, Throw
  <2>5. DataOK'
    BY <1>1, <2>1, <2>2, <2>3 DEF ListenerThrows, Throw
  <2> QED BY <2>4, <2>5
<1>2. CASE FailureListenerThrows
  <2>1. FlagsOK'
    BY <1>2 DEF FailureListenerThrows
  <2>2. DataOK'
    BY <1>2 DEF FailureListenerThrows
  <2> QED BY <2>1, <2>2
<1>3. CASE RequestThrows
  <2>1. "throw" \in Sections
    BY DEF Sections
  <2>2. <<>> \in Seq(Known) /\ <<>> \in Seq(Event) /\ <<>> \in Seq(Statuses)
    OBVIOUS
  <2>3. InFlight \subseteq Nat
    BY InFlightAreNumbers
  <2>4. FlagsOK'
    BY <1>3 DEF RequestThrows, Throw
  <2>5. DataOK'
    BY <1>3, <2>1, <2>2, <2>3 DEF RequestThrows, Throw
  <2> QED BY <2>4, <2>5
<1>4. CASE \E i \in CallIndices : ExecutionThrows(i)
  <2>1. "throw" \in Sections
    BY DEF Sections
  <2>2. <<>> \in Seq(Known) /\ <<>> \in Seq(Event) /\ <<>> \in Seq(Statuses)
    OBVIOUS
  <2>3. InFlight \subseteq Nat
    BY InFlightAreNumbers
  <2>4. FlagsOK'
    BY <1>4 DEF ExecutionThrows, Throw
  <2>5. DataOK'
    BY <1>4, <2>1, <2>2, <2>3 DEF ExecutionThrows, Throw
  <2> QED BY <2>4, <2>5
<1> QED BY <1>1, <1>2, <1>3, <1>4 DEF Throws

\* Whatever the provider answers is a message.
LEMMA AnswersAreMessages == turns \in Nat => Answers \subseteq Known
<1> SUFFICES ASSUME turns \in Nat PROVE Answers \subseteq Known
  OBVIOUS
<1>1. \A kind \in {"stop", "error", "aborted"}, n \in Nat :
        Assistant(kind, turns + 1, n) \in Known
  BY BuiltMessages
<1>2. (IF toolTurns < MaxToolTurns THEN 0..MaxCalls ELSE {0}) \subseteq Nat
  OBVIOUS
<1>3. (IF aborted THEN {"aborted", "error"} ELSE {"stop", "error"})
        \subseteq {"stop", "error", "aborted"}
  OBVIOUS
<1> QED BY <1>1, <1>2, <1>3 DEF Answers

\* The provider's steps keep the types.
LEMMA TypeProvider == TypeOK /\ Resumable /\ Provider => TypeOK'
<1> SUFFICES ASSUME TypeOK, Resumable, Provider PROVE FlagsOK' /\ DataOK'
  BY DEF TypeOK
<1> USE DEF TypeOK, FlagsOK, DataOK, LoopFrame, stateVars, queueVars, modeVars,
            localVars, emitVars, callVars, endVars, fateVars, countVars, runVars,
            Quiet, Announce
<1>1. CASE StreamStart
  <2>1. "streaming" \in Sections
    BY DEF Sections
  <2>2. Assistant("start", turns + 1, 0) \in Known
    BY BuiltMessages
  <2>3. Append(context, Assistant("start", turns + 1, 0)) \in Seq(Known)
    BY <2>2
  <2>4. Known \subseteq Message
    BY DEF Known
  <2>5. FlagsOK'
    BY <1>1 DEF StreamStart, Partial
  <2>6. DataOK'
    BY <1>1, <2>1, <2>2, <2>3, <2>4 DEF StreamStart, Partial
  <2> QED BY <2>5, <2>6
<1>2. CASE StreamUpdate
  <2>1. Assistant("delta", turns + 1, 0) \in Known
    BY BuiltMessages
  <2>2. Front(context) \in Seq(Known)
    BY FrontLast, <1>2 DEF StreamUpdate, At, Resumable
  <2>3. Append(Front(context), Assistant("delta", turns + 1, 0)) \in Seq(Known)
    BY <2>1, <2>2
  <2>4. Known \subseteq Message
    BY DEF Known
  <2>5. FlagsOK'
    BY <1>2 DEF StreamUpdate, Partial
  <2>6. DataOK'
    BY <1>2, <2>1, <2>2, <2>3, <2>4 DEF StreamUpdate, Partial
  <2> QED BY <2>5, <2>6
<1>3. CASE StreamFinal
  <2>1. "answered" \in Sections
    BY DEF Sections
  <2>2. Answers \subseteq Known
    BY AnswersAreMessages
  <2>3. \A m \in Answers : m.calls \in Nat
    BY <2>2 DEF Known, Message
  <2>4. pc = "streaming" => Front(context) \in Seq(Known)
    BY FrontLast DEF Resumable
  <2>5. context' \in Seq(Known) /\ owed' \in Seq(Known)
    BY <1>3, <2>2, <2>4 DEF StreamFinal
  <2>6. toolTurns' \in Nat
    BY <1>3 DEF StreamFinal
  <2>7. FlagsOK'
    BY <1>3 DEF StreamFinal
  <2>8. DataOK'
    BY <1>3, <2>1, <2>2, <2>3, <2>4, <2>5, <2>6 DEF StreamFinal
  <2> QED BY <2>7, <2>8
<1> QED BY <1>1, <1>2, <1>3 DEF Provider

\* The steps of a turn keep the types.
LEMMA TypeTurn == TypeOK /\ Resumable /\ TurnSteps => TypeOK'
<1> SUFFICES ASSUME TypeOK, Resumable, TurnSteps PROVE FlagsOK' /\ DataOK'
  BY DEF TypeOK
<1> USE DEF TypeOK, FlagsOK, DataOK, LoopFrame, stateVars, queueVars, modeVars,
            localVars, emitVars, callVars, endVars, fateVars, countVars, runVars,
            Quiet, Announce
<1>1. CASE Request
  <2>1. "stream" \in Sections
    BY DEF Sections
  <2>2. FlagsOK'
    BY <1>1 DEF Request, At
  <2>3. DataOK'
    BY <1>1, <2>1 DEF Request, At
  <2> QED BY <2>2, <2>3
<1>2. CASE TakeAnswer
  <2>1. "end" \in Sections /\ "tools" \in Sections
    BY DEF Sections
  <2>2. Last(context) \in Known
    BY FrontLast, <1>2 DEF TakeAnswer, At, Resumable
  <2>3. Last(context).calls \in Nat
    BY <2>2 DEF Known, Message
  <2>4. [i \in 1..Last(context).calls |-> "waiting"] \in Seq(Statuses)
    <3>1. "waiting" \in Statuses
      BY DEF Statuses
    <3> QED BY <2>3, <3>1, FunctionIsSeq
  <2>5. <<TurnEnd(Last(context)), Notice("agent_end")>> \in Seq(Event)
    BY <2>2, BuiltEvents DEF EventTypes
  <2>6. <<>> \in Seq(Known) /\ <<>> \in Seq(Event) /\ <<>> \in Seq(Statuses)
    OBVIOUS
  <2>7. (Last(context).calls > 0) \in BOOLEAN
    OBVIOUS
  <2>8. Append(newMessages, Last(context)) \in Seq(Known)
    BY <2>2
  <2>9. FlagsOK'
    BY <1>2, <2>7 DEF TakeAnswer, At
  <2>10. DataOK'
    BY <1>2, <2>1, <2>2, <2>3, <2>4, <2>5, <2>6, <2>7, <2>8 DEF TakeAnswer, At
  <2> QED BY <2>9, <2>10
<1>3. CASE \E i \in CallIndices : CallSteps(i)
  <2>1. PICK i \in CallIndices : CallSteps(i)
    BY <1>3
  <2>2. i \in DOMAIN exec /\ i \in Nat
    <3>1. i \in DOMAIN exec
      BY <2>1 DEF CallSteps, StartCall, RefuseCall, PrepareCall, Finalize, FirstOpenCall
    <3> QED BY <3>1 DEF CallIndices
  <2>3. \A status \in Statuses : [exec EXCEPT ![i] = status] \in Seq(Statuses)
    BY <2>2, ExceptSeq, LenProperties, SMTT(30)
  <2>4. {"starting", "prepared", "executing", "final"} \subseteq Statuses
    BY DEF Statuses
  <2>5. <<turns, i>> \in CallId
    BY <2>2 DEF CallId
  <2>6. \A t \in EventTypes : <<ToolNotice(t, <<turns, i>>)>> \in Seq(Event)
    BY <2>5, BuiltEvents
  <2>7. \A ok \in BOOLEAN : /\ <<ToolResult(turns, i, ok)>> \in Seq(Known)
                             /\ Append(results, ToolResult(turns, i, ok)) \in Seq(Known)
    BY <2>2, BuiltMessages
  <2>8. "tool_execution_start" \in EventTypes /\ "tool_execution_end" \in EventTypes
    BY DEF EventTypes
  <2>9. \A ok \in BOOLEAN : Outcome(i, ok) => FlagsOK' /\ DataOK'
    <3> SUFFICES ASSUME NEW ok \in BOOLEAN, Outcome(i, ok) PROVE FlagsOK' /\ DataOK'
      OBVIOUS
    <3>1. FlagsOK'
      BY DEF Outcome, ToolFrame
    <3>2. DataOK'
      BY <2>3, <2>4, <2>6, <2>7, <2>8 DEF Outcome, ToolFrame
    <3> QED BY <3>1, <3>2
  <2>10. CASE StartCall(i)
    <3>1. FlagsOK'
      BY <2>10 DEF StartCall, ToolFrame
    <3>2. DataOK'
      BY <2>10, <2>3, <2>4, <2>6, <2>8, EmptySeq DEF StartCall, ToolFrame
    <3> QED BY <3>1, <3>2
  <2>11. CASE RefuseCall(i)
    BY <2>9, <2>11 DEF RefuseCall
  <2>12. CASE PrepareCall(i)
    <3>1. FlagsOK'
      BY <2>12 DEF PrepareCall, ToolFrame
    <3>2. DataOK'
      BY <2>12, <2>3, <2>4 DEF PrepareCall, ToolFrame
    <3> QED BY <3>1, <3>2
  <2>13. CASE Finalize(i)
    <3>1. (exec[i] = "ok") \in BOOLEAN
      OBVIOUS
    <3> QED BY <2>9, <2>13, <3>1 DEF Finalize
  <2> QED BY <2>1, <2>10, <2>11, <2>12, <2>13 DEF CallSteps
<1>4. CASE LaunchCalls
  <2>1. exec' \in Seq(Statuses)
    <3>1. "executing" \in Statuses
      BY DEF Statuses
    <3>2. Len(exec) \in Nat /\ DOMAIN exec = 1..Len(exec) /\ exec \in [1..Len(exec) -> Statuses]
      BY LenProperties
    <3>3. exec' \in [1..Len(exec) -> Statuses]
      BY <1>4, <3>1, <3>2 DEF LaunchCalls
    <3> QED BY <3>2, <3>3, FunctionIsSeq
  <2>2. FlagsOK'
    BY <1>4 DEF LaunchCalls, ToolFrame
  <2>3. DataOK'
    BY <1>4, <2>1 DEF LaunchCalls, ToolFrame
  <2> QED BY <2>2, <2>3
<1>5. CASE EndTurn
  <2>1. "turnEnd" \in Sections
    BY DEF Sections
  <2>2. <<>> \in Seq(Known) /\ <<>> \in Seq(Event) /\ <<>> \in Seq(Statuses)
    OBVIOUS
  <2>3. Last(context) \in Known
    <3>1. context # <<>>
      BY <1>5 DEF EndTurn, At, Resumable
    <3> QED BY <3>1, FrontLast
  <2>4. <<TurnEnd(Last(context))>> \in Seq(Event)
    BY <2>3, BuiltEvents DEF EventTypes
  <2>5. context \o results \in Seq(Known) /\ newMessages \o results \in Seq(Known)
    OBVIOUS
  <2>6. Executing \subseteq CallId
    BY ExecutingAreCalls
  <2>7. FlagsOK'
    BY <1>5 DEF EndTurn, At
  <2>8. DataOK'
    BY <1>5, <2>1, <2>2, <2>3, <2>4, <2>5, <2>6 DEF EndTurn, At
  <2> QED BY <2>7, <2>8
<1> QED BY <1>1, <1>2, <1>3, <1>4, <1>5 DEF TurnSteps

\* The end of a run keeps the types.
LEMMA TypeRunEnds == TypeOK /\ Resumable /\ RunEnds => TypeOK'
<1> SUFFICES ASSUME TypeOK, Resumable, RunEnds PROVE FlagsOK' /\ DataOK'
  BY DEF TypeOK
<1> USE DEF TypeOK, FlagsOK, DataOK, LoopFrame, stateVars, queueVars, modeVars,
            localVars, emitVars, callVars, endVars, fateVars, countVars, runVars,
            Quiet, Announce
<1>1. CASE HandleRunFailure
  <2>1. "failed" \in Sections
    BY DEF Sections
  <2>2. <<>> \in Seq(Known) /\ <<>> \in Seq(Event) /\ <<>> \in Seq(Statuses)
    OBVIOUS
  <2>3. <<Notice("agent_end")>> \in Seq(Event)
    BY BuiltEvents DEF EventTypes
  <2>4. Assistant(IF aborted THEN "aborted" ELSE "error", 0, 0) \in Known
    BY BuiltMessages
  <2>5. messages' \in Seq(Known) /\ messages' # <<>>
    <3>1. messages' = Append(messages, Assistant(IF aborted THEN "aborted" ELSE "error", 0, 0))
      BY <1>1 DEF HandleRunFailure
    <3>2. \A m \in Known : Append(messages, m) \in Seq(Known) /\ Append(messages, m) # <<>>
      BY Appended
    <3> HIDE DEF FlagsOK, DataOK
    <3> QED BY <2>4, <3>1, <3>2, Zenon
  <2>6. <<Last(messages')>> \in Seq(Known)
    <3>1. Last(messages') \in Known
      BY <2>5, FrontLast
    <3> QED BY <3>1
  <2>7. Executing \subseteq CallId
    BY ExecutingAreCalls
  <2>8. FlagsOK'
    BY <1>1 DEF HandleRunFailure
  <2>9. DataOK'
    BY <1>1, <2>1, <2>2, <2>3, <2>4, <2>5, <2>6, <2>7 DEF HandleRunFailure
  <2> QED BY <2>8, <2>9
<1>2. CASE FinishRun
  <2>1. "idle" \in Sections
    BY DEF Sections
  <2>2. <<>> \in Seq(Known) /\ <<>> \in Seq(Event) /\ <<>> \in Seq(Statuses)
    OBVIOUS
  <2>3. NoMessage \in Message
    BY BuiltMessages
  <2>4. FlagsOK'
    BY <1>2 DEF FinishRun, RuntimeStateReset
  <2>5. DataOK'
    BY <1>2, <2>1, <2>2, <2>3 DEF FinishRun, RuntimeStateReset
  <2> QED BY <2>4, <2>5
<1> QED BY <1>1, <1>2 DEF RunEnds

\* The tools keep the types.
LEMMA TypeTools == TypeOK /\ Resumable /\ Tools => TypeOK'
<1> SUFFICES ASSUME TypeOK, Resumable, Tools PROVE FlagsOK' /\ DataOK'
  BY DEF TypeOK
<1> USE DEF TypeOK, FlagsOK, DataOK, LoopFrame, stateVars, queueVars, modeVars,
            localVars, emitVars, callVars, endVars, fateVars, countVars, runVars,
            Quiet, Announce
<1>1. CASE \E i \in CallIndices : ToolSettles(i)
  <2>1. exec' \in Seq(Statuses)
    <3>1. PICK i \in CallIndices : ToolSettles(i)
      BY <1>1
    <3>2. {"ok", "error", "rejected"} \subseteq Statuses
      BY DEF Statuses
    <3>3. PICK r \in Statuses : exec' = [exec EXCEPT ![i] = r]
      BY <3>1, <3>2 DEF ToolSettles
    <3> QED BY <3>1, <3>3, ExceptSeq, LenProperties DEF ToolSettles
  <2>2. FlagsOK'
    BY <1>1 DEF ToolSettles, ToolFrame
  <2>3. DataOK'
    BY <1>1, <2>1 DEF ToolSettles, ToolFrame
  <2> QED BY <2>2, <2>3
<1>2. CASE \E c \in orphans : OrphanSettles(c)
  <2>1. FlagsOK'
    BY <1>2 DEF OrphanSettles
  <2>2. DataOK'
    BY <1>2 DEF OrphanSettles
  <2> QED BY <2>1, <2>2
<1>3. CASE \E c \in Executing \cup orphans : ToolUpdate(c)
  <2>1. FlagsOK'
    BY <1>3 DEF ToolUpdate
  <2>2. DataOK'
    BY <1>3 DEF ToolUpdate
  <2> QED BY <2>1, <2>2
<1> QED BY <1>1, <1>2, <1>3 DEF Tools

-------------------------------------------------------------------------------
(* Which step each kind of run step is, for the invariants below.          *)

\* What resumes at an await finds the message it is about to use.
LEMMA ResumableNext == TypeOK /\ Resumable /\ [Next]_vars => Resumable'
<1> SUFFICES ASSUME TypeOK, Resumable, [Next]_vars PROVE Resumable'
  OBVIOUS
<1> USE DEF Resumable, localVars
<1>1. CASE Application
  <2>1. CASE Prompt \/ ContinueTranscript \/ ContinueQueued
    BY <2>1 DEF Prompt, ContinueTranscript, ContinueQueued, StartRun
  <2>2. CASE AppFrame
    BY <2>2 DEF AppFrame
  <2> QED BY <1>1, <2>1, <2>2
          DEF Application, Steer, FollowUp, ClearSteeringQueue, ClearFollowUpQueue,
              SetSteeringMode, SetFollowUpMode, Abort, Reset, TrimFailedAnswer
<1>2. CASE Emit
  BY <1>2 DEF Emit, EmitNotice, EmitMessageStart, EmitMessageEnd
<1>3. CASE QueueSteps
  BY <1>3 DEF QueueSteps, PollAtStart, EmitPending, InjectPending, AllInjected,
              PollAfterTurn, PollBeforeStop, Inject
<1>4. CASE TurnSteps
  <2>1. CASE Request \/ LaunchCalls \/ EndTurn
    BY <2>1 DEF Request, LaunchCalls, EndTurn, ToolFrame
  <2>2. CASE TakeAnswer
    BY <2>2 DEF TakeAnswer, At
  <2>3. CASE \E i \in CallIndices : CallSteps(i)
    BY <2>3 DEF CallSteps, StartCall, RefuseCall, PrepareCall, Finalize, Outcome, ToolFrame
  <2> QED BY <1>4, <2>1, <2>2, <2>3 DEF TurnSteps
<1>5. CASE RunEnds
  BY <1>5 DEF RunEnds, HandleRunFailure, FinishRun
<1>6. CASE Throws
  BY <1>6 DEF Throws, ListenerThrows, FailureListenerThrows, RequestThrows,
              ExecutionThrows, Throw
<1>7. CASE Provider
  <2>1. \A s \in Seq(Known), e \in Known : Append(s, e) # <<>>
    BY AppendProperties
  <2>2. CASE StreamStart
    <3>1. Assistant("start", turns + 1, 0) \in Known
      BY BuiltMessages DEF TypeOK, DataOK
    <3> QED BY <2>1, <2>2, <3>1 DEF StreamStart, TypeOK, DataOK
  <2>3. CASE StreamUpdate
    <3>1. Assistant("delta", turns + 1, 0) \in Known
      BY BuiltMessages DEF TypeOK, DataOK
    <3>2. Front(context) \in Seq(Known)
      BY <2>3, FrontLast DEF StreamUpdate, At, TypeOK, DataOK
    <3>3. Append(Front(context), Assistant("delta", turns + 1, 0)) # <<>>
      BY <2>1, <3>1, <3>2
    <3> QED BY <2>3, <3>3 DEF StreamUpdate, At
  <2>4. CASE StreamFinal
    <3>1. TypeOK'
      BY <2>4, TypeProvider DEF Provider
    <3>2. PICK m \in Answers :
            context' = Append(IF pc = "streaming" THEN Front(context) ELSE context, m)
      BY <2>4 DEF StreamFinal
    <3>3. pc = "streaming" => Front(context) \in Seq(Known)
      BY FrontLast DEF TypeOK, DataOK
    <3>4. Answers \subseteq Known
      BY AnswersAreMessages DEF TypeOK, DataOK
    <3>5. context' # <<>>
      BY <2>1, <3>2, <3>3, <3>4 DEF TypeOK, DataOK
    <3> QED BY <2>4, <3>5 DEF StreamFinal
  <2> QED BY <1>7, <2>2, <2>3, <2>4 DEF Provider
<1>8. CASE Tools
  BY <1>8 DEF Tools, ToolSettles, OrphanSettles, ToolUpdate, ToolFrame
<1>9. CASE UNCHANGED vars
  BY <1>9 DEF vars
<1> QED BY <1>1, <1>2, <1>3, <1>4, <1>5, <1>6, <1>7, <1>8, <1>9 DEF Next, Inner

\* The types are kept by every step.
LEMMA TypeNext == TypeOK /\ Resumable /\ [Next]_vars => TypeOK'
<1>1. TypeOK /\ UNCHANGED vars => TypeOK'
  BY DEF vars, TypeOK, FlagsOK, DataOK, runVars, stateVars, queueVars, modeVars,
         localVars, emitVars, callVars, countVars, fateVars, endVars
<1> QED BY <1>1, TypeApplication, TypeEmit, TypeQueues, TypeTurn, TypeRunEnds,
           TypeThrows, TypeProvider, TypeTools DEF Next, Inner

\* The agent's state is well typed at every await, for all bounds, modes and
\* faults (packages/agent/src/agent.ts, agent-loop.ts).
THEOREM TypeCorrect == Spec => [](TypeOK /\ Resumable)
<1>1. Init => TypeOK /\ Resumable
  BY TypeInit DEF Init, Resumable
<1>2. (TypeOK /\ Resumable) /\ [Next]_vars => (TypeOK /\ Resumable)'
  BY TypeNext, ResumableNext
<1> QED BY <1>1, <1>2, PTL DEF Spec

-------------------------------------------------------------------------------
\* A run in progress, what is left of one that failed, and an idle agent.
LEMMA PhasesNext == RunPhases /\ IdleIsClean /\ [Next]_vars => RunPhases' /\ IdleIsClean'
<1> SUFFICES ASSUME RunPhases, IdleIsClean, [Next]_vars PROVE RunPhases' /\ IdleIsClean'
  OBVIOUS
<1> USE DEF RunPhases, IdleIsClean, localVars, emitVars, callVars, stateVars, LoopFrame,
            Announce, Quiet
<1>1. CASE Application
  <2>1. CASE Prompt \/ ContinueTranscript \/ ContinueQueued
    BY <2>1 DEF Prompt, ContinueTranscript, ContinueQueued, StartRun
  <2>2. CASE AppFrame /\ UNCHANGED <<isStreaming, streamingMessage, pendingToolCalls>>
    BY <2>2 DEF AppFrame
  <2>3. CASE Reset
    BY <2>3 DEF Reset, AppFrame
  <2> QED BY <1>1, <2>1, <2>2, <2>3
          DEF Application, Steer, FollowUp, ClearSteeringQueue, ClearFollowUpQueue,
              SetSteeringMode, SetFollowUpMode, Abort, TrimFailedAnswer
<1>2. CASE Emit
  BY <1>2 DEF Emit, EmitNotice, Reduce, EmitMessageStart, EmitMessageEnd
<1>3. CASE QueueSteps
  BY <1>3 DEF QueueSteps, PollAtStart, EmitPending, InjectPending, AllInjected,
              PollAfterTurn, PollBeforeStop, Inject, At
<1>4. CASE TurnSteps
  <2>1. CASE Request \/ LaunchCalls \/ EndTurn
    BY <2>1 DEF Request, LaunchCalls, EndTurn, ToolFrame, At
  <2>2. CASE TakeAnswer
    BY <2>2 DEF TakeAnswer, At
  <2>3. CASE \E i \in CallIndices : CallSteps(i)
    <3>1. PICK i \in CallIndices : CallSteps(i)
      BY <2>3
    <3>2. pc = "tools" /\ pc' = "tools" /\ ToolFrame
      BY <3>1 DEF CallSteps, StartCall, RefuseCall, PrepareCall, Finalize, Outcome, At
    <3>3. activeRun
      BY <3>2
    <3> QED BY <3>2, <3>3 DEF ToolFrame
  <2> QED BY <1>4, <2>1, <2>2, <2>3 DEF TurnSteps
<1>5. CASE RunEnds
  BY <1>5 DEF RunEnds, HandleRunFailure, FinishRun, RunOver, RuntimeStateReset, At
<1>6. CASE Throws
  <2>1. CASE ListenerThrows
    BY <2>1 DEF ListenerThrows, Throw
  <2>2. CASE FailureListenerThrows
    BY <2>2 DEF FailureListenerThrows
  <2>3. CASE RequestThrows \/ \E i \in CallIndices : ExecutionThrows(i)
    BY <2>3 DEF RequestThrows, ExecutionThrows, Throw, At
  <2> QED BY <1>6, <2>1, <2>2, <2>3 DEF Throws
<1>7. CASE Provider
  BY <1>7 DEF Provider, StreamStart, StreamUpdate, StreamFinal, Partial, At
<1>8. CASE Tools
  <2>1. CASE \E i \in CallIndices : ToolSettles(i)
    <3>1. exec # <<>>
      BY <2>1 DEF ToolSettles
    <3>2. activeRun
      BY <3>1
    <3> QED BY <2>1, <3>1, <3>2 DEF ToolSettles, ToolFrame
  <2>2. CASE \E c \in orphans : OrphanSettles(c)
    BY <2>2 DEF OrphanSettles, runVars
  <2>3. CASE \E c \in Executing \cup orphans : ToolUpdate(c)
    BY <2>3 DEF ToolUpdate, runVars
  <2> QED BY <1>8, <2>1, <2>2, <2>3 DEF Tools
<1>9. CASE UNCHANGED vars
  BY <1>9 DEF vars, runVars
<1> QED BY <1>1, <1>2, <1>3, <1>4, <1>5, <1>6, <1>7, <1>8, <1>9 DEF Next, Inner

LEMMA PhasesInit == Init => RunPhases /\ IdleIsClean
BY DEF Init, RunPhases, IdleIsClean

\* An idle agent shows nothing of the run before: not streaming, no partial
\* message, no pending tool call (finishRun, agent.ts 476-482), however that run
\* ended.
THEOREM IdleAgentIsClean == Spec => []IdleIsClean
<1>1. (RunPhases /\ IdleIsClean) /\ [Next]_vars => (RunPhases /\ IdleIsClean)'
  BY PhasesNext
<1> QED BY <1>1, PhasesInit, PTL DEF Spec

\* isStreaming stays true for as long as a run is active, provided the
\* application does not reset the agent meanwhile (types.ts 267-272).
THEOREM StreamingTheorem ==
  ASSUME ResetWhileActive = FALSE
  PROVE  Spec => []StreamingWhileActive
<1>1. Init => StreamingWhileActive
  BY DEF Init, StreamingWhileActive
<1>2. StreamingWhileActive /\ [Next]_vars => StreamingWhileActive'
  <2> SUFFICES ASSUME StreamingWhileActive, [Next]_vars PROVE StreamingWhileActive'
    OBVIOUS
  <2> USE DEF StreamingWhileActive, stateVars, runVars, LoopFrame, AppFrame
  <2>1. CASE Application
    BY <2>1 DEF Application, Prompt, ContinueTranscript, ContinueQueued, StartRun, Steer,
                FollowUp, ClearSteeringQueue, ClearFollowUpQueue, SetSteeringMode,
                SetFollowUpMode, Abort, Reset, TrimFailedAnswer
  <2>2. CASE Emit
    BY <2>2 DEF Emit, EmitNotice, Reduce, EmitMessageStart, EmitMessageEnd
  <2>3. CASE QueueSteps
    BY <2>3 DEF QueueSteps, PollAtStart, EmitPending, InjectPending, AllInjected,
                PollAfterTurn, PollBeforeStop
  <2>4. CASE TurnSteps
    BY <2>4 DEF TurnSteps, Request, TakeAnswer, CallSteps, StartCall, RefuseCall,
                PrepareCall, Finalize, Outcome, LaunchCalls, EndTurn, ToolFrame
  <2>5. CASE RunEnds
    BY <2>5 DEF RunEnds, HandleRunFailure, FinishRun, RuntimeStateReset
  <2>6. CASE Throws
    BY <2>6 DEF Throws, ListenerThrows, FailureListenerThrows, RequestThrows,
                ExecutionThrows, Throw
  <2>7. CASE Provider
    BY <2>7 DEF Provider, StreamStart, StreamUpdate, StreamFinal, Partial
  <2>8. CASE Tools
    BY <2>8 DEF Tools, ToolSettles, OrphanSettles, ToolUpdate, ToolFrame
  <2>9. CASE UNCHANGED vars
    BY <2>9 DEF vars
  <2> QED BY <2>1, <2>2, <2>3, <2>4, <2>5, <2>6, <2>7, <2>8, <2>9 DEF Next, Inner
<1> QED BY <1>1, <1>2, PTL DEF Spec

-------------------------------------------------------------------------------
(* The transcript and the loop's copy of it.                               *)

\* Moving the first owed message to the transcript changes nothing in all.
LEMMA MoveHead ==
  ASSUME NEW S, NEW s \in Seq(S), NEW t \in Seq(S), t # <<>>
  PROVE  Append(s, Head(t)) \o Tail(t) = s \o t
<1> DEFINE a == Append(s, Head(t)) \o Tail(t)
           b == s \o t
<1>1. Head(t) \in S /\ Tail(t) \in Seq(S) /\ Len(Tail(t)) = Len(t) - 1
  BY HeadTailProperties
<1>2. Append(s, Head(t)) \in Seq(S) /\ Len(Append(s, Head(t))) = Len(s) + 1
  BY <1>1, AppendProperties
<1>3. a \in Seq(S) /\ b \in Seq(S) /\ Len(a) = Len(b)
  BY <1>1, <1>2, ConcatProperties, LenProperties
<1>4. ASSUME NEW i \in 1..Len(a) PROVE a[i] = b[i]
  BY <1>1, <1>2, <1>4
<1> HIDE DEF a, b
<1>5. a = b
  BY <1>3, <1>4, SeqEqual
<1> QED BY <1>5 DEF a, b

\* Appending to the end of a concatenation.
LEMMA AppendRight ==
  ASSUME NEW S, NEW s \in Seq(S), NEW t \in Seq(S), NEW e \in S
  PROVE  s \o Append(t, e) = Append(s \o t, e)
<1>1. Append(t, e) = t \o <<e>> /\ <<e>> \in Seq(S)
  BY AppendIsConcat
<1>2. Append(s \o t, e) = (s \o t) \o <<e>>
  BY AppendIsConcat, ConcatProperties
<1> QED BY <1>1, <1>2, ConcatAssociative

\* The values the next lemmas compare are sequences of messages.
LEMMA CopiesTyped ==
  DataOK => /\ messages \in Seq(Known) /\ context \in Seq(Known) /\ owed \in Seq(Known)
            /\ pending \in Seq(Known) /\ results \in Seq(Known) /\ turns \in Nat
BY DEF DataOK

\* Emitting an event moves a message from owed to the transcript, or nothing.
LEMMA CopiesEmit == DataOK /\ CopiesAgree /\ Emit => CopiesAgree'
<1> SUFFICES ASSUME DataOK, CopiesAgree, Emit PROVE CopiesAgree'
  OBVIOUS
<1>1. /\ UNCHANGED <<activeRun, wiped, pc, context, pending, results>>
      /\ messages' \o owed' = messages \o owed
      /\ owed' # owed => owed # <<>>
      /\ owed = <<>> => UNCHANGED <<messages, owed>>
  <2>1. CASE EmitNotice
    BY <2>1 DEF EmitNotice, LoopFrame, localVars, callVars
  <2>2. CASE EmitMessageStart
    BY <2>2 DEF EmitMessageStart, LoopFrame, localVars, callVars
  <2>3. CASE EmitMessageEnd
    <3>1. Append(messages, Head(owed)) \o Tail(owed) = messages \o owed
      BY <2>3, CopiesTyped, MoveHead DEF EmitMessageEnd
    <3> QED BY <2>3, <3>1 DEF EmitMessageEnd, LoopFrame, localVars, callVars
  <2> QED BY <2>1, <2>2, <2>3 DEF Emit
<1> QED BY <1>1 DEF CopiesAgree

\* Polling and injecting.
LEMMA CopiesQueues == DataOK /\ CopiesAgree /\ QueueSteps => CopiesAgree'
<1> SUFFICES ASSUME DataOK, CopiesAgree, QueueSteps PROVE CopiesAgree'
  OBVIOUS
<1> USE DEF LoopFrame, stateVars, callVars
<1>1. messages \o <<>> = messages
  BY CopiesTyped, ConcatEmptySeq
<1>2. CASE PollAtStart
  BY <1>2 DEF PollAtStart, At, Quiet, CopiesAgree
<1>3. CASE EmitPending
  <2>1. Append(messages, Head(pending)) = messages \o <<Head(pending)>>
    BY <1>3, CopiesTyped, HeadTailProperties, AppendIsConcat DEF EmitPending
  <2> QED BY <1>1, <1>3, <2>1 DEF EmitPending, At, Announce, localVars, CopiesAgree
<1>4. CASE InjectPending
  BY <1>4 DEF InjectPending, At, Quiet, CopiesAgree
<1>5. CASE AllInjected
  BY <1>5 DEF AllInjected, At, Quiet, localVars, CopiesAgree
<1>6. CASE PollAfterTurn
  BY <1>6 DEF PollAfterTurn, Inject, At, Quiet, Announce, CopiesAgree
<1>7. CASE PollBeforeStop
  BY <1>7 DEF PollBeforeStop, Inject, At, Announce, CopiesAgree
<1> QED BY <1>2, <1>3, <1>4, <1>5, <1>6, <1>7 DEF QueueSteps

\* The answer and its tool results.
LEMMA CopiesTurn == DataOK /\ RunPhases /\ CopiesAgree /\ TurnSteps => CopiesAgree'
<1> SUFFICES ASSUME DataOK, RunPhases, CopiesAgree, TurnSteps PROVE CopiesAgree'
  OBVIOUS
<1> USE DEF LoopFrame, stateVars
<1>1. /\ messages \o <<>> = messages
      /\ context \o <<>> = context
  BY CopiesTyped, ConcatEmptySeq
<1>2. CASE Request
  BY <1>2 DEF Request, At, Quiet, localVars, callVars, CopiesAgree
<1>3. CASE TakeAnswer
  BY <1>1, <1>3 DEF TakeAnswer, At, Quiet, Announce, RunPhases, CopiesAgree
<1>4. CASE \E i \in CallIndices : CallSteps(i)
  <2>1. PICK i \in CallIndices : CallSteps(i)
    BY <1>4
  <2>2. ASSUME NEW ok \in BOOLEAN, Outcome(i, ok), At("tools") PROVE CopiesAgree'
    <3> DEFINE m == ToolResult(turns, i, ok)
    <3>1. m \in Known
      BY CopiesTyped, BuiltMessages DEF CallIndices
    <3> HIDE DEF m
    <3>2. context \o Append(results, m) = Append(context \o results, m)
      BY <3>1, CopiesTyped, AppendRight
    <3>3. Append(messages, m) = messages \o <<m>>
      BY <3>1, CopiesTyped, AppendIsConcat
    <3>4. results' = Append(results, m) /\ owed' = <<m>>
      BY <2>2 DEF Outcome, Announce, m
    <3>5. UNCHANGED <<activeRun, wiped, pc, context, messages>>
      BY <2>2 DEF Outcome, ToolFrame, localVars
    <3> QED BY <1>1, <2>2, <3>2, <3>3, <3>4, <3>5 DEF At, CopiesAgree
  <2>3. CASE StartCall(i)
    BY <1>1, <2>3 DEF StartCall, ToolFrame, localVars, At, Announce, CopiesAgree
  <2>4. CASE RefuseCall(i)
    BY <2>2, <2>4 DEF RefuseCall
  <2>5. CASE PrepareCall(i)
    BY <2>5 DEF PrepareCall, ToolFrame, localVars, At, Quiet, CopiesAgree
  <2>6. CASE Finalize(i)
    <3>1. (exec[i] = "ok") \in BOOLEAN
      OBVIOUS
    <3> QED BY <2>2, <2>6, <3>1 DEF Finalize
  <2> QED BY <2>1, <2>3, <2>4, <2>5, <2>6 DEF CallSteps
<1>5. CASE LaunchCalls
  BY <1>5 DEF LaunchCalls, ToolFrame, localVars, At, Quiet, CopiesAgree
<1>6. CASE EndTurn
  BY <1>1, <1>6 DEF EndTurn, At, Announce, CopiesAgree
<1> QED BY <1>2, <1>3, <1>4, <1>5, <1>6 DEF TurnSteps

\* The provider: the partial answer is in the loop's copy only.
LEMMA CopiesProvider == DataOK /\ CopiesAgree /\ Provider => CopiesAgree'
<1> SUFFICES ASSUME DataOK, CopiesAgree, Provider PROVE CopiesAgree'
  OBVIOUS
<1> USE DEF LoopFrame, stateVars, Partial
<1>1. messages \o <<>> = messages
  BY CopiesTyped, ConcatEmptySeq
<1>2. CASE StreamStart
  <2> DEFINE m == Assistant("start", turns + 1, 0)
  <2>1. m \in Known
    BY CopiesTyped, BuiltMessages
  <2> HIDE DEF m
  <2>2. Front(Append(context, m)) = context /\ Append(context, m) # <<>>
    BY <2>1, CopiesTyped, FrontOfAppend
  <2>3. context' = Append(context, m)
    BY <1>2 DEF StreamStart, m
  <2> QED BY <1>1, <1>2, <2>2, <2>3 DEF StreamStart, At, CopiesAgree
<1>3. CASE StreamUpdate
  <2> DEFINE m == Assistant("delta", turns + 1, 0)
  <2>1. m \in Known
    BY CopiesTyped, BuiltMessages
  <2> HIDE DEF m
  <2>2. context' = Append(Front(context), m)
    BY <1>3 DEF StreamUpdate, m
  <2>3. ASSUME context # <<>>
        PROVE  Front(Append(Front(context), m)) = Front(context) /\ context' # <<>>
    BY <2>1, <2>2, <2>3, CopiesTyped, FrontLast, FrontOfAppend
  <2> QED BY <1>3, <2>2, <2>3 DEF StreamUpdate, At, CopiesAgree
<1>4. CASE StreamFinal
  <2>1. PICK m \in Answers :
          /\ context' = Append(IF pc = "streaming" THEN Front(context) ELSE context, m)
          /\ owed' = <<m>>
    BY <1>4 DEF StreamFinal
  <2>2. m \in Known
    BY CopiesTyped, AnswersAreMessages
  <2>3. Append(messages, m) = messages \o <<m>>
    BY <2>2, CopiesTyped, AppendIsConcat
  <2> QED BY <1>1, <1>4, <2>1, <2>3 DEF StreamFinal, At, CopiesAgree
<1> QED BY <1>2, <1>3, <1>4 DEF Provider

LEMMA CopiesNext ==
  TypeOK /\ RunPhases /\ CopiesAgree /\ [Next]_vars => CopiesAgree'
<1> SUFFICES ASSUME TypeOK, RunPhases, CopiesAgree, [Next]_vars PROVE CopiesAgree'
  OBVIOUS
<1>1. DataOK
  BY DEF TypeOK
<1>2. CASE Application
  <2>1. CASE Prompt \/ ContinueTranscript \/ ContinueQueued
    <3>1. /\ UNCHANGED messages /\ pc' = "poll"
          /\ context' = messages \o owed'
      BY <2>1 DEF Prompt, ContinueTranscript, ContinueQueued, StartRun, Announce
    <3> QED BY <3>1 DEF CopiesAgree
  <2>2. CASE AppFrame /\ UNCHANGED <<messages, wiped>>
    BY <2>2 DEF AppFrame, localVars, emitVars, callVars, CopiesAgree
  <2>3. CASE Reset
    BY <2>3 DEF Reset, AppFrame, CopiesAgree
  <2>4. CASE TrimFailedAnswer
    BY <2>4 DEF TrimFailedAnswer, AppFrame, CopiesAgree
  <2> QED BY <1>2, <2>1, <2>2, <2>3, <2>4
          DEF Application, Steer, FollowUp, ClearSteeringQueue, ClearFollowUpQueue,
              SetSteeringMode, SetFollowUpMode, Abort, stateVars
<1>3. CASE RunEnds
  BY <1>3 DEF RunEnds, HandleRunFailure, FinishRun, CopiesAgree
<1>4. CASE Throws
  <2>1. CASE ListenerThrows \/ RequestThrows \/ \E i \in CallIndices : ExecutionThrows(i)
    BY <2>1 DEF ListenerThrows, RequestThrows, ExecutionThrows, Throw, CopiesAgree
  <2>2. CASE FailureListenerThrows
    BY <2>2 DEF FailureListenerThrows, LoopFrame, stateVars, localVars, callVars,
                CopiesAgree
  <2> QED BY <1>4, <2>1, <2>2 DEF Throws
<1>5. CASE Tools
  BY <1>5 DEF Tools, ToolSettles, OrphanSettles, ToolUpdate, ToolFrame, LoopFrame,
              runVars, stateVars, localVars, emitVars, callVars, CopiesAgree
<1>6. CASE UNCHANGED vars
  BY <1>6 DEF vars, runVars, stateVars, localVars, emitVars, callVars, CopiesAgree
<1> QED BY <1>1, <1>2, <1>3, <1>4, <1>5, <1>6, CopiesEmit, CopiesQueues, CopiesTurn,
           CopiesProvider DEF Next, Inner

\* The loop's own copy of the transcript and the one the application sees differ
\* at every await of a run only by what the run has in hand: messages still to be
\* shown, the partial answer, the results of the turn (context and _state.messages
\* of agent-loop.ts and agent.ts), whatever the application calls in between and
\* whoever throws, reset during the run excepted.
THEOREM CopiesTheorem == Spec => []CopiesAgree
<1>1. Init => CopiesAgree
  BY DEF Init, CopiesAgree
<1> DEFINE IInv == TypeOK /\ Resumable /\ RunPhases /\ IdleIsClean /\ CopiesAgree
<1>2. Init => IInv
  BY <1>1, TypeInit, PhasesInit DEF Init, Resumable
<1>3. IInv /\ [Next]_vars => IInv'
  BY TypeNext, ResumableNext, PhasesNext, CopiesNext
<1>4. IInv => CopiesAgree
  OBVIOUS
<1> HIDE DEF IInv
<1> QED BY <1>2, <1>3, <1>4, PTL DEF Spec

\* Whenever the loop calls the model, the context it sends is the transcript the
\* application sees, for any number of messages, turns, tools and failures, and
\* whatever the application calls in between, reset during the run excepted.
THEOREM RequestTheorem == Spec => []RequestSeesTranscript
<1>1. Init => CopiesAgree
  BY DEF Init, CopiesAgree
<1>2. TypeOK /\ RunPhases /\ CopiesAgree => RequestSeesTranscript
  <2> SUFFICES ASSUME TypeOK, RunPhases, CopiesAgree PROVE RequestSeesTranscript
    OBVIOUS
  <2>1. messages \o <<>> = messages
    BY CopiesTyped, ConcatEmptySeq DEF TypeOK
  <2> QED BY <2>1 DEF RequestSeesTranscript, CopiesAgree, RunPhases, At
<1> DEFINE IInv == TypeOK /\ Resumable /\ RunPhases /\ IdleIsClean /\ CopiesAgree
<1>3. Init => IInv
  BY <1>1, TypeInit, PhasesInit DEF Init, Resumable
<1>4. IInv /\ [Next]_vars => IInv'
  BY TypeNext, ResumableNext, PhasesNext, CopiesNext
<1>5. IInv => RequestSeesTranscript
  BY <1>2
<1> HIDE DEF IInv
<1> QED BY <1>3, <1>4, <1>5, PTL DEF Spec

-------------------------------------------------------------------------------
(* What a run shows and leaves behind: the calls under way, the messages it  *)
(* reports at its end, and the results of its calls.                         *)

\* The calls of the turn that have started and have no outcome yet.
Begun == {<<turns, i>> : i \in {j \in DOMAIN exec : exec[j] \notin {"waiting", "final"}}}

TellsOfCall(e) == e.type \in {"tool_execution_start", "tool_execution_end"}

\* A section changes the calls before it emits the event that tells of it, so that
\* pendingToolCalls is behind by the event under way, and by that event only.
CallsTracked ==
  /\ pc = "tools" => Len(notices) <= 1
  /\ pc # "tools" => \A k \in DOMAIN notices : ~TellsOfCall(notices[k])
  /\ activeRun /\ ~wiped /\ pc \notin {"throw", "failed"} =>
       IF pc = "tools" /\ notices # <<>> THEN PendingAfter(Head(notices)) = Begun
                                         ELSE pendingToolCalls = Begun

\* Between the sections that execute tools there is no call.
LEMMA NoCalls == exec = <<>> => Begun = {}
BY DEF Begun

\* A status given to call i says which calls have begun.
LEMMA BegunExcept ==
  ASSUME NEW n \in Nat, NEW i \in 1..n, NEW f \in [1..n -> Statuses], NEW s \in Statuses,
         exec = f, exec' = [f EXCEPT ![i] = s], UNCHANGED turns
  PROVE  Begun' = IF s \in {"waiting", "final"} THEN Begun \ {<<turns, i>>}
                                               ELSE Begun \cup {<<turns, i>>}
<1>1. DOMAIN exec = 1..n /\ DOMAIN exec' = 1..n
  OBVIOUS
<1>2. exec'[i] = s /\ \A j \in 1..n : j # i => exec'[j] = exec[j]
  OBVIOUS
<1>3. Begun = {<<turns, k>> : k \in {j \in 1..n : exec[j] \notin {"waiting", "final"}}}
  BY <1>1 DEF Begun
<1>4. Begun' = {<<turns, k>> : k \in {j \in 1..n : exec'[j] \notin {"waiting", "final"}}}
  BY <1>1 DEF Begun
<1> QED BY <1>2, <1>3, <1>4

\* Emitting an event brings what is shown up to date.
LEMMA CallsEmit == TypeOK /\ RunPhases /\ CallsTracked /\ Emit => CallsTracked'
<1> SUFFICES ASSUME TypeOK, RunPhases, CallsTracked, Emit PROVE CallsTracked'
  OBVIOUS
<1>1. notices \in Seq(Event)
  BY DEF TypeOK, DataOK
<1>2. UNCHANGED <<activeRun, wiped, pc, turns, exec>>
  BY DEF Emit, EmitNotice, EmitMessageStart, EmitMessageEnd, LoopFrame, callVars
<1>3. Begun' = Begun
  BY <1>2 DEF Begun
<1>4. CASE EmitNotice
  <2>1. /\ notices # <<>> /\ notices' = Tail(notices)
        /\ pendingToolCalls' = PendingAfter(Head(notices))
    BY <1>4 DEF EmitNotice, Reduce
  <2>2. /\ Len(notices') = Len(notices) - 1
        /\ \A k \in DOMAIN notices' : k + 1 \in DOMAIN notices /\ notices'[k] = notices[k + 1]
    BY <1>1, <2>1, HeadTailProperties, LenProperties
  <2>3. Len(notices) <= 1 => notices' = <<>>
    BY <1>1, <2>1, <2>2
  <2>4. ASSUME pc # "tools" PROVE pendingToolCalls' = pendingToolCalls
    <3>1. 1 \in DOMAIN notices /\ Head(notices) = notices[1]
      BY <1>1, <2>1
    <3>2. ~TellsOfCall(Head(notices))
      BY <2>4, <3>1 DEF CallsTracked
    <3> QED BY <2>1, <3>2 DEF PendingAfter, TellsOfCall
  <2>5. pc = "tools" => notices' = <<>>
    BY <2>3 DEF CallsTracked
  <2> QED BY <1>2, <1>3, <2>1, <2>2, <2>4, <2>5, EmptySeq DEF CallsTracked
<1>5. CASE EmitMessageStart \/ EmitMessageEnd
  BY <1>2, <1>3, <1>5 DEF EmitMessageStart, EmitMessageEnd, CallsTracked
<1> QED BY <1>4, <1>5 DEF Emit

\* The queues are polled between turns, when no call is there.
LEMMA CallsQueues == TypeOK /\ RunPhases /\ CallsTracked /\ QueueSteps => CallsTracked'
<1> SUFFICES ASSUME TypeOK, RunPhases, CallsTracked, QueueSteps PROVE CallsTracked'
  OBVIOUS
<1>1. /\ UNCHANGED <<activeRun, wiped, turns, exec, pendingToolCalls>>
      /\ pc \notin {"tools", "throw", "failed"} /\ pc' \notin {"tools", "throw", "failed"}
      /\ notices' \in {<<>>, <<Notice("turn_start")>>, <<Notice("agent_end")>>}
  BY DEF QueueSteps, PollAtStart, EmitPending, InjectPending, AllInjected, PollAfterTurn,
         PollBeforeStop, Inject, At, Quiet, Announce, LoopFrame, callVars, stateVars
<1>2. Begun' = Begun
  BY <1>1 DEF Begun
<1>3. \A k \in DOMAIN notices' : ~TellsOfCall(notices'[k])
  BY <1>1 DEF TellsOfCall, Notice
<1> QED BY <1>1, <1>2, <1>3 DEF CallsTracked

\* Asking for the next answer and taking it.
LEMMA CallsAnswer ==
  TypeOK /\ Resumable /\ RunPhases /\ CallsTracked /\ (Request \/ TakeAnswer \/ Provider)
    => CallsTracked'
<1> SUFFICES ASSUME TypeOK, Resumable, RunPhases, CallsTracked,
                    Request \/ TakeAnswer \/ Provider
             PROVE  CallsTracked'
  OBVIOUS
<1>1. /\ UNCHANGED <<activeRun, wiped, pendingToolCalls>>
      /\ pc \notin {"tools", "throw", "failed"} /\ pc' \notin {"throw", "failed"}
      /\ pc' = "tools" => TakeAnswer /\ notices' = <<>>
      /\ TakeAnswer \/ exec' = exec
    BY DEF Request, TakeAnswer, Provider, StreamStart, StreamUpdate, StreamFinal, Partial,
           At, Quiet, Announce, LoopFrame, callVars, stateVars
<1>2. exec = <<>> /\ Begun = {}
  BY <1>1, NoCalls DEF RunPhases
<1>3. Begun' = {}
  <2>1. CASE TakeAnswer
    <3>1. \/ exec' = <<>>
          \/ exec' = [i \in 1..Last(context).calls |-> "waiting"]
      BY <1>2, <2>1 DEF TakeAnswer
    <3>2. exec' = <<>> => DOMAIN exec' = {}
      OBVIOUS
    <3>3. \A j \in DOMAIN exec' : exec'[j] = "waiting"
      BY <3>1, <3>2
    <3>4. {j \in DOMAIN exec' : exec'[j] \notin {"waiting", "final"}} = {}
      BY <3>3
    <3> QED BY <3>4 DEF Begun
  <2>2. CASE exec' = exec
    BY <1>2, <2>2 DEF Begun
  <2> QED BY <1>1, <2>1, <2>2
<1>4. \A k \in DOMAIN notices' : ~TellsOfCall(notices'[k])
  <2>1. /\ \A m : ~TellsOfCall(TurnEnd(m))
        /\ ~TellsOfCall(Notice("agent_end"))
    BY DEF TellsOfCall, Notice, TurnEnd
  <2>2. \/ notices' = <<>>
        \/ notices' = <<TurnEnd(Last(context)), Notice("agent_end")>>
    BY DEF Request, TakeAnswer, Provider, StreamStart, StreamUpdate, StreamFinal, Partial,
           At, Quiet, Announce
  <2> QED BY <2>1, <2>2
<1> QED BY <1>1, <1>2, <1>3, <1>4, EmptySeq DEF CallsTracked

\* The steps of one call.
LEMMA CallsCall ==
  TypeOK /\ RunPhases /\ CallsTracked /\ (\E i \in CallIndices : CallSteps(i)) => CallsTracked'
<1> SUFFICES ASSUME TypeOK, RunPhases, CallsTracked, NEW i \in CallIndices, CallSteps(i)
             PROVE  CallsTracked'
  OBVIOUS
<1>1. /\ pc = "tools" /\ notices = <<>> /\ i \in DOMAIN exec
      /\ UNCHANGED <<activeRun, wiped, pc, turns, pendingToolCalls>>
  BY DEF CallSteps, StartCall, RefuseCall, PrepareCall, Finalize, FirstOpenCall, Outcome,
         At, ToolFrame, LoopFrame, stateVars
<1>2. /\ Len(exec) \in Nat /\ DOMAIN exec = 1..Len(exec)
      /\ exec \in [1..Len(exec) -> Statuses] /\ i \in 1..Len(exec)
  BY <1>1, LenProperties DEF TypeOK, DataOK
<1>3. activeRun /\ ~wiped => pendingToolCalls = Begun
  BY <1>1 DEF CallsTracked
<1> DEFINE c == <<turns, i>>
<1>5. \A s \in Statuses :
        exec' = [exec EXCEPT ![i] = s] =>
          Begun' = IF s \in {"waiting", "final"} THEN Begun \ {c} ELSE Begun \cup {c}
  BY <1>1, <1>2, BegunExcept
<1>6. exec[i] \notin {"waiting", "final"} => c \in Begun
  BY <1>2 DEF Begun
<1>7. {"starting", "prepared", "executing", "final"} \subseteq Statuses
  BY DEF Statuses
<1>8. pendingToolCalls' = pendingToolCalls
  BY <1>1
<1> HIDE DEF c
<1>9. CASE StartCall(i)
  <2>1. notices' = <<ToolNotice("tool_execution_start", c)>>
    BY <1>9 DEF StartCall, Announce, c
  <2>2. Begun' = Begun \cup {c}
    BY <1>5, <1>7, <1>9 DEF StartCall
  <2>3. Head(notices').type = "tool_execution_start" /\ Head(notices').call = c
    BY <2>1 DEF ToolNotice
  <2>4. PendingAfter(Head(notices))' = pendingToolCalls' \cup {c}
    BY <2>3 DEF PendingAfter
  <2>5. Len(notices') = 1 /\ notices' # <<>>
    BY <2>1
  <2> QED BY <1>1, <1>3, <1>8, <2>2, <2>4, <2>5 DEF CallsTracked
<1>10. CASE RefuseCall(i) \/ Finalize(i)
  <2>1. /\ notices' = <<ToolNotice("tool_execution_end", c)>>
        /\ exec' = [exec EXCEPT ![i] = "final"]
    BY <1>10 DEF RefuseCall, Finalize, Outcome, Announce, c
  <2>2. Begun' = Begun \ {c}
    BY <1>5, <1>7, <2>1
  <2>3. Head(notices').type = "tool_execution_end" /\ Head(notices').call = c
    BY <2>1 DEF ToolNotice
  <2>4. PendingAfter(Head(notices))' = pendingToolCalls' \ {c}
    BY <2>3 DEF PendingAfter
  <2>5. Len(notices') = 1 /\ notices' # <<>>
    BY <2>1
  <2> QED BY <1>1, <1>3, <1>8, <2>2, <2>4, <2>5 DEF CallsTracked
<1>11. CASE PrepareCall(i)
  <2>1. /\ notices' = <<>> /\ exec[i] = "starting"
        /\ \/ exec' = [exec EXCEPT ![i] = "prepared"]
           \/ exec' = [exec EXCEPT ![i] = "executing"]
    BY <1>1, <1>11 DEF PrepareCall, Quiet
  <2>2. Begun' = Begun
    BY <1>5, <1>6, <1>7, <2>1
  <2> QED BY <1>1, <1>3, <1>8, <2>1, <2>2 DEF CallsTracked
<1> QED BY <1>9, <1>10, <1>11 DEF CallSteps

\* The calls launched, executed and ended together.
LEMMA CallsTogether ==
  /\ TypeOK /\ RunPhases /\ CallsTracked
  /\ LaunchCalls \/ EndTurn \/ (\E i \in CallIndices : ToolSettles(i))
  => CallsTracked'
<1> SUFFICES ASSUME TypeOK, RunPhases, CallsTracked,
                    LaunchCalls \/ EndTurn \/ (\E i \in CallIndices : ToolSettles(i))
             PROVE  CallsTracked'
  OBVIOUS
<1>1. UNCHANGED <<activeRun, wiped, turns, pendingToolCalls>>
  BY DEF LaunchCalls, EndTurn, ToolSettles, ToolFrame, LoopFrame, stateVars
<1>2. CASE LaunchCalls
  <2>1. /\ pc = "tools" /\ pc' = "tools" /\ notices = <<>> /\ notices' = <<>>
        /\ exec' = [i \in DOMAIN exec |->
                      IF exec[i] = "prepared" THEN "executing" ELSE exec[i]]
    BY <1>2 DEF LaunchCalls, At, Quiet
  <2>2. /\ DOMAIN exec' = DOMAIN exec
        /\ \A j \in DOMAIN exec :
             exec'[j] \in {"waiting", "final"} <=> exec[j] \in {"waiting", "final"}
    BY <2>1
  <2>3. Begun' = Begun
    BY <1>1, <2>2 DEF Begun
  <2> QED BY <1>1, <2>1, <2>3 DEF CallsTracked
<1>3. CASE EndTurn
  <2>1. /\ pc = "tools" /\ pc' = "turnEnd" /\ notices = <<>>
        /\ notices' = <<TurnEnd(Last(context))>> /\ exec' = <<>>
        /\ \A i \in DOMAIN exec : exec[i] = "final"
    BY <1>3 DEF EndTurn, At, Announce, Awaited
  <2>2. Begun = {} /\ Begun' = {}
    BY <2>1 DEF Begun
  <2>3. \A k \in DOMAIN notices' : ~TellsOfCall(notices'[k])
    BY <2>1 DEF TellsOfCall, TurnEnd
  <2> QED BY <1>1, <2>1, <2>2, <2>3 DEF CallsTracked
<1>4. CASE \E i \in CallIndices : ToolSettles(i)
  <2>1. PICK i \in CallIndices : ToolSettles(i)
    BY <1>4
  <2>2. /\ i \in DOMAIN exec /\ exec[i] = "executing" /\ UNCHANGED <<pc, notices>>
        /\ \E s \in {"ok", "error", "rejected"} : exec' = [exec EXCEPT ![i] = s]
    BY <2>1 DEF ToolSettles, emitVars
  <2>3. /\ DOMAIN exec' = DOMAIN exec
        /\ \A j \in DOMAIN exec :
             exec'[j] \in {"waiting", "final"} <=> exec[j] \in {"waiting", "final"}
    BY <2>2
  <2>4. Begun' = Begun
    BY <1>1, <2>3 DEF Begun
  <2>5. PendingAfter(Head(notices))' = PendingAfter(Head(notices))
    BY <1>1, <2>2 DEF PendingAfter
  <2> QED BY <1>1, <2>2, <2>4, <2>5 DEF CallsTracked
<1> QED BY <1>2, <1>3, <1>4

LEMMA CallsTrackedNext ==
  TypeOK /\ Resumable /\ RunPhases /\ IdleIsClean /\ CallsTracked /\ [Next]_vars => CallsTracked'
<1> SUFFICES ASSUME TypeOK, Resumable, RunPhases, IdleIsClean, CallsTracked, [Next]_vars
             PROVE  CallsTracked'
  OBVIOUS
<1>1. CASE Application
  <2>1. CASE Prompt \/ ContinueTranscript \/ ContinueQueued
    <3>1. /\ ~activeRun /\ pc' = "poll" /\ UNCHANGED <<pendingToolCalls, exec, turns>>
          /\ notices' = <<Notice("agent_start"), Notice("turn_start")>>
      BY <2>1 DEF Prompt, ContinueTranscript, ContinueQueued, StartRun, Announce, callVars
    <3>2. pendingToolCalls = {} /\ exec = <<>>
      BY <3>1 DEF IdleIsClean
    <3>3. Begun' = {}
      BY <3>1, <3>2, NoCalls DEF Begun
    <3>4. \A k \in DOMAIN notices' : ~TellsOfCall(notices'[k])
      BY <3>1 DEF TellsOfCall, Notice
    <3> QED BY <3>1, <3>2, <3>3, <3>4 DEF CallsTracked
  <2>2. CASE AppFrame /\ UNCHANGED <<pendingToolCalls, wiped>>
    BY <2>2 DEF AppFrame, emitVars, callVars, CallsTracked, Begun, PendingAfter
  <2>3. CASE Reset
    BY <2>3 DEF Reset, AppFrame, emitVars, callVars, CallsTracked
  <2> QED BY <1>1, <2>1, <2>2, <2>3
          DEF Application, Steer, FollowUp, ClearSteeringQueue, ClearFollowUpQueue,
              SetSteeringMode, SetFollowUpMode, Abort, TrimFailedAnswer, stateVars
<1>2. CASE RunEnds
  <2>1. CASE HandleRunFailure
    <3>1. pc' = "failed" /\ notices' = <<Notice("agent_end")>>
      BY <2>1 DEF HandleRunFailure, Announce
    <3>2. \A k \in DOMAIN notices' : ~TellsOfCall(notices'[k])
      BY <3>1 DEF TellsOfCall, Notice
    <3> QED BY <3>1, <3>2 DEF CallsTracked
  <2>2. CASE FinishRun
    BY <2>2 DEF FinishRun, RunOver, At, Quiet, CallsTracked
  <2> QED BY <1>2, <2>1, <2>2 DEF RunEnds
<1>3. CASE Throws
  <2>1. CASE ListenerThrows \/ RequestThrows \/ \E i \in CallIndices : ExecutionThrows(i)
    <3>1. pc' = "throw" /\ notices' = <<>>
      BY <2>1 DEF ListenerThrows, RequestThrows, ExecutionThrows, Throw, Announce
    <3> QED BY <3>1 DEF CallsTracked
  <2>2. CASE FailureListenerThrows
    BY <2>2 DEF FailureListenerThrows, CallsTracked
  <2> QED BY <1>3, <2>1, <2>2 DEF Throws
<1>4. CASE (\E c \in orphans : OrphanSettles(c)) \/ (\E c \in Executing \cup orphans : ToolUpdate(c))
  BY <1>4 DEF OrphanSettles, ToolUpdate, runVars, stateVars, emitVars, callVars, countVars,
              CallsTracked, Begun, PendingAfter
<1>5. CASE UNCHANGED vars
  BY <1>5 DEF vars, runVars, stateVars, emitVars, callVars, countVars, CallsTracked, Begun,
              PendingAfter
<1> QED BY <1>1, <1>2, <1>3, <1>4, <1>5, CallsEmit, CallsQueues, CallsAnswer, CallsCall,
           CallsTogether DEF Next, Inner, TurnSteps, Tools

\* pendingToolCalls, which the application shows, is at every await of a run the set
\* of calls that have started and have no outcome yet, but for the event under way,
\* with sequential and parallel tools, refused and failing ones (processEvents of
\* agent.ts against executeToolCalls of agent-loop.ts).
THEOREM PendingCallsTheorem == Spec => []PendingCallsTrackExecution
<1> DEFINE IInv == TypeOK /\ Resumable /\ RunPhases /\ IdleIsClean /\ CallsTracked
<1>1. Init => IInv
  BY TypeInit, PhasesInit DEF Init, Resumable, CallsTracked
<1>2. IInv /\ [Next]_vars => IInv'
  BY TypeNext, ResumableNext, PhasesNext, CallsTrackedNext
<1>3. IInv => PendingCallsTrackExecution
  BY DEF CallsTracked, PendingCallsTrackExecution, Begun
<1> HIDE DEF IInv
<1> QED BY <1>1, <1>2, <1>3, PTL DEF Spec

-------------------------------------------------------------------------------
(* The messages a run reports.                                             *)

\* s ends in new, with n messages in front of it.
EndsIn(s, n, new) == \E p \in Seq(Known) : Len(p) = n /\ s = p \o new

\* newMessages is at every await what the loop's copy has beyond the transcript the
\* run started from, but for an answer that is not complete or not yet looked at.
NewTracked ==
  activeRun /\ ~wiped =>
    /\ pc \in {"poll", "inject", "injected", "request", "stream", "turnEnd", "stopping",
                "tools", "end"} => EndsIn(context, base, newMessages)
    /\ pc \in {"streaming", "answered"} => EndsIn(Front(context), base, newMessages)
    /\ pc = "end" => owed = <<>> /\ messages = context

\* Adding messages to both keeps the one a part of the other.
LEMMA BothExtended ==
  ASSUME NEW s \in Seq(Known), NEW n, NEW new \in Seq(Known), NEW more \in Seq(Known),
         EndsIn(s, n, new)
  PROVE  EndsIn(s \o more, n, new \o more)
<1>1. PICK p \in Seq(Known) : Len(p) = n /\ s = p \o new
  BY DEF EndsIn
<1>2. s \o more = p \o (new \o more)
  BY <1>1, ConcatAssociative
<1> QED BY <1>1, <1>2 DEF EndsIn

LEMMA BothAppended ==
  ASSUME NEW s \in Seq(Known), NEW n, NEW new \in Seq(Known), NEW m \in Known,
         EndsIn(s, n, new)
  PROVE  EndsIn(Append(s, m), n, Append(new, m))
<1>1. <<m>> \in Seq(Known)
  OBVIOUS
<1>2. Append(s, m) = s \o <<m>> /\ Append(new, m) = new \o <<m>>
  BY AppendIsConcat
<1> QED BY <1>1, <1>2, BothExtended

\* A sequence is its front and its last element.
LEMMA FrontThenLast ==
  ASSUME NEW s \in Seq(Known), s # <<>>
  PROVE  Append(Front(s), Last(s)) = s
BY DEF Front, Last

\* What all the steps that touch neither copy keep.
LEMMA NewSame ==
  ASSUME NewTracked, UNCHANGED <<activeRun, wiped, pc, context, newMessages, base>>,
         pc = "end" /\ owed = <<>> => owed' = <<>> /\ messages' = messages
  PROVE  NewTracked'
BY DEF NewTracked

LEMMA NewTrackedNext ==
  TypeOK /\ Resumable /\ RunPhases /\ CopiesAgree /\ NewTracked /\ [Next]_vars => NewTracked'
<1> SUFFICES ASSUME TypeOK, Resumable, RunPhases, CopiesAgree, NewTracked, [Next]_vars
             PROVE  NewTracked'
  OBVIOUS
<1> USE DEF LoopFrame, localVars
<1>1. /\ context \in Seq(Known) /\ newMessages \in Seq(Known) /\ results \in Seq(Known)
      /\ messages \in Seq(Known) /\ pending \in Seq(Known) /\ turns \in Nat
  BY DEF TypeOK, DataOK
<1>2. CASE Application
  <2>1. ASSUME NEW prompts \in Seq(Known), NEW skip, StartRun(prompts, skip)
        PROVE  NewTracked'
    <3>1. /\ pc' = "poll" /\ context' = messages \o prompts /\ newMessages' = prompts
          /\ base' = Len(messages)
      BY <2>1 DEF StartRun, Reported
    <3>2. EndsIn(context', base', newMessages')
      BY <1>1, <3>1 DEF EndsIn
    <3> QED BY <3>1, <3>2 DEF NewTracked
  <2>2. CASE Prompt
    <3>1. PICK n \in 1..MaxPrompt : StartRun([k \in 1..n |-> User("prompt", created + k)], FALSE)
      BY <2>2 DEF Prompt
    <3>2. \A k \in 1..n : User("prompt", created + k) \in Known
      <4>1. created \in Nat
        BY DEF TypeOK, DataOK
      <4>2. \A k \in 1..n : created + k \in Nat /\ 0 \in Nat
        BY <4>1
      <4> QED BY <4>2, BuiltMessages
    <3>3. [k \in 1..n |-> User("prompt", created + k)] \in Seq(Known)
      BY <3>2, FunctionIsSeq
    <3> QED BY <2>1, <3>1, <3>3
  <2>3. CASE ContinueTranscript
    <3>1. <<>> \in Seq(Known)
      OBVIOUS
    <3> QED BY <2>1, <2>3, <3>1 DEF ContinueTranscript
  <2>4. CASE ContinueQueued
    BY <2>1, <2>4, DrainSplits DEF ContinueQueued, TypeOK, DataOK
  <2>5. CASE AppFrame /\ UNCHANGED <<messages, wiped>>
    BY <2>5, NewSame DEF AppFrame, emitVars
  <2>6. CASE Reset
    BY <2>6 DEF Reset, AppFrame, NewTracked
  <2>7. CASE TrimFailedAnswer
    BY <2>7 DEF TrimFailedAnswer, AppFrame, NewTracked
  <2> QED BY <1>2, <2>2, <2>3, <2>4, <2>5, <2>6, <2>7
          DEF Application, Steer, FollowUp, ClearSteeringQueue, ClearFollowUpQueue,
              SetSteeringMode, SetFollowUpMode, Abort, stateVars
<1>3. CASE Emit
  BY <1>3, NewSame DEF Emit, EmitNotice, EmitMessageStart, EmitMessageEnd
<1>4. CASE QueueSteps
  <2>1. CASE InjectPending
    <3>1. /\ pc = "injected" /\ pc' = "inject" /\ Head(pending) \in Known
          /\ context' = Append(context, Head(pending))
          /\ newMessages' = Append(newMessages, Head(pending))
          /\ UNCHANGED <<activeRun, wiped, base>>
      BY <1>1, <2>1, HeadTailProperties DEF InjectPending, At, Resumable
    <3>2. activeRun /\ ~wiped => EndsIn(context, base, newMessages)
      BY <3>1 DEF NewTracked
    <3>3. activeRun /\ ~wiped => EndsIn(context', base', newMessages')
      BY <1>1, <3>1, <3>2, BothAppended
    <3> QED BY <3>1, <3>3 DEF NewTracked
  <2>2. CASE PollBeforeStop
    <3>1. messages \o <<>> = messages
      BY <1>1, ConcatEmptySeq
    <3>2. activeRun /\ ~wiped => context = messages /\ owed = <<>>
      BY <2>2, <3>1 DEF PollBeforeStop, At, CopiesAgree
    <3> QED BY <2>2, <3>2 DEF PollBeforeStop, At, Inject, Announce, stateVars, NewTracked
  <2> QED BY <1>4, <2>1, <2>2
          DEF QueueSteps, PollAtStart, EmitPending, AllInjected, PollAfterTurn, Inject, At,
              NewTracked
<1>5. CASE TurnSteps
  <2>1. CASE TakeAnswer
    <3>1. /\ pc = "answered" /\ owed = <<>> /\ pc' \in {"tools", "end"} /\ owed' = <<>>
          /\ newMessages' = Append(newMessages, Last(context))
          /\ UNCHANGED <<activeRun, wiped, base, context, messages>>
      BY <2>1 DEF TakeAnswer, At, Quiet, Announce, stateVars
    <3>2. context # <<>> /\ Last(context) \in Known /\ Front(context) \in Seq(Known)
      BY <1>1, <3>1, FrontLast DEF Resumable
    <3>3. activeRun /\ ~wiped => EndsIn(context', base', newMessages')
      BY <1>1, <3>1, <3>2, FrontThenLast, BothAppended DEF NewTracked
    <3>4. messages \o <<>> = messages
      BY <1>1, ConcatEmptySeq
    <3>5. activeRun /\ ~wiped => context = messages
      BY <3>1, <3>4 DEF CopiesAgree
    <3> QED BY <3>1, <3>3, <3>5 DEF NewTracked
  <2>2. CASE EndTurn
    <3>1. /\ pc = "tools" /\ pc' = "turnEnd"
          /\ context' = context \o results /\ newMessages' = newMessages \o results
          /\ UNCHANGED <<activeRun, wiped, base>>
      BY <2>2 DEF EndTurn, At
    <3>2. activeRun /\ ~wiped => EndsIn(context', base', newMessages')
      BY <1>1, <3>1, BothExtended DEF NewTracked
    <3> QED BY <3>1, <3>2 DEF NewTracked
  <2>3. CASE Request \/ LaunchCalls \/ \E i \in CallIndices : CallSteps(i)
    BY <2>3 DEF Request, LaunchCalls, CallSteps, StartCall, RefuseCall, PrepareCall, Finalize,
                Outcome, ToolFrame, At, NewTracked
  <2> QED BY <1>5, <2>1, <2>2, <2>3 DEF TurnSteps
<1>6. CASE RunEnds
  BY <1>6 DEF RunEnds, HandleRunFailure, FinishRun, NewTracked
<1>7. CASE Throws
  <2>1. CASE ListenerThrows \/ RequestThrows \/ \E i \in CallIndices : ExecutionThrows(i)
    BY <2>1 DEF ListenerThrows, RequestThrows, ExecutionThrows, Throw, NewTracked
  <2>2. CASE FailureListenerThrows
    BY <2>2, NewSame DEF FailureListenerThrows, stateVars
  <2> QED BY <1>7, <2>1, <2>2 DEF Throws
<1>8. CASE Provider
  <2>1. CASE StreamStart
    <3> DEFINE m == Assistant("start", turns + 1, 0)
    <3>1. m \in Known
      BY <1>1, BuiltMessages
    <3> HIDE DEF m
    <3>2. /\ pc = "stream" /\ pc' = "streaming" /\ context' = Append(context, m)
          /\ UNCHANGED <<activeRun, wiped, base, newMessages>>
      BY <2>1 DEF StreamStart, Partial, At, m
    <3>3. Front(context') = context
      BY <1>1, <3>1, <3>2, FrontOfAppend
    <3> QED BY <3>2, <3>3 DEF NewTracked
  <2>2. CASE StreamUpdate
    <3> DEFINE m == Assistant("delta", turns + 1, 0)
    <3>1. m \in Known
      BY <1>1, BuiltMessages
    <3> HIDE DEF m
    <3>2. /\ pc = "streaming" /\ pc' = "streaming" /\ context' = Append(Front(context), m)
          /\ UNCHANGED <<activeRun, wiped, base, newMessages>>
      BY <2>2 DEF StreamUpdate, Partial, At, m
    <3>3. Front(context') = Front(context)
      BY <1>1, <3>1, <3>2, FrontLast, FrontOfAppend DEF Resumable
    <3> QED BY <3>2, <3>3 DEF NewTracked
  <2>3. CASE StreamFinal
    <3>1. PICK m \in Answers :
            context' = Append(IF pc = "streaming" THEN Front(context) ELSE context, m)
      BY <2>3 DEF StreamFinal
    <3>2. m \in Known
      BY <1>1, AnswersAreMessages
    <3>3. /\ pc \in {"stream", "streaming"} /\ pc' = "answered"
          /\ UNCHANGED <<activeRun, wiped, base, newMessages>>
      BY <2>3 DEF StreamFinal
    <3>4. Front(context') = IF pc = "streaming" THEN Front(context) ELSE context
      <4>1. pc = "streaming" => Front(context) \in Seq(Known)
        BY <1>1, FrontLast DEF Resumable
      <4> QED BY <1>1, <3>1, <3>2, <4>1, FrontOfAppend
    <3> QED BY <3>3, <3>4 DEF NewTracked
  <2> QED BY <1>8, <2>1, <2>2, <2>3 DEF Provider
<1>9. CASE Tools
  BY <1>9, NewSame DEF Tools, ToolSettles, OrphanSettles, ToolUpdate, ToolFrame, runVars,
                       stateVars, emitVars
<1>10. CASE UNCHANGED vars
  BY <1>10, NewSame DEF vars, runVars, stateVars, emitVars
<1> QED BY <1>2, <1>3, <1>4, <1>5, <1>6, <1>7, <1>8, <1>9, <1>10 DEF Next, Inner

\* What stands in front of the end.
LEMMA FrontPart ==
  ASSUME NEW p \in Seq(Known), NEW new \in Seq(Known)
  PROVE  SubSeq(p \o new, 1, Len(p)) = p
<1>1. CASE p = <<>>
  BY <1>1, SubSeqEmpty
<1>2. CASE p # <<>>
  <2>1. 1 \in 1..Len(p) /\ Len(p) \in 1..Len(p)
    BY <1>2
  <2> QED BY <2>1, SubSeqOfConcat1, SubSeqFull
<1> QED BY <1>1, <1>2

\* The messages a run reports with agent_end are exactly those it added to the
\* transcript, in the same order, for any number of turns, tools and queued messages
\* (newMessages of agent-loop.ts against _state.messages of agent.ts), a failed run
\* and one that is reset meanwhile excepted.
THEOREM ReportTheorem == Spec => []RunReportsItsMessages
<1> DEFINE IInv == TypeOK /\ Resumable /\ RunPhases /\ IdleIsClean /\ CopiesAgree /\ NewTracked
<1>1. Init => IInv
  BY TypeInit, PhasesInit DEF Init, Resumable, CopiesAgree, NewTracked
<1>2. IInv /\ [Next]_vars => IInv'
  BY TypeNext, ResumableNext, PhasesNext, CopiesNext, NewTrackedNext
<1>3. IInv => RunReportsItsMessages
  <2> SUFFICES ASSUME IInv, At("end"), ~wiped
               PROVE  messages = SubSeq(messages, 1, base) \o newMessages
    BY DEF RunReportsItsMessages
  <2>1. activeRun /\ messages = context /\ newMessages \in Seq(Known)
    BY DEF At, RunPhases, NewTracked, TypeOK, DataOK
  <2>2. PICK p \in Seq(Known) : Len(p) = base /\ messages = p \o newMessages
    BY <2>1 DEF At, NewTracked, EndsIn
  <2> QED BY <2>1, <2>2, FrontPart
<1> HIDE DEF IInv
<1> QED BY <1>1, <1>2, <1>3, PTL DEF Spec

-------------------------------------------------------------------------------
(* The results of the calls.                                               *)

Calling(m) == m.role = "assistant" /\ m.calls > 0
Outcomes(r) == {<<r[j].role, r[j].id, r[j].calls>> : j \in DOMAIN r}

\* The message at k is followed by one result of each of its calls.
AnsweredAt(s, k) ==
  LET after == (k + 1)..(k + s[k].calls) IN
  /\ after \subseteq DOMAIN s
  /\ {<<s[j].role, s[j].id, s[j].calls>> : j \in after}
       = {<<"toolResult", s[k].id, i>> : i \in 1..s[k].calls}
AllAnswered(s) == \A k \in DOMAIN s : Calling(s[k]) => AnsweredAt(s, k)

\* The calls of the turn the loop has dealt with.
Done == {i \in DOMAIN exec : exec[i] = "final"}

\* Only the user's messages are queued, each in its queue, and what is pending has
\* been taken from one of them.
OfKind(q, kind) == \A k \in DOMAIN q : q[k].role = "user" /\ q[k].kind = kind
UserKinds == {"prompt", "steer", "followUp"}
UsersQueued ==
  /\ OfKind(steeringQueue, "steer") /\ OfKind(followUpQueue, "followUp")
  /\ \E kind \in UserKinds : OfKind(pending, kind)

\* While a turn's tools are executed its answer is the newest of newMessages, and
\* results has one result for each call that is done; at every other await of the
\* run all the calls of newMessages are answered.
ResultsTracked ==
  /\ pc = "answered" => Last(context).id = turns
  /\ pc = "tools" =>
       /\ newMessages # <<>> /\ Last(newMessages).id = turns
       /\ Last(newMessages).calls = Len(exec)
       /\ AllAnswered(Front(newMessages))
       /\ Outcomes(results) = {<<"toolResult", turns, i>> : i \in Done}
       /\ Len(results) = Cardinality(Done)
  /\ pc \notin {"idle", "tools", "end", "throw", "failed"} => AllAnswered(newMessages)

\* Where the elements of a concatenation are.
LEMMA Joined ==
  ASSUME NEW S, NEW s \in Seq(S), NEW t \in Seq(S)
  PROVE  /\ DOMAIN (s \o t) = 1..(Len(s) + Len(t))
         /\ \A k \in 1..Len(s) : (s \o t)[k] = s[k]
         /\ \A k \in 1..Len(t) : (s \o t)[Len(s) + k] = t[k]
<1>1. s \o t \in Seq(S) /\ Len(s \o t) = Len(s) + Len(t)
  BY ConcatProperties
<1>2. DOMAIN (s \o t) = 1..(Len(s) + Len(t))
  BY <1>1, LenProperties
<1> QED BY <1>2, LenProperties, ConcatProperties

\* Messages that call no tool may follow.
LEMMA AnsweredExtended ==
  ASSUME NEW s \in Seq(Known), NEW t \in Seq(Known), AllAnswered(s),
         \A k \in DOMAIN t : ~Calling(t[k])
  PROVE  AllAnswered(s \o t)
<1> DEFINE u == s \o t
<1>1. /\ Len(s) \in Nat /\ Len(t) \in Nat /\ DOMAIN s = 1..Len(s) /\ DOMAIN t = 1..Len(t)
      /\ DOMAIN u = 1..(Len(s) + Len(t))
      /\ \A k \in DOMAIN s : k \in DOMAIN u /\ u[k] = s[k]
      /\ \A k \in DOMAIN u : k \notin DOMAIN s => k - Len(s) \in DOMAIN t /\ u[k] = t[k - Len(s)]
  BY ConcatProperties, LenProperties
<1> HIDE DEF u
<1> SUFFICES ASSUME NEW k \in DOMAIN u, Calling(u[k]) PROVE AnsweredAt(u, k)
  BY DEF AllAnswered, u
<1>2. k \in DOMAIN s /\ u[k] = s[k]
  BY <1>1
<1>3. AnsweredAt(s, k)
  BY <1>2 DEF AllAnswered
<1>4. \A j \in (k + 1)..(k + s[k].calls) : j \in DOMAIN u /\ u[j] = s[j]
  BY <1>1, <1>3 DEF AnsweredAt
<1> QED BY <1>2, <1>3, <1>4 DEF AnsweredAt

\* The results of all its calls complete the last message.
LEMMA AnsweredCompleted ==
  ASSUME NEW s \in Seq(Known), NEW m \in Known, NEW r \in Seq(Known), AllAnswered(s),
         Len(r) = m.calls, Outcomes(r) = {<<"toolResult", m.id, i>> : i \in 1..m.calls}
  PROVE  AllAnswered(Append(s, m) \o r)
<1> DEFINE a == Append(s, m)
           u == a \o r
<1>1. /\ Len(s) \in Nat /\ Len(r) \in Nat /\ DOMAIN s = 1..Len(s) /\ DOMAIN r = 1..Len(r)
      /\ a \in Seq(Known) /\ Len(a) = Len(s) + 1
      /\ \A k \in DOMAIN s : k \in 1..Len(a) /\ a[k] = s[k]
      /\ a[Len(s) + 1] = m /\ Len(s) + 1 \in 1..Len(a)
  BY AppendProperties, LenProperties
<1> HIDE DEF a
<1>2. /\ DOMAIN u = 1..(Len(s) + 1 + Len(r))
      /\ \A k \in DOMAIN s : u[k] = s[k]
      /\ u[Len(s) + 1] = m
      /\ \A k \in DOMAIN r : u[Len(s) + 1 + k] = r[k]
  <2>1. /\ DOMAIN u = 1..(Len(a) + Len(r))
        /\ \A k \in 1..Len(a) : u[k] = a[k]
        /\ \A k \in 1..Len(r) : u[Len(a) + k] = r[k]
    <3>1. a \in Seq(Known)
      BY <1>1
    <3> HIDE DEF Known
    <3> QED BY <3>1, Joined
  <2> HIDE DEF u
  <2> QED BY <1>1, <2>1
<1> HIDE DEF u
<1>3. \A k \in DOMAIN r : ~Calling(r[k])
  <2> SUFFICES ASSUME NEW k \in DOMAIN r PROVE r[k].role # "assistant"
    BY DEF Calling
  <2>1. <<r[k].role, r[k].id, r[k].calls>> \in Outcomes(r)
    BY DEF Outcomes
  <2> QED BY <2>1
<1> SUFFICES ASSUME NEW k \in DOMAIN u, Calling(u[k]) PROVE AnsweredAt(u, k)
  BY DEF AllAnswered, u, a
<1>4. CASE k \in DOMAIN s
  <2>1. AnsweredAt(s, k) /\ u[k] = s[k]
    BY <1>2, <1>4 DEF AllAnswered
  <2>2. \A j \in (k + 1)..(k + s[k].calls) : j \in DOMAIN s
    BY <2>1 DEF AnsweredAt
  <2>3. \A j \in DOMAIN s : j \in DOMAIN u /\ u[j] = s[j]
    BY <1>1, <1>2
  <2> QED BY <2>1, <2>2, <2>3 DEF AnsweredAt
<1>5. CASE k = Len(s) + 1
  <2> DEFINE after == (k + 1)..(k + m.calls)
  <2>1. u[k] = m /\ after \subseteq DOMAIN u
    BY <1>1, <1>2, <1>5
  <2>2. {<<u[j].role, u[j].id, u[j].calls>> : j \in after} = Outcomes(r)
    <3>1. \A j \in after : j - k \in DOMAIN r /\ u[j] = r[j - k]
      BY <1>1, <1>2, <1>5, SMTT(30)
    <3>2. \A i \in DOMAIN r : k + i \in after /\ u[k + i] = r[i]
      BY <1>1, <1>2, <1>5
    <3> HIDE DEF after
    <3> QED BY <3>1, <3>2 DEF Outcomes
  <2> QED BY <2>1, <2>2 DEF AnsweredAt
<1>6. k \in DOMAIN s \/ k = Len(s) + 1
  <2>1. ASSUME k \notin DOMAIN s, k # Len(s) + 1 PROVE FALSE
    <3>1. k - (Len(s) + 1) \in DOMAIN r /\ k = Len(s) + 1 + (k - (Len(s) + 1))
      BY <1>1, <1>2, <2>1
    <3> QED BY <1>2, <1>3, <3>1
  <2> QED BY <2>1
<1> QED BY <1>4, <1>5, <1>6

\* Draining a queue shares out what it holds.
LEMMA DrainShares ==
  ASSUME NEW q \in Seq(Known), NEW mode, NEW kind, OfKind(q, kind)
  PROVE  OfKind(Drained(mode, q), kind) /\ OfKind(AfterDrain(mode, q), kind)
<1>1. CASE mode = "all" \/ q = <<>>
  <2>1. Drained(mode, q) = q /\ AfterDrain(mode, q) = <<>> /\ DOMAIN <<>> = {}
    BY <1>1 DEF Drained, AfterDrain
  <2> QED BY <2>1 DEF OfKind
<1>2. CASE mode # "all" /\ q # <<>>
  <2>1. Drained(mode, q) = <<q[1]>> /\ AfterDrain(mode, q) = Tail(q) /\ 1 \in DOMAIN q
    BY <1>2 DEF Drained, AfterDrain
  <2>2. \A k \in DOMAIN Tail(q) : k + 1 \in DOMAIN q /\ Tail(q)[k] = q[k + 1]
    BY <1>2, HeadTailProperties, LenProperties
  <2> QED BY <2>1, <2>2 DEF OfKind
<1> QED BY <1>1, <1>2

\* A message of the user may be queued, and one may be taken.
LEMMA UsersChange ==
  ASSUME NEW q \in Seq(Known), NEW kind, OfKind(q, kind)
  PROVE  /\ \A m \in Known : m.role = "user" /\ m.kind = kind => OfKind(Append(q, m), kind)
         /\ q # <<>> => /\ OfKind(Tail(q), kind)
                        /\ Head(q).role = "user" /\ Head(q).kind = kind
<1>1. ASSUME NEW m \in Known, m.role = "user", m.kind = kind PROVE OfKind(Append(q, m), kind)
  <2>1. \A k \in DOMAIN Append(q, m) : Append(q, m)[k] = m \/ (k \in DOMAIN q /\ Append(q, m)[k] = q[k])
    BY AppendProperties, LenProperties
  <2> QED BY <1>1, <2>1 DEF OfKind
<1>2. ASSUME q # <<>>
      PROVE  OfKind(Tail(q), kind) /\ Head(q).role = "user" /\ Head(q).kind = kind
  <2>1. \A k \in DOMAIN Tail(q) : k + 1 \in DOMAIN q /\ Tail(q)[k] = q[k + 1]
    BY <1>2, HeadTailProperties, LenProperties
  <2>2. 1 \in DOMAIN q /\ Head(q) = q[1]
    BY <1>2
  <2> QED BY <2>1, <2>2 DEF OfKind
<1> QED BY <1>1, <1>2

LEMMA UsersQueuedNext == TypeOK /\ Resumable /\ UsersQueued /\ [Next]_vars => UsersQueued'
<1> SUFFICES ASSUME TypeOK, Resumable, UsersQueued, [Next]_vars PROVE UsersQueued'
  OBVIOUS
<1> USE DEF LoopFrame, localVars, queueVars
<1>1. /\ steeringQueue \in Seq(Known) /\ followUpQueue \in Seq(Known)
      /\ pending \in Seq(Known) /\ created \in Nat
  BY DEF TypeOK, DataOK
<1>2. \A kind : OfKind(<<>>, kind)
  BY DEF OfKind
<1>kinds. {"prompt", "steer", "followUp"} \subseteq UserKinds
  BY DEF UserKinds
<1>3. CASE Application
  <2>1. CASE Prompt \/ ContinueTranscript
    BY <1>2, <1>kinds, <2>1 DEF Prompt, ContinueTranscript, StartRun, UsersQueued
  <2>2. CASE ContinueQueued
    BY <1>1, <1>2, <1>kinds, <2>2, DrainShares DEF ContinueQueued, StartRun, UsersQueued
  <2>3. CASE Steer \/ FollowUp
    <3>1. \A kind \in {"steer", "followUp"} :
            /\ User(kind, created + 1) \in Known
            /\ User(kind, created + 1).role = "user" /\ User(kind, created + 1).kind = kind
      <4>1. created + 1 \in Nat /\ 0 \in Nat
        BY <1>1
      <4>2. \A kind \in {"steer", "followUp"} : User(kind, created + 1) \in Known
        BY <4>1, BuiltMessages
      <4> QED BY <4>2 DEF User
    <3> QED BY <1>1, <2>3, <3>1, UsersChange, ZenonT(30) DEF Steer, FollowUp, AppFrame, UsersQueued
  <2>4. CASE ClearSteeringQueue \/ ClearFollowUpQueue \/ Reset
    BY <1>2, <2>4 DEF ClearSteeringQueue, ClearFollowUpQueue, Reset, AppFrame, UsersQueued
  <2>5. CASE SetSteeringMode \/ SetFollowUpMode \/ Abort \/ TrimFailedAnswer
    BY <2>5 DEF SetSteeringMode, SetFollowUpMode, Abort, TrimFailedAnswer, AppFrame,
                UsersQueued
  <2> QED BY <1>3, <2>1, <2>2, <2>3, <2>4, <2>5 DEF Application
<1>4. CASE Emit
  BY <1>4 DEF Emit, EmitNotice, EmitMessageStart, EmitMessageEnd, UsersQueued
<1>5. CASE QueueSteps
  <2>1. CASE PollAtStart
    BY <1>1, <1>2, <1>kinds, <2>1, DrainShares DEF PollAtStart, UsersQueued
  <2>2. CASE InjectPending
    BY <1>1, <2>2, UsersChange DEF InjectPending, At, Resumable, UsersQueued
  <2>3. CASE PollAfterTurn \/ PollBeforeStop
    BY <1>1, <1>kinds, <2>3, DrainShares DEF PollAfterTurn, PollBeforeStop, UsersQueued
  <2>4. CASE EmitPending \/ AllInjected
    BY <2>4 DEF EmitPending, AllInjected, UsersQueued
  <2> QED BY <1>5, <2>1, <2>2, <2>3, <2>4 DEF QueueSteps
<1>6. CASE TurnSteps
  BY <1>6 DEF TurnSteps, Request, TakeAnswer, CallSteps, StartCall, RefuseCall, PrepareCall,
              Finalize, Outcome, LaunchCalls, EndTurn, ToolFrame, UsersQueued
<1>7. CASE RunEnds
  BY <1>2, <1>7, <1>kinds DEF RunEnds, HandleRunFailure, FinishRun, UsersQueued
<1>8. CASE Throws
  BY <1>2, <1>8, <1>kinds DEF Throws, ListenerThrows, FailureListenerThrows, RequestThrows,
                    ExecutionThrows, Throw, UsersQueued
<1>9. CASE Provider
  BY <1>9 DEF Provider, StreamStart, StreamUpdate, StreamFinal, Partial, UsersQueued
<1>10. CASE Tools
  BY <1>10 DEF Tools, ToolSettles, OrphanSettles, ToolUpdate, ToolFrame, UsersQueued
<1>11. CASE UNCHANGED vars
  BY <1>11 DEF vars, UsersQueued
<1> QED BY <1>3, <1>4, <1>5, <1>6, <1>7, <1>8, <1>9, <1>10, <1>11 DEF Next, Inner

\* At an ordinary await the loop has no turn under way.
Ordinary(p) == p \notin {"idle", "answered", "tools", "end", "throw", "failed"}

\* What the steps keep that do not touch the new messages.
LEMMA ResultsSame ==
  ASSUME ResultsTracked
  PROVE  /\ UNCHANGED <<pc, context, newMessages, turns, exec, results>> => ResultsTracked'
         /\ Ordinary(pc) /\ Ordinary(pc') /\ UNCHANGED newMessages => ResultsTracked'
         /\ pc' \in {"idle", "end", "throw", "failed"} => ResultsTracked'
BY DEF ResultsTracked, Ordinary, Done

\* A call is dealt with: its result joins the results.
LEMMA ResultsOutcome ==
  ASSUME TypeOK, ResultsTracked, pc = "tools", NEW i \in DOMAIN exec, exec[i] # "final",
         NEW ok \in BOOLEAN, Outcome(i, ok)
  PROVE  ResultsTracked'
<1>1. /\ exec \in Seq(Statuses) /\ results \in Seq(Known) /\ turns \in Nat
      /\ newMessages \in Seq(Known)
  BY DEF TypeOK, DataOK
<1>2. /\ Len(exec) \in Nat /\ DOMAIN exec = 1..Len(exec) /\ i \in Nat
  BY <1>1, LenProperties
<1> DEFINE m == ToolResult(turns, i, ok)
<1>3. m \in Known /\ m.role = "toolResult" /\ m.id = turns /\ m.calls = i
  BY <1>1, <1>2, BuiltMessages DEF ToolResult
<1> HIDE DEF m
<1>4. /\ results' = Append(results, m) /\ exec' = [exec EXCEPT ![i] = "final"]
      /\ UNCHANGED <<pc, context, newMessages, turns>>
  BY DEF Outcome, ToolFrame, localVars, m
<1>5. Len(exec') = Len(exec)
  BY <1>1, <1>4
<1>6. Done' = Done \cup {i} /\ i \notin Done
  <2>1. DOMAIN exec' = DOMAIN exec /\ exec'[i] = "final"
        /\ \A j \in DOMAIN exec : j # i => exec'[j] = exec[j]
    BY <1>4
  <2> QED BY <2>1 DEF Done
<1>7. IsFiniteSet(Done)
  <2>1. Done \subseteq 1..Len(exec)
    BY <1>2 DEF Done
  <2>2. 1 \in Int /\ Len(exec) \in Int
    BY <1>2
  <2>3. IsFiniteSet(1..Len(exec))
    BY <2>2, FS_Interval
  <2> QED BY <2>1, <2>3, FS_Subset
<1>8. Cardinality(Done') = Cardinality(Done) + 1
  BY <1>6, <1>7, FS_AddElement
<1>9. Len(results') = Cardinality(Done')
  BY <1>1, <1>3, <1>4, <1>8, AppendProperties DEF ResultsTracked
<1>10. Outcomes(results') = Outcomes(results) \cup {<<"toolResult", turns, i>>}
  <2>1. /\ DOMAIN results' = DOMAIN results \cup {Len(results) + 1}
        /\ results'[Len(results) + 1] = m
        /\ \A k \in DOMAIN results : results'[k] = results[k]
    BY <1>1, <1>3, <1>4, AppendProperties, LenProperties
  <2> QED BY <1>3, <2>1 DEF Outcomes
<1>11. Outcomes(results') = {<<"toolResult", turns', k>> : k \in Done'}
  <2>1. Outcomes(results) = {<<"toolResult", turns, k>> : k \in Done}
    BY DEF ResultsTracked
  <2> QED BY <1>4, <1>6, <1>10, <2>1
<1> QED BY <1>4, <1>5, <1>9, <1>11 DEF ResultsTracked

\* A call moves on without an outcome.
LEMMA ResultsOpen ==
  ASSUME ResultsTracked, UNCHANGED <<pc, context, newMessages, turns, results>>,
         DOMAIN exec' = DOMAIN exec, Len(exec') = Len(exec),
         \A j \in DOMAIN exec : exec'[j] = "final" <=> exec[j] = "final"
  PROVE  ResultsTracked'
<1>1. Done' = Done
  BY DEF Done
<1> QED BY <1>1 DEF ResultsTracked

\* The answer is taken; its calls wait.
LEMMA ResultsTaken ==
  ASSUME TypeOK, Resumable, RunPhases, ResultsTracked, TakeAnswer
  PROVE  ResultsTracked'
<1> DEFINE m == Last(context)
<1>1. /\ context \in Seq(Known) /\ newMessages \in Seq(Known)
  BY DEF TypeOK, DataOK
<1>2. /\ pc = "answered" /\ results' = results /\ turns' = turns /\ pc' \in {"tools", "end"}
      /\ newMessages' = Append(newMessages, m)
      /\ pc' = "tools" => exec' = [i \in 1..m.calls |-> "waiting"]
  BY DEF TakeAnswer, At
<1>3. m \in Known /\ m.id = turns
  BY <1>1, <1>2, FrontLast DEF Resumable, ResultsTracked
<1>4. CASE pc' = "end"
  BY <1>4, ResultsSame
<1>5. CASE pc' = "tools"
  <2> HIDE DEF m
  <2>1. m.calls \in Nat
    BY <1>3 DEF Known, Message
  <2>2. DOMAIN exec' = 1..m.calls /\ Len(exec') = m.calls /\ \A j \in 1..m.calls : exec'[j] = "waiting"
    BY <1>2, <1>5, <2>1
  <2>3. Done' = {}
    BY <2>2 DEF Done
  <2>4. results' = <<>>
    BY <1>2 DEF RunPhases
  <2>5. Outcomes(results') = {} /\ Len(results') = 0
    BY <2>4 DEF Outcomes
  <2>6. Cardinality(Done') = 0
    BY <2>3, FS_EmptySet
  <2>7. {<<"toolResult", turns', i>> : i \in Done'} = {}
    BY <2>3
  <2>8. newMessages' # <<>> /\ Last(newMessages') = m /\ Front(newMessages') = newMessages
    BY <1>1, <1>2, <1>3, FrontOfAppend
  <2>9. AllAnswered(newMessages)
    BY <1>2 DEF ResultsTracked
  <2> QED BY <1>2, <1>3, <1>5, <2>2, <2>5, <2>6, <2>7, <2>8, <2>9 DEF ResultsTracked
<1> QED BY <1>2, <1>4, <1>5

\* The turn ends when all its calls are dealt with.
LEMMA ResultsEnd ==
  ASSUME TypeOK, ResultsTracked, EndTurn
  PROVE  ResultsTracked'
<1>1. /\ newMessages \in Seq(Known) /\ results \in Seq(Known) /\ exec \in Seq(Statuses)
  BY DEF TypeOK, DataOK
<1>2. /\ pc = "tools" /\ pc' = "turnEnd" /\ newMessages' = newMessages \o results
      /\ \A i \in DOMAIN exec : exec[i] = "final"
  BY DEF EndTurn, At, Awaited
<1> DEFINE m == Last(newMessages)
<1>3. /\ m \in Known /\ Front(newMessages) \in Seq(Known)
      /\ Append(Front(newMessages), m) = newMessages
      /\ m.id = turns /\ m.calls = Len(exec)
  BY <1>1, <1>2, FrontLast, FrontThenLast DEF ResultsTracked
<1> HIDE DEF m
<1>4. m.calls \in Nat /\ Done = 1..m.calls
  BY <1>1, <1>2, <1>3, LenProperties DEF Done
<1>5. Cardinality(1..m.calls) = m.calls
  BY <1>4, FS_Interval
<1>6. Len(results) = m.calls /\ Outcomes(results) = {<<"toolResult", m.id, i>> : i \in 1..m.calls}
  BY <1>2, <1>3, <1>4, <1>5 DEF ResultsTracked
<1>7. AllAnswered(newMessages')
  BY <1>1, <1>2, <1>3, <1>6, AnsweredCompleted DEF ResultsTracked
<1> QED BY <1>2, <1>7 DEF ResultsTracked

LEMMA ResultsTrackedNext ==
  TypeOK /\ Resumable /\ RunPhases /\ UsersQueued /\ ResultsTracked /\ [Next]_vars
    => ResultsTracked'
<1> SUFFICES ASSUME TypeOK, Resumable, RunPhases, UsersQueued, ResultsTracked, [Next]_vars
             PROVE  ResultsTracked'
  OBVIOUS
<1> USE DEF LoopFrame, localVars, callVars
<1>1. /\ context \in Seq(Known) /\ newMessages \in Seq(Known) /\ created \in Nat
      /\ exec \in Seq(Statuses) /\ pending \in Seq(Known) /\ turns \in Nat
      /\ steeringQueue \in Seq(Known) /\ followUpQueue \in Seq(Known)
  BY DEF TypeOK, DataOK
<1>2. CASE Application
  <2>1. ASSUME NEW prompts, NEW kind, OfKind(prompts, kind), NEW skip, StartRun(prompts, skip)
        PROVE  ResultsTracked'
    <3>1. pc' = "poll" /\ newMessages' = prompts
      BY <2>1 DEF StartRun, Reported
    <3>2. AllAnswered(prompts)
      BY <2>1 DEF OfKind, AllAnswered, Calling
    <3> QED BY <3>1, <3>2 DEF ResultsTracked
  <2>2. CASE Prompt
    <3>1. PICK n \in 1..MaxPrompt : StartRun([k \in 1..n |-> User("prompt", created + k)], FALSE)
      BY <2>2 DEF Prompt
    <3>2. OfKind([k \in 1..n |-> User("prompt", created + k)], "prompt")
      BY DEF OfKind, User
    <3> QED BY <2>1, <3>1, <3>2
  <2>3. CASE ContinueTranscript
    <3>1. OfKind(<<>>, "prompt")
      BY DEF OfKind
    <3> QED BY <2>1, <2>3, <3>1 DEF ContinueTranscript
  <2>4. CASE ContinueQueued
    BY <1>1, <2>1, <2>4, DrainShares DEF ContinueQueued, UsersQueued
  <2>5. CASE AppFrame
    <3>1. UNCHANGED <<pc, context, newMessages, turns, exec, results>>
      BY <2>5 DEF AppFrame
    <3> QED BY <3>1, ResultsSame
  <2> QED BY <1>2, <2>2, <2>3, <2>4, <2>5
          DEF Application, Steer, FollowUp, ClearSteeringQueue, ClearFollowUpQueue, Reset,
              SetSteeringMode, SetFollowUpMode, Abort, TrimFailedAnswer
<1>3. CASE Emit
  BY <1>3, ResultsSame DEF Emit, EmitNotice, EmitMessageStart, EmitMessageEnd
<1>4. CASE QueueSteps
  <2>1. CASE InjectPending
    <3> DEFINE m == Head(pending)
    <3>1. m \in Known /\ m.role = "user" /\ pc = "injected"
      BY <1>1, <2>1, UsersChange, HeadTailProperties DEF InjectPending, At, Resumable, UsersQueued
    <3>2. newMessages' = newMessages \o <<m>> /\ pc' = "inject"
      BY <1>1, <2>1, <3>1, AppendIsConcat DEF InjectPending
    <3>3. <<m>> \in Seq(Known) /\ \A k \in DOMAIN <<m>> : ~Calling(<<m>>[k])
      BY <3>1 DEF Calling
    <3> HIDE DEF m
    <3>4. AllAnswered(newMessages)
      BY <3>1 DEF ResultsTracked
    <3>5. AllAnswered(newMessages')
      BY <1>1, <3>2, <3>3, <3>4, AnsweredExtended
    <3> QED BY <3>2, <3>5 DEF ResultsTracked
  <2>2. CASE PollAtStart \/ EmitPending \/ AllInjected \/ PollAfterTurn
    BY <2>2, ResultsSame DEF PollAtStart, EmitPending, AllInjected, PollAfterTurn, Inject, At,
                             Ordinary
  <2>3. CASE PollBeforeStop
    BY <2>3, ResultsSame DEF PollBeforeStop, Inject, At, Ordinary
  <2> QED BY <1>4, <2>1, <2>2, <2>3 DEF QueueSteps
<1>5. CASE TurnSteps
  <2>1. CASE Request
    BY <2>1, ResultsSame DEF Request, At, Ordinary
  <2>2. CASE \E i \in CallIndices : CallSteps(i)
    <3>1. PICK i \in CallIndices : CallSteps(i)
      BY <2>2
    <3>2. /\ pc = "tools" /\ i \in DOMAIN exec /\ exec[i] # "final"
          /\ UNCHANGED <<pc, context, newMessages, turns>>
      BY <3>1 DEF CallSteps, StartCall, RefuseCall, PrepareCall, Finalize, FirstOpenCall,
                  Outcome, At, ToolFrame
    <3>3. CASE RefuseCall(i) \/ Finalize(i)
      <4>1. PICK ok \in BOOLEAN : Outcome(i, ok)
        BY <3>3 DEF RefuseCall, Finalize
      <4> QED BY <3>2, <4>1, ResultsOutcome
    <3>4. CASE StartCall(i) \/ PrepareCall(i)
      <4>1. /\ results' = results
            /\ \E s \in {"starting", "prepared", "executing"} : exec' = [exec EXCEPT ![i] = s]
        BY <3>4 DEF StartCall, PrepareCall
      <4>2. /\ DOMAIN exec' = DOMAIN exec /\ Len(exec') = Len(exec)
            /\ \A j \in DOMAIN exec : exec'[j] = "final" <=> exec[j] = "final"
        BY <1>1, <3>2, <4>1
      <4> QED BY <3>2, <4>1, <4>2, ResultsOpen
    <3> QED BY <3>1, <3>3, <3>4 DEF CallSteps
  <2>3. CASE LaunchCalls
    <3>1. /\ DOMAIN exec' = DOMAIN exec /\ Len(exec') = Len(exec)
          /\ \A j \in DOMAIN exec : exec'[j] = "final" <=> exec[j] = "final"
      BY <1>1, <2>3, LenProperties DEF LaunchCalls
    <3> QED BY <2>3, <3>1, ResultsOpen DEF LaunchCalls, ToolFrame
  <2> QED BY <1>5, <2>1, <2>2, <2>3, ResultsTaken, ResultsEnd DEF TurnSteps
<1>6. CASE RunEnds
  BY <1>6, ResultsSame DEF RunEnds, HandleRunFailure, FinishRun
<1>7. CASE Throws
  BY <1>7, ResultsSame DEF Throws, ListenerThrows, FailureListenerThrows, RequestThrows,
                           ExecutionThrows, Throw
<1>8. CASE Provider
  <2>1. CASE StreamStart \/ StreamUpdate
    BY <2>1, ResultsSame DEF StreamStart, StreamUpdate, Partial, At, Ordinary
  <2>2. CASE StreamFinal
    <3>1. PICK m \in Answers :
            context' = Append(IF pc = "streaming" THEN Front(context) ELSE context, m)
      BY <2>2 DEF StreamFinal
    <3>2. m \in Known /\ m.id = turns + 1
      <4>1. m \in Known
        BY <1>1, AnswersAreMessages
      <4>2. \A kind, n : Assistant(kind, turns + 1, n).id = turns + 1
        BY DEF Assistant
      <4>3. \E kind, n : m = Assistant(kind, turns + 1, n)
        BY DEF Answers
      <4> QED BY <4>1, <4>2, <4>3
    <3>3. pc = "streaming" => Front(context) \in Seq(Known)
      BY <1>1, FrontLast DEF Resumable
    <3>4. Last(context') = m
      BY <1>1, <3>1, <3>2, <3>3, FrontOfAppend
    <3>5. /\ pc \in {"stream", "streaming"} /\ pc' = "answered" /\ turns' = turns + 1
          /\ newMessages' = newMessages
      BY <2>2 DEF StreamFinal
    <3> QED BY <3>2, <3>4, <3>5 DEF ResultsTracked
  <2> QED BY <1>8, <2>1, <2>2 DEF Provider
<1>9. CASE Tools
  <2>1. CASE \E i \in CallIndices : ToolSettles(i)
    <3>1. PICK i \in CallIndices : ToolSettles(i)
      BY <2>1
    <3>2. /\ i \in DOMAIN exec /\ exec[i] = "executing"
          /\ \E s \in {"ok", "error", "rejected"} : exec' = [exec EXCEPT ![i] = s]
      BY <3>1 DEF ToolSettles
    <3>3. /\ DOMAIN exec' = DOMAIN exec /\ Len(exec') = Len(exec)
          /\ \A j \in DOMAIN exec : exec'[j] = "final" <=> exec[j] = "final"
      BY <1>1, <3>2
    <3> QED BY <3>1, <3>3, ResultsOpen DEF ToolSettles, ToolFrame
  <2>2. CASE (\E c \in orphans : OrphanSettles(c)) \/ (\E c \in Executing \cup orphans : ToolUpdate(c))
    BY <2>2, ResultsSame DEF OrphanSettles, ToolUpdate, countVars
  <2> QED BY <1>9, <2>1, <2>2 DEF Tools
<1>10. CASE UNCHANGED vars
  BY <1>10, ResultsSame DEF vars, countVars
<1> QED BY <1>2, <1>3, <1>4, <1>5, <1>6, <1>7, <1>8, <1>9, <1>10 DEF Next, Inner

\* Whenever the model is called again, every call of every answer the run received has
\* exactly one result, and the results follow their answer at once, with refused calls,
\* failing tools, sequential and parallel execution, and messages injected between the
\* turns (executeToolCalls and runLoop of agent-loop.ts).
THEOREM AnsweredTheorem == Spec => []CallsAnsweredBeforeRequest
<1> DEFINE IInv == TypeOK /\ Resumable /\ RunPhases /\ IdleIsClean /\ UsersQueued /\ ResultsTracked
<1>1. Init => IInv
  BY TypeInit, PhasesInit DEF Init, Resumable, OfKind, UserKinds, UsersQueued, ResultsTracked
<1>2. IInv /\ [Next]_vars => IInv'
  BY TypeNext, ResumableNext, PhasesNext, UsersQueuedNext, ResultsTrackedNext
<1>3. IInv => CallsAnsweredBeforeRequest
  BY DEF ResultsTracked, AllAnswered, AnsweredAt, Calling, At, CallsAnsweredBeforeRequest
<1> HIDE DEF IInv
<1> QED BY <1>1, <1>2, <1>3, PTL DEF Spec

-----------------------------------------------------------------------------
(***************************************************************************)
(* The messages the agent accepts: where each of them is, and that the     *)
(* agent with its queues and its loop is a Mailbox.                        *)
(***************************************************************************)
-------------------------------------------------------------------------------
(* Sequences of messages as sets of identities.                            *)

Distinct(s) == \A i, j \in DOMAIN s : s[i].id = s[j].id => i = j
Injective(d) == \A i, j \in DOMAIN d : d[i] = d[j] => i = j

LEMMA NoIds == IdsOf(<<>>) = {} /\ Distinct(<<>>)
BY DEF IdsOf, Distinct

LEMMA IdsOfAppend ==
  ASSUME NEW q \in Seq(Known), NEW m \in Known
  PROVE  /\ IdsOf(Append(q, m)) = IdsOf(q) \cup {m.id}
         /\ Distinct(q) /\ m.id \notin IdsOf(q) => Distinct(Append(q, m))
<1> DEFINE a == Append(q, m)
<1>1. /\ Len(q) \in Nat /\ DOMAIN q = 1..Len(q) /\ DOMAIN a = 1..(Len(q) + 1)
      /\ a[Len(q) + 1] = m /\ \A k \in DOMAIN q : a[k] = q[k]
  BY AppendProperties, LenProperties
<1> HIDE DEF a
<1>2. DOMAIN a = DOMAIN q \cup {Len(q) + 1}
  BY <1>1
<1>3. IdsOf(a) = IdsOf(q) \cup {m.id}
  BY <1>1, <1>2 DEF IdsOf
<1>4. ASSUME Distinct(q), m.id \notin IdsOf(q), NEW i \in DOMAIN a, NEW j \in DOMAIN a,
             a[i].id = a[j].id
      PROVE  i = j
  <2>1. \A k \in DOMAIN q : q[k].id # m.id
    BY <1>4 DEF IdsOf
  <2> QED BY <1>1, <1>2, <1>4, <2>1 DEF Distinct
<1> QED BY <1>3, <1>4 DEF Distinct, a

LEMMA IdsOfTail ==
  ASSUME NEW q \in Seq(Known), q # <<>>
  PROVE  /\ IdsOf(q) = {Head(q).id} \cup IdsOf(Tail(q))
         /\ Distinct(q) => Distinct(Tail(q)) /\ Head(q).id \notin IdsOf(Tail(q))
<1> DEFINE t == Tail(q)
<1>1. /\ Len(q) \in Nat /\ DOMAIN q = 1..Len(q) /\ DOMAIN t = 1..(Len(q) - 1)
      /\ Len(q) > 0 /\ Head(q) = q[1] /\ \A k \in DOMAIN t : t[k] = q[k + 1]
  BY HeadTailProperties, LenProperties
<1> HIDE DEF t
<1>2. \A k \in DOMAIN t : k + 1 \in DOMAIN q /\ k + 1 # 1
  BY <1>1
<1>3. \A k \in DOMAIN q : k = 1 \/ (k - 1 \in DOMAIN t /\ t[k - 1] = q[k])
  BY <1>1
<1>4. 1 \in DOMAIN q
  BY <1>1
<1>5. IdsOf(q) = {Head(q).id} \cup IdsOf(t)
  BY <1>1, <1>2, <1>3, <1>4 DEF IdsOf
<1>6. ASSUME Distinct(q) PROVE Distinct(t)
  <2>1. \A i, j \in DOMAIN t : t[i].id = t[j].id => i + 1 = j + 1
    BY <1>1, <1>2, <1>6 DEF Distinct
  <2> QED BY <1>1, <2>1 DEF Distinct
<1>7. ASSUME Distinct(q) PROVE Head(q).id \notin IdsOf(t)
  BY <1>1, <1>2, <1>4, <1>7 DEF Distinct, IdsOf
<1> QED BY <1>5, <1>6, <1>7 DEF t

\* Draining a queue splits its identities.
LEMMA IdsOfDrained ==
  ASSUME NEW q \in Seq(Known), NEW mode, Distinct(q)
  PROVE  /\ IdsOf(Drained(mode, q)) \cup IdsOf(AfterDrain(mode, q)) = IdsOf(q)
         /\ IdsOf(Drained(mode, q)) \cap IdsOf(AfterDrain(mode, q)) = {}
         /\ Distinct(Drained(mode, q)) /\ Distinct(AfterDrain(mode, q))
<1>1. CASE mode = "all" \/ q = <<>>
  <2>1. Drained(mode, q) = q /\ AfterDrain(mode, q) = <<>>
    BY <1>1 DEF Drained, AfterDrain
  <2> QED BY <2>1, NoIds
<1>2. CASE mode # "all" /\ q # <<>>
  <2>1. Drained(mode, q) = <<Head(q)>> /\ AfterDrain(mode, q) = Tail(q)
    BY <1>2 DEF Drained, AfterDrain
  <2>2. IdsOf(<<Head(q)>>) = {Head(q).id} /\ Distinct(<<Head(q)>>)
    BY DEF IdsOf, Distinct
  <2> QED BY <1>2, <2>1, <2>2, IdsOfTail
<1> QED BY <1>1, <1>2

LEMMA ToSetOfAppend ==
  ASSUME NEW d \in Seq(Nat), NEW e \in Nat
  PROVE  /\ ToSet(Append(d, e)) = ToSet(d) \cup {e}
         /\ Injective(d) /\ e \notin ToSet(d) => Injective(Append(d, e))
<1> DEFINE a == Append(d, e)
<1>1. /\ Len(d) \in Nat /\ DOMAIN d = 1..Len(d) /\ DOMAIN a = 1..(Len(d) + 1)
      /\ a[Len(d) + 1] = e /\ \A k \in DOMAIN d : a[k] = d[k]
  BY AppendProperties, LenProperties
<1> HIDE DEF a
<1>2. DOMAIN a = DOMAIN d \cup {Len(d) + 1}
  BY <1>1
<1>3. ToSet(a) = ToSet(d) \cup {e}
  BY <1>1, <1>2 DEF ToSet
<1>4. ASSUME Injective(d), e \notin ToSet(d), NEW i \in DOMAIN a, NEW j \in DOMAIN a, a[i] = a[j]
      PROVE  i = j
  <2>1. \A k \in DOMAIN d : d[k] # e
    BY <1>4 DEF ToSet
  <2> QED BY <1>1, <1>2, <1>4, <2>1 DEF Injective
<1> QED BY <1>3, <1>4 DEF Injective, a

-------------------------------------------------------------------------------
(* Every message in one place.                                             *)

\* The messages 1..n are in flight (f), in the two queues (s and u), delivered (d) or
\* dropped (g), each in one place and there once.
Placed(f, s, u, d, g, n) ==
  /\ Distinct(f) /\ Distinct(s) /\ Distinct(u) /\ Injective(d)
  /\ IdsOf(f) \cap IdsOf(s) = {} /\ IdsOf(f) \cap IdsOf(u) = {} /\ IdsOf(s) \cap IdsOf(u) = {}
  /\ (IdsOf(f) \cup IdsOf(s) \cup IdsOf(u)) \cap (ToSet(d) \cup g) = {}
  /\ ToSet(d) \cap g = {}
  /\ IdsOf(f) \cup IdsOf(s) \cup IdsOf(u) \cup ToSet(d) \cup g = 1..n

\* The two queues are alike.
LEMMA PlacedTurned ==
  ASSUME NEW f, NEW s, NEW u, NEW d, NEW g, NEW n, Placed(f, s, u, d, g, n)
  PROVE  Placed(f, u, s, d, g, n)
<1>1. /\ IdsOf(s) \cap IdsOf(u) = IdsOf(u) \cap IdsOf(s)
      /\ IdsOf(f) \cup IdsOf(s) \cup IdsOf(u) = IdsOf(f) \cup IdsOf(u) \cup IdsOf(s)
  OBVIOUS
<1> QED BY <1>1 DEF Placed

\* A new message enters a queue.
LEMMA PlacedAccepted ==
  ASSUME NEW f, NEW s \in Seq(Known), NEW u, NEW d, NEW g, NEW n \in Nat, NEW m \in Known,
         Placed(f, s, u, d, g, n), m.id = n + 1
  PROVE  Placed(f, Append(s, m), u, d, g, n + 1)
<1>1. n + 1 \notin 1..n /\ 1..(n + 1) = 1..n \cup {n + 1}
  OBVIOUS
<1>2. n + 1 \notin IdsOf(f) \cup IdsOf(s) \cup IdsOf(u) \cup ToSet(d) \cup g
  BY <1>1 DEF Placed
<1>3. IdsOf(Append(s, m)) = IdsOf(s) \cup {n + 1} /\ Distinct(Append(s, m))
  BY <1>2, IdsOfAppend DEF Placed
<1> HIDE <1>1
<1>4. IdsOf(f) \cup IdsOf(Append(s, m)) \cup IdsOf(u) \cup ToSet(d) \cup g = 1..(n + 1)
  BY <1>1, <1>3 DEF Placed
<1> QED BY <1>2, <1>3, <1>4 DEF Placed

\* A run starts with new prompts.
LEMMA PlacedPrompted ==
  ASSUME NEW s, NEW u, NEW d, NEW g, NEW n \in Nat, NEW k \in Nat,
         Placed(<<>>, s, u, d, g, n)
  PROVE  Placed([i \in 1..k |-> User("prompt", n + i)], s, u, d, g, n + k)
<1> DEFINE f == [i \in 1..k |-> User("prompt", n + i)]
<1>1. \A i \in 1..k : f[i].id = n + i
  BY DEF User
<1>2. DOMAIN f = 1..k
  OBVIOUS
<1> HIDE DEF f
<1>3. IdsOf(f) = {n + i : i \in 1..k}
  BY <1>1, <1>2 DEF IdsOf
<1>4. {n + i : i \in 1..k} = (n + 1)..(n + k)
  <2>1. \A j \in (n + 1)..(n + k) : j - n \in 1..k /\ j = n + (j - n)
    OBVIOUS
  <2>2. \A i \in 1..k : n + i \in (n + 1)..(n + k)
    OBVIOUS
  <2> QED BY <2>1, <2>2
<1>5. Distinct(f)
  BY <1>1, <1>2 DEF Distinct
<1>6. IdsOf(f) \cap 1..n = {} /\ IdsOf(f) \cup 1..n = 1..(n + k)
  <2>1. (n + 1)..(n + k) \cap 1..n = {} /\ (n + 1)..(n + k) \cup 1..n = 1..(n + k)
    OBVIOUS
  <2> QED BY <1>3, <1>4, <2>1
<1>7. IdsOf(s) \cup IdsOf(u) \cup ToSet(d) \cup g = 1..n
  BY NoIds DEF Placed
<1> HIDE <1>1, <1>3, <1>4
<1>8. /\ IdsOf(f) \cap IdsOf(s) = {} /\ IdsOf(f) \cap IdsOf(u) = {}
      /\ IdsOf(f) \cap (ToSet(d) \cup g) = {}
      /\ IdsOf(f) \cup IdsOf(s) \cup IdsOf(u) \cup ToSet(d) \cup g = 1..(n + k)
  BY <1>6, <1>7
<1>9. (IdsOf(s) \cup IdsOf(u)) \cap (ToSet(d) \cup g) = {}
  BY NoIds DEF Placed
<1>10. (IdsOf(f) \cup IdsOf(s) \cup IdsOf(u)) \cap (ToSet(d) \cup g) = {}
  BY <1>8, <1>9
<1> QED BY <1>5, <1>8, <1>10 DEF Placed, f

\* A run takes what it drains from a queue.
LEMMA PlacedTaken ==
  ASSUME NEW s \in Seq(Known), NEW u, NEW d, NEW g, NEW n, NEW mode,
         Placed(<<>>, s, u, d, g, n)
  PROVE  Placed(Drained(mode, s), AfterDrain(mode, s), u, d, g, n)
<1> DEFINE f == Drained(mode, s)
           r == AfterDrain(mode, s)
<1>1. /\ IdsOf(f) \cup IdsOf(r) = IdsOf(s) /\ IdsOf(f) \cap IdsOf(r) = {}
      /\ Distinct(f) /\ Distinct(r)
  BY IdsOfDrained DEF Placed
<1> HIDE DEF f, r
<1>2. /\ IdsOf(s) \cap IdsOf(u) = {} /\ (IdsOf(s) \cup IdsOf(u)) \cap (ToSet(d) \cup g) = {}
      /\ IdsOf(s) \cup IdsOf(u) \cup ToSet(d) \cup g = 1..n
      /\ Distinct(u) /\ Injective(d) /\ ToSet(d) \cap g = {}
  BY NoIds DEF Placed
<1>3. /\ IdsOf(f) \cap IdsOf(u) = {} /\ IdsOf(r) \cap IdsOf(u) = {}
      /\ (IdsOf(f) \cup IdsOf(r) \cup IdsOf(u)) \cap (ToSet(d) \cup g) = {}
      /\ IdsOf(f) \cup IdsOf(r) \cup IdsOf(u) \cup ToSet(d) \cup g = 1..n
  BY <1>1, <1>2
<1> QED BY <1>1, <1>2, <1>3 DEF Placed, f, r

\* The next message of a run is delivered.
LEMMA PlacedShown ==
  ASSUME NEW f \in Seq(Known), f # <<>>, NEW s, NEW u, NEW d \in Seq(Nat), NEW g, NEW n,
         Placed(f, s, u, d, g, n)
  PROVE  Placed(Tail(f), s, u, Append(d, Head(f).id), g, n)
<1> DEFINE e == Head(f).id
           t == Tail(f)
           a == Append(d, e)
<1>1. /\ IdsOf(f) = {e} \cup IdsOf(t) /\ Distinct(t) /\ e \notin IdsOf(t)
  BY IdsOfTail DEF Placed
<1>2. e \in Nat
  <2>1. Head(f) \in Known
    BY HeadTailProperties
  <2> QED BY <2>1 DEF Known, Message
<1>3. e \notin ToSet(d) \cup g \cup IdsOf(s) \cup IdsOf(u)
  BY <1>1 DEF Placed
<1>4. ToSet(a) = ToSet(d) \cup {e} /\ Injective(a)
  BY <1>2, <1>3, ToSetOfAppend DEF Placed
<1> HIDE DEF e, t, a
<1>5. IdsOf(t) \cup IdsOf(s) \cup IdsOf(u) \cup ToSet(a) \cup g = 1..n
  BY <1>1, <1>4 DEF Placed
<1>6. /\ (IdsOf(t) \cup IdsOf(s) \cup IdsOf(u)) \cap (ToSet(a) \cup g) = {}
      /\ ToSet(a) \cap g = {}
  BY <1>1, <1>3, <1>4 DEF Placed
<1> QED BY <1>1, <1>4, <1>5, <1>6 DEF Placed, t, a, e

\* What is in flight, or in a queue, is given up.
LEMMA PlacedGivenUp ==
  ASSUME NEW f, NEW s, NEW u, NEW d, NEW g, NEW n, Placed(f, s, u, d, g, n)
  PROVE  /\ Placed(<<>>, s, u, d, g \cup IdsOf(f), n)
         /\ Placed(f, <<>>, u, d, g \cup IdsOf(s), n)
<1>1. ASSUME NEW h, h = g \cup IdsOf(f) PROVE Placed(<<>>, s, u, d, h, n)
  BY <1>1, NoIds DEF Placed
<1>2. ASSUME NEW h, h = g \cup IdsOf(s) PROVE Placed(f, <<>>, u, d, h, n)
  BY <1>2, NoIds DEF Placed
<1> QED BY <1>1, <1>2

-------------------------------------------------------------------------------
(* What is in flight.                                                      *)

\* The messages a run has taken and not yet shown, in order.
Flight ==
  IF pending # <<>>
  THEN IF pc = "injected" /\ owed = <<>> THEN Tail(pending) ELSE pending
  ELSE IF pc = "poll" THEN owed ELSE <<>>

\* Messages of the assistant and of tools are in no line of the mailbox.
OfNoLine(s) == \A k \in DOMAIN s : s[k].role # "user" /\ s[k].kind \notin UserKinds

\* Where the two places of the messages in flight are in use.
MailPhases ==
  /\ pending # <<>> => pc \in {"inject", "injected"}
  /\ owed # <<>> => pc \in {"poll", "injected", "answered", "tools"}
  /\ pc = "injected" => owed = <<>> \/ owed = <<Head(pending)>>
  /\ pc = "injected" /\ owed = <<>> => Head(pending).id \in ToSet(delivered)
  /\ pc \in {"answered", "tools"} => OfNoLine(owed)
  /\ pc = "poll" => \E kind \in UserKinds : OfKind(owed, kind)

MailPlaced == Placed(Flight, steeringQueue, followUpQueue, delivered, dropped, created)

\* A step that changes neither place.
LEMMA PhasesSame ==
  ASSUME MailPhases, UNCHANGED <<pc, pending, owed, delivered>>
  PROVE  MailPhases' /\ Flight' = Flight
BY DEF MailPhases, Flight

LEMMA FlightTyped ==
  ASSUME TypeOK, UsersQueued, MailPhases
  PROVE  Flight \in Seq(Known) /\ \E kind \in UserKinds : OfKind(Flight, kind)
<1>1. pending \in Seq(Known) /\ owed \in Seq(Known)
  BY DEF TypeOK, DataOK
<1>2. CASE pending # <<>>
  <2>1. PICK kind \in UserKinds : OfKind(pending, kind)
    BY DEF UsersQueued
  <2>2. Tail(pending) \in Seq(Known) /\ OfKind(Tail(pending), kind)
    BY <1>1, <1>2, <2>1, HeadTailProperties, UsersChange
  <2> QED BY <1>1, <1>2, <2>1, <2>2 DEF Flight
<1>3. CASE pending = <<>> /\ pc = "poll"
  BY <1>1, <1>3 DEF Flight, MailPhases
<1>4. CASE pending = <<>> /\ pc # "poll"
  <2>1. Flight = <<>>
    BY <1>4 DEF Flight
  <2>2. OfKind(<<>>, "prompt") /\ "prompt" \in UserKinds /\ <<>> \in Seq(Known)
    BY DEF OfKind, UserKinds
  <2> QED BY <2>1, <2>2
<1> QED BY <1>2, <1>3, <1>4

\* The messages in flight of the agent's own account are those of Flight.
LEMMA InFlightIsFlight ==
  ASSUME TypeOK, Resumable, UsersQueued, MailPhases, MailPlaced
  PROVE  InFlight = IdsOf(Flight)
<1>1. pending \in Seq(Known) /\ owed \in Seq(Known)
  BY DEF TypeOK, DataOK
<1>2. IdsOf(Flight) \cap ToSet(delivered) = {}
  BY DEF MailPlaced, Placed
<1>3. \A n : n \in InFlight <=> /\ \E m \in ToSet(owed) \cup ToSet(pending) : m.role = "user" /\ m.id = n
                               /\ n \notin ToSet(delivered)
  BY DEF InFlight, ToSet
<1>4. CASE pending # <<>>
  <2>1. PICK kind \in UserKinds : OfKind(pending, kind)
    BY DEF UsersQueued
  <2>2. \A n : n \in IdsOf(pending) <=> \E m \in ToSet(pending) : m.role = "user" /\ m.id = n
    BY <2>1 DEF OfKind, IdsOf, ToSet
  <2>3. owed = <<>> \/ owed = <<Head(pending)>>
    BY <1>4 DEF MailPhases
  <2>4. ToSet(owed) \subseteq ToSet(pending)
    <3>1. 1 \in DOMAIN pending /\ Head(pending) = pending[1]
      BY <1>1, <1>4
    <3>2. Head(pending) \in ToSet(pending)
      BY <3>1 DEF ToSet
    <3>3. owed = <<>> => ToSet(owed) = {}
      BY DEF ToSet
    <3>4. owed = <<Head(pending)>> => ToSet(owed) = {Head(pending)}
      BY DEF ToSet
    <3> QED BY <2>3, <3>2, <3>3, <3>4
  <2>5. InFlight = IdsOf(pending) \ ToSet(delivered)
    BY <1>3, <2>2, <2>4
  <2>6. CASE pc = "injected" /\ owed = <<>>
    <3>1. Flight = Tail(pending) /\ Head(pending).id \in ToSet(delivered)
      BY <1>4, <2>6 DEF Flight, MailPhases
    <3>2. IdsOf(pending) = {Head(pending).id} \cup IdsOf(Tail(pending))
      BY <1>1, <1>4, IdsOfTail
    <3> QED BY <1>2, <2>5, <3>1, <3>2
  <2>7. CASE ~(pc = "injected" /\ owed = <<>>)
    <3>1. Flight = pending
      BY <1>4, <2>7 DEF Flight
    <3> QED BY <1>2, <2>5, <3>1
  <2> QED BY <2>6, <2>7
<1>5. CASE pending = <<>> /\ pc = "poll"
  <2>1. PICK kind \in UserKinds : OfKind(owed, kind)
    BY <1>5 DEF MailPhases
  <2>2. \A n : n \in IdsOf(owed) <=> \E m \in ToSet(owed) : m.role = "user" /\ m.id = n
    BY <2>1 DEF OfKind, IdsOf, ToSet
  <2>3. ToSet(pending) = {} /\ Flight = owed
    BY <1>5 DEF ToSet, Flight
  <2> QED BY <1>2, <1>3, <2>2, <2>3
<1>6. CASE pending = <<>> /\ pc # "poll"
  <2>1. ToSet(pending) = {} /\ Flight = <<>>
    BY <1>6 DEF ToSet, Flight
  <2>2. owed # <<>> => OfNoLine(owed)
    BY <1>6 DEF MailPhases, Resumable
  <2>3. \A m \in ToSet(owed) : m.role # "user"
    BY <2>2 DEF OfNoLine, ToSet
  <2> QED BY <1>3, <2>1, <2>3, NoIds
<1> QED BY <1>4, <1>5, <1>6

\* So each message is in one place.
LEMMA PlacedMeans ==
  ASSUME TypeOK, Resumable, UsersQueued, MailPhases, MailPlaced
  PROVE  EachMessageInOnePlace
<1>1. InFlight = IdsOf(Flight)
  BY InFlightIsFlight
<1>2. Len(delivered) = Cardinality(ToSet(delivered))
  <2>1. /\ Len(delivered) \in Nat /\ DOMAIN delivered = 1..Len(delivered)
        /\ delivered \in [1..Len(delivered) -> Nat]
    BY LenProperties DEF TypeOK, DataOK
  <2>2. delivered \in [1..Len(delivered) -> ToSet(delivered)]
    BY <2>1 DEF ToSet
  <2>3. \A a, b \in 1..Len(delivered) : delivered[a] = delivered[b] => a = b
    BY <2>1 DEF MailPlaced, Placed, Injective
  <2>4. \A t \in ToSet(delivered) : \E k \in 1..Len(delivered) : delivered[k] = t
    BY <2>1 DEF ToSet
  <2>5. ExistsBijection(1..Len(delivered), ToSet(delivered))
    BY <2>2, <2>3, <2>4 DEF ExistsBijection, Bijection, Injection, Surjection, IsInjective
  <2> QED BY <2>1, <2>5, FS_CountingElements
<1> QED BY <1>1, <1>2 DEF EachMessageInOnePlace, MailPlaced, Placed, Queued

-------------------------------------------------------------------------------
(* What a step of the agent does to its messages.                          *)

\* Nothing; a run that begins or ends here has nothing in flight.
MailStays ==
  /\ Flight' = Flight /\ UNCHANGED <<queueVars, fateVars, created>>
  /\ activeRun' = activeRun \/ Flight = <<>>
\* A run begins with new prompts.
MailPrompts ==
  /\ Flight = <<>> /\ ~activeRun /\ activeRun' /\ UNCHANGED <<queueVars, fateVars>>
  /\ \E n \in Nat \ {0} : /\ created' = created + n
                          /\ Flight' = [k \in 1..n |-> User("prompt", created + k)]
\* A run drains a queue.
MailTakesSteering ==
  /\ Flight = <<>> /\ activeRun'
  /\ Flight' = Drained(steeringMode, steeringQueue)
  /\ steeringQueue' = AfterDrain(steeringMode, steeringQueue)
  /\ UNCHANGED <<followUpQueue, fateVars, created>>
MailTakesFollowUp ==
  /\ Flight = <<>> /\ activeRun'
  /\ Flight' = Drained(followUpMode, followUpQueue)
  /\ followUpQueue' = AfterDrain(followUpMode, followUpQueue)
  /\ UNCHANGED <<steeringQueue, fateVars, created>>
\* A message is queued.
MailQueues ==
  /\ Flight' = Flight /\ created' = created + 1 /\ UNCHANGED <<fateVars, activeRun>>
  /\ \/ /\ steeringQueue' = Append(steeringQueue, User("steer", created + 1))
        /\ UNCHANGED followUpQueue
     \/ /\ followUpQueue' = Append(followUpQueue, User("followUp", created + 1))
        /\ UNCHANGED steeringQueue
\* One queue or both are cleared.
MailClears ==
  /\ Flight' = Flight /\ UNCHANGED <<delivered, created, activeRun>>
  /\ \/ /\ steeringQueue' = <<>> /\ UNCHANGED followUpQueue
        /\ dropped' = dropped \cup IdsOf(steeringQueue)
     \/ /\ followUpQueue' = <<>> /\ UNCHANGED steeringQueue
        /\ dropped' = dropped \cup IdsOf(followUpQueue)
     \/ /\ steeringQueue' = <<>> /\ followUpQueue' = <<>>
        /\ dropped' = dropped \cup IdsOf(steeringQueue) \cup IdsOf(followUpQueue)
\* A failing run gives up what it had taken.
MailGivesUp ==
  /\ activeRun /\ Flight' = <<>> /\ dropped' = dropped \cup IdsOf(Flight)
  /\ UNCHANGED <<queueVars, delivered, created, activeRun>>
\* The next message in flight is delivered.
MailShows ==
  /\ activeRun /\ Flight # <<>> /\ Flight' = Tail(Flight)
  /\ delivered' = Append(delivered, Head(Flight).id)
  /\ UNCHANGED <<queueVars, dropped, created, activeRun>>

MailStep ==
  \/ MailStays \/ MailPrompts \/ MailTakesSteering \/ MailTakesFollowUp \/ MailQueues
  \/ MailClears \/ MailGivesUp \/ MailShows

\* What the steps of the agent start from.
MailInv == TypeOK /\ Resumable /\ RunPhases /\ UsersQueued /\ MailPhases /\ MailPlaced

\* Steps of a run that has nothing in flight.
LEMMA MailQuiet ==
  ASSUME MailInv, pending = <<>>, pc # "poll", pending' = <<>>,
         pc' \notin {"poll", "injected"},
         owed' = <<>> \/ (pc' \in {"answered", "tools"} /\ OfNoLine(owed'))
  PROVE  MailPhases' /\ Flight = <<>> /\ Flight' = <<>>
<1>1. OfNoLine(<<>>)
  BY DEF OfNoLine
<1> QED BY <1>1 DEF MailPhases, Flight

LEMMA MailApplication ==
  MailInv /\ Application => MailPhases' /\ MailStep
<1> SUFFICES ASSUME MailInv, Application PROVE MailPhases' /\ MailStep
  OBVIOUS
<1>1. /\ steeringQueue \in Seq(Known) /\ followUpQueue \in Seq(Known) /\ created \in Nat
      /\ OfKind(steeringQueue, "steer") /\ OfKind(followUpQueue, "followUp")
  BY DEF MailInv, TypeOK, DataOK, UsersQueued
<1>2. ASSUME NEW prompts, NEW skip, StartRun(prompts, skip),
             NEW kind \in UserKinds, OfKind(prompts, kind)
      PROVE  /\ MailPhases' /\ Flight = <<>> /\ Flight' = prompts
             /\ ~activeRun /\ activeRun' /\ UNCHANGED fateVars
  <2>1. /\ ~activeRun /\ activeRun' /\ pending' = <<>> /\ owed' = prompts /\ pc' = "poll"
        /\ UNCHANGED fateVars
    BY <1>2 DEF StartRun, Announce
  <2>2. pc = "idle" /\ pending = <<>>
    BY <2>1 DEF MailInv, RunPhases, MailPhases
  <2> QED BY <1>2, <2>1, <2>2 DEF MailPhases, Flight
<1>3. {"prompt", "steer", "followUp"} \subseteq UserKinds
  BY DEF UserKinds
<1>4. CASE Prompt
  <2>1. PICK n \in 1..MaxPrompt :
          /\ created' = created + n /\ UNCHANGED queueVars
          /\ StartRun([k \in 1..n |-> User("prompt", created + k)], FALSE)
    BY <1>4 DEF Prompt
  <2>2. OfKind([k \in 1..n |-> User("prompt", created + k)], "prompt")
    BY DEF OfKind, User
  <2>3. n \in Nat \ {0}
    OBVIOUS
  <2> DEFINE prompts == [k \in 1..n |-> User("prompt", created + k)]
  <2> HIDE DEF prompts
  <2>4. StartRun(prompts, FALSE) /\ OfKind(prompts, "prompt")
    BY <2>1, <2>2 DEF prompts
  <2>5. /\ MailPhases' /\ Flight = <<>> /\ Flight' = prompts
        /\ ~activeRun /\ activeRun' /\ UNCHANGED fateVars
    BY <1>2, <1>3, <2>4
  <2> QED BY <2>1, <2>3, <2>5 DEF MailStep, MailPrompts, prompts
<1>5. CASE ContinueTranscript
  <2>1. OfKind(<<>>, "prompt")
    BY DEF OfKind
  <2>2. StartRun(<<>>, FALSE) /\ UNCHANGED <<created, queueVars>>
    BY <1>5 DEF ContinueTranscript
  <2>3. MailPhases' /\ Flight = <<>> /\ Flight' = <<>> /\ UNCHANGED fateVars
    BY <1>2, <1>3, <2>1, <2>2
  <2> QED BY <2>2, <2>3 DEF MailStep, MailStays
<1>6. CASE ContinueQueued
  <2>1. /\ OfKind(Drained(steeringMode, steeringQueue), "steer")
        /\ OfKind(Drained(followUpMode, followUpQueue), "followUp")
    BY <1>1, DrainShares
  <2> QED BY <1>2, <1>3, <1>6, <2>1
          DEF ContinueQueued, MailStep, MailTakesSteering, MailTakesFollowUp
<1>7. ASSUME AppFrame PROVE MailPhases' /\ Flight' = Flight /\ UNCHANGED <<delivered, activeRun>>
  BY <1>7, PhasesSame DEF AppFrame, localVars, emitVars, MailInv
<1>8. CASE Steer \/ FollowUp
  BY <1>7, <1>8 DEF Steer, FollowUp, MailStep, MailQueues, fateVars
<1>9. CASE ClearSteeringQueue \/ ClearFollowUpQueue \/ Reset
  BY <1>7, <1>9 DEF ClearSteeringQueue, ClearFollowUpQueue, Reset, MailStep, MailClears
<1>10. CASE SetSteeringMode \/ SetFollowUpMode \/ Abort \/ TrimFailedAnswer
  BY <1>7, <1>10 DEF SetSteeringMode, SetFollowUpMode, Abort, TrimFailedAnswer, MailStep,
                     MailStays, queueVars, fateVars
<1> QED BY <1>4, <1>5, <1>6, <1>8, <1>9, <1>10 DEF Application

LEMMA MailEmit == MailInv /\ Emit => MailPhases' /\ MailStep
<1> SUFFICES ASSUME MailInv, Emit PROVE MailPhases' /\ MailStep
  OBVIOUS
<1> USE DEF LoopFrame, localVars
<1>1. pending \in Seq(Known) /\ owed \in Seq(Known) /\ delivered \in Seq(Nat)
  BY DEF MailInv, TypeOK, DataOK
<1>2. CASE EmitNotice \/ EmitMessageStart
  BY <1>2, PhasesSame DEF EmitNotice, EmitMessageStart, MailInv, MailStep, MailStays, fateVars
<1>3. CASE EmitMessageEnd
  <2> DEFINE m == Head(owed)
  <2>1. /\ owed # <<>> /\ owed' = Tail(owed) /\ m \in Known
        /\ delivered' = IF m.role = "user" THEN Append(delivered, m.id) ELSE delivered
        /\ UNCHANGED <<pc, pending, activeRun, queueVars, dropped, created>>
    BY <1>1, <1>3, HeadTailProperties DEF EmitMessageEnd
  <2>2. m.id \in Nat
    BY <2>1 DEF Known, Message
  <2>3. pc \in {"poll", "injected", "answered", "tools"} /\ activeRun
    BY <2>1 DEF MailInv, MailPhases, RunPhases
  <2>4. CASE pc = "poll"
    <3>1. pending = <<>> /\ Flight = owed /\ Flight' = Tail(owed)
      BY <2>1, <2>4 DEF MailInv, MailPhases, Flight
    <3>2. PICK kind \in UserKinds : OfKind(owed, kind)
      BY <2>4 DEF MailInv, MailPhases
    <3>3. m.role = "user" /\ OfKind(owed', kind)
      BY <1>1, <2>1, <3>2, UsersChange
    <3>4. MailPhases'
      BY <2>1, <2>4, <3>1, <3>3 DEF MailPhases
    <3> QED BY <2>1, <2>3, <3>1, <3>3, <3>4 DEF MailStep, MailShows
  <2>5. CASE pc = "injected"
    <3>1. pending # <<>> /\ owed = <<Head(pending)>>
      BY <2>1, <2>5 DEF MailInv, MailPhases, Resumable
    <3>2. m = Head(pending) /\ owed' = <<>>
      BY <2>1, <3>1
    <3>3. Flight = pending /\ Flight' = Tail(pending)
      BY <2>1, <2>5, <3>1, <3>2 DEF Flight
    <3>4. m.role = "user"
      BY <1>1, <3>1, <3>2, UsersChange DEF MailInv, UsersQueued
    <3>5. m.id \in ToSet(delivered')
      BY <1>1, <2>1, <2>2, <3>4, ToSetOfAppend
    <3>6. MailPhases'
      BY <2>1, <2>5, <3>1, <3>2, <3>5 DEF MailPhases
    <3> HIDE DEF m
    <3> QED BY <2>1, <2>3, <3>1, <3>2, <3>3, <3>4, <3>6 DEF MailStep, MailShows
  <2>6. CASE pc \in {"answered", "tools"}
    <3>1. pending = <<>> /\ OfNoLine(owed)
      BY <2>6 DEF MailInv, MailPhases
    <3>2. /\ 1 \in DOMAIN owed /\ m = owed[1]
          /\ \A k \in DOMAIN owed' : k + 1 \in DOMAIN owed /\ owed'[k] = owed[k + 1]
      BY <1>1, <2>1, HeadTailProperties, LenProperties
    <3>3. m.role # "user" /\ OfNoLine(owed')
      BY <3>1, <3>2 DEF OfNoLine
    <3>4. MailPhases' /\ Flight = <<>> /\ Flight' = <<>>
      BY <2>1, <2>6, <3>1, <3>3, MailQuiet
    <3> QED BY <2>1, <3>3, <3>4 DEF MailStep, MailStays, fateVars
  <2> QED BY <2>3, <2>4, <2>5, <2>6
<1> QED BY <1>2, <1>3 DEF Emit

LEMMA MailQueueSteps == MailInv /\ QueueSteps => MailPhases' /\ MailStep
<1> SUFFICES ASSUME MailInv, QueueSteps PROVE MailPhases' /\ MailStep
  OBVIOUS
<1> USE DEF LoopFrame, localVars
<1>1. /\ pending \in Seq(Known) /\ steeringQueue \in Seq(Known) /\ followUpQueue \in Seq(Known)
      /\ OfKind(steeringQueue, "steer") /\ OfKind(followUpQueue, "followUp")
  BY DEF MailInv, TypeOK, DataOK, UsersQueued
<1>2. {"prompt", "steer", "followUp"} \subseteq UserKinds
  BY DEF UserKinds
<1>3. activeRun' /\ activeRun' = activeRun /\ owed = <<>> /\ notices = <<>>
  BY DEF QueueSteps, PollAtStart, EmitPending, InjectPending, AllInjected, PollAfterTurn,
         PollBeforeStop, At, MailInv, RunPhases
\* The loop polls a queue when it has nothing in flight.
<1>4. ASSUME pending = <<>>, pc \notin {"inject", "injected"},
             owed' = <<>>, pc' # "injected", pending' # <<>> => pc' = "inject",
             pc' # "poll"
      PROVE  MailPhases' /\ Flight = <<>> /\ Flight' = pending'
  BY <1>3, <1>4 DEF MailInv, MailPhases, Flight, OfNoLine
<1>5. CASE PollAtStart
  <2>1. /\ pc = "poll" /\ pc' = "inject" /\ owed' = <<>> /\ UNCHANGED <<followUpQueue, fateVars, created>>
        /\ pending = <<>>
    BY <1>3, <1>5 DEF PollAtStart, At, Quiet, MailInv, MailPhases
  <2>2. MailPhases' /\ Flight = <<>> /\ Flight' = pending'
    BY <1>4, <2>1
  <2>3. CASE skipPoll
    BY <1>3, <1>5, <2>1, <2>2, <2>3 DEF PollAtStart, MailStep, MailStays, queueVars
  <2>4. CASE ~skipPoll
    BY <1>3, <1>5, <2>1, <2>2, <2>4 DEF PollAtStart, MailStep, MailTakesSteering
  <2> QED BY <2>3, <2>4
<1>6. CASE EmitPending
  <2>1. /\ pc = "inject" /\ pc' = "injected" /\ pending # <<>> /\ owed' = <<Head(pending)>>
        /\ UNCHANGED <<pending, queueVars, fateVars, created>>
    BY <1>6 DEF EmitPending, At, Announce
  <2>2. MailPhases'
    BY <2>1 DEF MailPhases
  <2>3. Flight = pending /\ Flight' = pending
    BY <2>1 DEF Flight
  <2> QED BY <1>3, <2>1, <2>2, <2>3 DEF MailStep, MailStays
<1>7. CASE InjectPending
  <2>1. /\ pc = "injected" /\ pc' = "inject" /\ pending # <<>> /\ pending' = Tail(pending)
        /\ owed' = <<>> /\ UNCHANGED <<queueVars, fateVars, created>>
    BY <1>3, <1>7 DEF InjectPending, At, Quiet, MailInv, Resumable
  <2>2. MailPhases'
    BY <2>1 DEF MailPhases
  <2>3. Flight = Tail(pending) /\ Flight' = Tail(pending)
    BY <1>3, <2>1 DEF Flight
  <2> QED BY <1>3, <2>1, <2>2, <2>3 DEF MailStep, MailStays
<1>8. CASE AllInjected
  <2>1. /\ pc # "poll" /\ pc' = "request" /\ pending = <<>> /\ pending' = <<>> /\ owed' = <<>>
        /\ UNCHANGED <<queueVars, fateVars, created>>
    BY <1>3, <1>8 DEF AllInjected, At, Quiet
  <2>2. MailPhases' /\ Flight = <<>> /\ Flight' = <<>>
    BY <2>1, MailQuiet
  <2> QED BY <1>3, <2>1, <2>2 DEF MailStep, MailStays
<1>9. CASE PollAfterTurn
  <2>1. /\ pc = "turnEnd" /\ owed' = <<>> /\ pending = <<>>
        /\ UNCHANGED <<followUpQueue, fateVars, created>>
        /\ pc' \in {"inject", "stopping"} /\ (pending' # <<>> => pc' = "inject")
    BY <1>3, <1>9 DEF PollAfterTurn, At, Quiet, Inject, Announce, KeepGoing, MailInv, MailPhases
  <2>2. MailPhases' /\ Flight = <<>> /\ Flight' = pending'
    BY <1>4, <2>1
  <2> QED BY <1>3, <1>9, <2>1, <2>2 DEF PollAfterTurn, MailStep, MailTakesSteering
<1>10. CASE PollBeforeStop
  <2>1. followUpQueue = <<>> => Drained(followUpMode, followUpQueue) = <<>>
    BY DEF Drained
  <2>2. /\ pc = "stopping" /\ owed' = <<>> /\ pending = <<>>
        /\ UNCHANGED <<steeringQueue, fateVars, created>>
        /\ pc' \in {"inject", "end"} /\ (pending' # <<>> => pc' = "inject")
    BY <1>3, <1>10, <2>1 DEF PollBeforeStop, At, Inject, Announce, MailInv, MailPhases
  <2>3. MailPhases' /\ Flight = <<>> /\ Flight' = pending'
    BY <1>4, <2>2
  <2> QED BY <1>3, <1>10, <2>2, <2>3 DEF PollBeforeStop, MailStep, MailTakesFollowUp
<1> QED BY <1>5, <1>6, <1>7, <1>8, <1>9, <1>10 DEF QueueSteps

\* The steps of a turn find nothing in flight and take nothing.
LEMMA MailTurn == MailInv /\ (TurnSteps \/ Provider \/ RunEnds) => MailPhases' /\ MailStep
<1> SUFFICES ASSUME MailInv, TurnSteps \/ Provider \/ RunEnds PROVE MailPhases' /\ MailStep
  OBVIOUS
<1> USE DEF LoopFrame, localVars
<1>1. turns \in Nat
  BY DEF MailInv, TypeOK, DataOK
<1>2. ASSUME /\ pc \notin {"poll", "inject", "injected"} /\ pc' \notin {"poll", "injected"}
             /\ pending' = pending \/ pending' = <<>>
             /\ UNCHANGED <<queueVars, fateVars, created>>
             /\ owed' = <<>> \/ (pc' \in {"answered", "tools"} /\ OfNoLine(owed'))
      PROVE  MailPhases' /\ MailStep
  <2>1. pending = <<>> /\ pending' = <<>>
    BY <1>2 DEF MailInv, MailPhases
  <2>2. MailPhases' /\ Flight = <<>> /\ Flight' = <<>>
    BY <1>2, <2>1, MailQuiet
  <2> QED BY <1>2, <2>2 DEF MailStep, MailStays
<1>3. CASE TurnSteps
  <2>1. CASE Request \/ TakeAnswer \/ LaunchCalls \/ EndTurn
    BY <1>2, <2>1 DEF Request, TakeAnswer, LaunchCalls, EndTurn, ToolFrame, At, Quiet, Announce
  <2>2. CASE \E i \in CallIndices : CallSteps(i)
    <3>1. PICK i \in CallIndices : CallSteps(i)
      BY <2>2
    <3>2. /\ pc = "tools" /\ pc' = "tools" /\ owed = <<>>
          /\ UNCHANGED <<pending, queueVars, fateVars, created>>
      BY <3>1 DEF CallSteps, StartCall, RefuseCall, PrepareCall, Finalize, Outcome, At, ToolFrame
    <3>3. owed' = <<>> \/ \E ok \in BOOLEAN : owed' = <<ToolResult(turns, i, ok)>>
      BY <3>1, <3>2 DEF CallSteps, StartCall, RefuseCall, PrepareCall, Finalize, Outcome, Quiet,
                        Announce
    <3>4. \A ok \in BOOLEAN : OfNoLine(<<ToolResult(turns, i, ok)>>)
      BY DEF OfNoLine, ToolResult, UserKinds
    <3> QED BY <1>2, <3>2, <3>3, <3>4
  <2> QED BY <1>3, <2>1, <2>2 DEF TurnSteps
<1>4. CASE Provider
  <2>1. CASE StreamStart \/ StreamUpdate
    BY <1>2, <2>1 DEF StreamStart, StreamUpdate, Partial, At, fateVars
  <2>2. CASE StreamFinal
    <3>1. PICK m \in Answers : owed' = <<m>>
      BY <2>2 DEF StreamFinal
    <3>2. m.role = "assistant" /\ m.kind \in {"stop", "error", "aborted"}
      <4>1. PICK kind \in {"stop", "error", "aborted"}, n \in Nat : m = Assistant(kind, turns + 1, n)
        BY DEF Answers
      <4> QED BY <4>1 DEF Assistant
    <3>3. OfNoLine(<<m>>)
      BY <3>2 DEF OfNoLine, UserKinds
    <3> QED BY <1>2, <2>2, <3>1, <3>3 DEF StreamFinal
  <2> QED BY <1>4, <2>1, <2>2 DEF Provider
<1>5. CASE RunEnds
  <2>1. CASE HandleRunFailure
    BY <1>2, <2>1 DEF HandleRunFailure, Announce
  <2>2. CASE FinishRun
    BY <1>2, <2>2 DEF FinishRun, RunOver, At, Quiet, countVars
  <2> QED BY <1>5, <2>1, <2>2 DEF RunEnds
<1> QED BY <1>3, <1>4, <1>5

LEMMA MailThrows == MailInv /\ Throws => MailPhases' /\ MailStep
<1> SUFFICES ASSUME MailInv, Throws PROVE MailPhases' /\ MailStep
  OBVIOUS
<1>1. ASSUME Throw, activeRun PROVE MailPhases' /\ MailStep
  <2>1. /\ pc' = "throw" /\ pending' = <<>> /\ owed' = <<>> /\ dropped' = dropped \cup InFlight
        /\ UNCHANGED <<queueVars, delivered, created, activeRun>>
    BY <1>1 DEF Throw, Announce, LoopFrame
  <2>2. MailPhases' /\ Flight' = <<>>
    BY <2>1 DEF MailPhases, Flight
  <2>3. InFlight = IdsOf(Flight)
    BY InFlightIsFlight DEF MailInv
  <2> QED BY <1>1, <2>1, <2>2, <2>3 DEF MailStep, MailGivesUp
<1>2. CASE ListenerThrows
  BY <1>1, <1>2 DEF ListenerThrows, MailInv, RunPhases
<1>3. CASE FailureListenerThrows
  BY <1>3, PhasesSame DEF FailureListenerThrows, LoopFrame, localVars, MailInv, MailStep,
                          MailStays, fateVars
<1>4. CASE RequestThrows
  BY <1>1, <1>4 DEF RequestThrows, At, MailInv, RunPhases
<1>5. CASE \E i \in CallIndices : ExecutionThrows(i)
  BY <1>1, <1>5 DEF ExecutionThrows, At, MailInv, RunPhases
<1> QED BY <1>2, <1>3, <1>4, <1>5 DEF Throws

\* Every step of the agent is one of these.
LEMMA MailSteps == MailInv /\ [Next]_vars => MailPhases' /\ MailStep
<1> SUFFICES ASSUME MailInv, [Next]_vars PROVE MailPhases' /\ MailStep
  OBVIOUS
<1>1. CASE Tools
  BY <1>1, PhasesSame DEF Tools, ToolSettles, OrphanSettles, ToolUpdate, ToolFrame, LoopFrame,
                          runVars, localVars, emitVars, countVars, fateVars, MailInv, MailStep,
                          MailStays
<1>2. CASE UNCHANGED vars
  BY <1>2, PhasesSame DEF vars, runVars, localVars, emitVars, countVars, fateVars, MailInv,
                          MailStep, MailStays
<1> QED BY <1>1, <1>2, MailApplication, MailEmit, MailQueueSteps, MailTurn, MailThrows
        DEF Next, Inner

-------------------------------------------------------------------------------
(* Every message is in one place.                                          *)

LEMMA PlacedNext == MailInv /\ MailStep => MailPlaced'
<1> SUFFICES ASSUME MailInv, MailStep PROVE MailPlaced'
  OBVIOUS
<1>1. /\ steeringQueue \in Seq(Known) /\ followUpQueue \in Seq(Known) /\ created \in Nat
      /\ delivered \in Seq(Nat) /\ Flight \in Seq(Known)
  BY FlightTyped DEF MailInv, TypeOK, DataOK
<1>2. Placed(Flight, steeringQueue, followUpQueue, delivered, dropped, created)
  BY DEF MailInv, MailPlaced
<1>3. Placed(Flight, followUpQueue, steeringQueue, delivered, dropped, created)
  BY <1>2, PlacedTurned
<1> USE DEF queueVars, fateVars
<1>4. CASE MailStays
  BY <1>2, <1>4 DEF MailStays, MailPlaced
<1>5. CASE MailPrompts
  <2>1. PICK n \in Nat \ {0} : /\ created' = created + n
                              /\ Flight' = [k \in 1..n |-> User("prompt", created + k)]
    BY <1>5 DEF MailPrompts
  <2>2. Placed(<<>>, steeringQueue, followUpQueue, delivered, dropped, created)
    BY <1>2, <1>5 DEF MailPrompts
  <2>3. Placed([k \in 1..n |-> User("prompt", created + k)], steeringQueue, followUpQueue,
               delivered, dropped, created + n)
    BY <1>1, <2>2, PlacedPrompted
  <2> QED BY <1>5, <2>1, <2>3 DEF MailPrompts, MailPlaced
<1>6. CASE MailTakesSteering
  <2>1. Placed(<<>>, steeringQueue, followUpQueue, delivered, dropped, created)
    BY <1>2, <1>6 DEF MailTakesSteering
  <2>2. Placed(Drained(steeringMode, steeringQueue), AfterDrain(steeringMode, steeringQueue),
               followUpQueue, delivered, dropped, created)
    BY <1>1, <2>1, PlacedTaken
  <2> QED BY <1>6, <2>2 DEF MailTakesSteering, MailPlaced
<1>7. CASE MailTakesFollowUp
  <2>1. Placed(<<>>, followUpQueue, steeringQueue, delivered, dropped, created)
    BY <1>3, <1>7 DEF MailTakesFollowUp
  <2>2. Placed(Drained(followUpMode, followUpQueue), AfterDrain(followUpMode, followUpQueue),
               steeringQueue, delivered, dropped, created)
    BY <1>1, <2>1, PlacedTaken
  <2>3. Placed(Drained(followUpMode, followUpQueue), steeringQueue,
               AfterDrain(followUpMode, followUpQueue), delivered, dropped, created)
    BY <2>2, PlacedTurned
  <2> QED BY <1>7, <2>3 DEF MailTakesFollowUp, MailPlaced
<1>8. CASE MailQueues
  <2>1. \A kind \in {"steer", "followUp"} :
          User(kind, created + 1) \in Known /\ User(kind, created + 1).id = created + 1
    <3>1. created + 1 \in Nat /\ 0 \in Nat
      BY <1>1
    <3> QED BY <3>1, BuiltMessages DEF User
  <2>2. Placed(Flight, Append(steeringQueue, User("steer", created + 1)), followUpQueue,
               delivered, dropped, created + 1)
    BY <1>1, <1>2, <2>1, PlacedAccepted
  <2>3. Placed(Flight, Append(followUpQueue, User("followUp", created + 1)), steeringQueue,
               delivered, dropped, created + 1)
    BY <1>1, <1>3, <2>1, PlacedAccepted
  <2>4. Placed(Flight, steeringQueue, Append(followUpQueue, User("followUp", created + 1)),
               delivered, dropped, created + 1)
    BY <2>3, PlacedTurned
  <2> QED BY <1>8, <2>2, <2>4 DEF MailQueues, MailPlaced
<1>9. CASE MailClears
  <2> DEFINE gone == dropped \cup IdsOf(steeringQueue)
  <2>1. Placed(Flight, <<>>, followUpQueue, delivered, gone, created)
    BY <1>2, PlacedGivenUp
  <2>2. Placed(Flight, <<>>, steeringQueue, delivered, dropped \cup IdsOf(followUpQueue), created)
    BY <1>3, PlacedGivenUp
  <2>3. Placed(Flight, steeringQueue, <<>>, delivered, dropped \cup IdsOf(followUpQueue), created)
    BY <2>2, PlacedTurned
  <2>4. Placed(Flight, followUpQueue, <<>>, delivered, gone, created)
    BY <2>1, PlacedTurned
  <2>5. Placed(Flight, <<>>, <<>>, delivered, gone \cup IdsOf(followUpQueue), created)
    BY <2>4, PlacedGivenUp
  <2> QED BY <1>9, <2>1, <2>3, <2>5 DEF MailClears, MailPlaced
<1>10. CASE MailGivesUp
  <2>1. Placed(<<>>, steeringQueue, followUpQueue, delivered, dropped \cup IdsOf(Flight), created)
    BY <1>2, PlacedGivenUp
  <2> QED BY <1>10, <2>1 DEF MailGivesUp, MailPlaced
<1>11. CASE MailShows
  <2>1. Placed(Tail(Flight), steeringQueue, followUpQueue, Append(delivered, Head(Flight).id),
               dropped, created)
    BY <1>1, <1>2, <1>11, PlacedShown DEF MailShows
  <2> QED BY <1>11, <2>1 DEF MailShows, MailPlaced
<1> QED BY <1>4, <1>5, <1>6, <1>7, <1>8, <1>9, <1>10, <1>11 DEF MailStep

LEMMA MailInit == Init => MailInv /\ IdleIsClean
<1> SUFFICES ASSUME Init PROVE MailInv /\ IdleIsClean
  OBVIOUS
<1>1. TypeOK /\ RunPhases /\ IdleIsClean
  BY TypeInit, PhasesInit
<1>2. Resumable /\ MailPhases /\ Flight = <<>>
  BY DEF Init, Resumable, MailPhases, Flight
<1>3. UsersQueued
  BY DEF Init, UsersQueued, OfKind, UserKinds
<1>4. ToSet(<<>>) = {} /\ Injective(<<>>) /\ 1..0 = {}
  BY DEF ToSet, Injective
<1>5. MailPlaced
  BY <1>2, <1>4, NoIds DEF Init, MailPlaced, Placed
<1> QED BY <1>1, <1>2, <1>3, <1>5 DEF MailInv

LEMMA MailNext == MailInv /\ IdleIsClean /\ [Next]_vars => (MailInv /\ IdleIsClean)'
BY TypeNext, ResumableNext, PhasesNext, UsersQueuedNext, MailSteps, PlacedNext DEF MailInv

\* Every message the agent accepted is in exactly one place, once: in its queue, taken by
\* a run and on its way, delivered to the transcript, or given up by a clear, a reset or a
\* failed run; none is lost and none is delivered twice, whoever polls, clears, aborts or
\* throws, at whatever await (PendingMessageQueue and runWithLifecycle of agent.ts, runLoop
\* of agent-loop.ts).
THEOREM OnePlaceTheorem == Spec => []EachMessageInOnePlace
<1> DEFINE IInv == MailInv /\ IdleIsClean
<1>1. Init => IInv
  BY MailInit
<1>2. IInv /\ [Next]_vars => IInv'
  BY MailNext
<1>3. IInv => EachMessageInOnePlace
  BY PlacedMeans DEF MailInv
<1> HIDE DEF IInv
<1> QED BY <1>1, <1>2, <1>3, PTL DEF Spec

-------------------------------------------------------------------------------
(* The agent is a Mailbox.                                                 *)

\* The messages of flight f that belong to line l, and the queue behind them.
InLine(f, l) == IF f # <<>> /\ Head(f).kind = l THEN f ELSE <<>>
QueueOf(l, s, u) == IF l = "steer" THEN s ELSE IF l = "followUp" THEN u ELSE <<>>
LineOf(f, s, u) == [l \in UserKinds |-> Ids(InLine(f, l) \o QueueOf(l, s, u))]

LEMMA IdsProperties ==
  ASSUME NEW q \in Seq(Known)
  PROVE  /\ Ids(q) \in Seq(Nat) /\ Len(Ids(q)) = Len(q) /\ ToSet(Ids(q)) = IdsOf(q)
         /\ \A k \in 1..Len(q) : Ids(q)[k] = q[k].id
<1>1. Len(q) \in Nat /\ DOMAIN q = 1..Len(q) /\ \A k \in 1..Len(q) : q[k] \in Known
  BY LenProperties, ElementOfSeq
<1>2. \A k \in 1..Len(q) : q[k].id \in Nat
  BY <1>1 DEF Known, Message
<1>3. Ids(q) = [k \in 1..Len(q) |-> q[k].id]
  BY <1>1 DEF Ids
<1>4. Ids(q) \in [1..Len(q) -> Nat]
  BY <1>2, <1>3
<1>5. Ids(q) \in Seq(Nat) /\ Len(Ids(q)) = Len(q)
  BY <1>1, <1>4, FunctionIsSeq
<1>6. ToSet(Ids(q)) = IdsOf(q)
  BY <1>1, <1>3 DEF ToSet, IdsOf
<1> QED BY <1>3, <1>5, <1>6

LEMMA IdsOfNothing == Ids(<<>>) = <<>> /\ ToSet(<<>>) = {}
<1>1. <<>> \in Seq(Known) /\ Len(<<>>) = 0
  OBVIOUS
<1>2. Ids(<<>>) \in Seq(Nat) /\ Len(Ids(<<>>)) = 0
  BY <1>1, IdsProperties
<1> QED BY <1>2, EmptySeq DEF ToSet

\* A message is queued behind what is there; the first one leaves.
LEMMA IdsMove ==
  ASSUME NEW t \in Seq(Known), NEW q \in Seq(Known)
  PROVE  /\ \A m \in Known : Ids(t \o Append(q, m)) = Append(Ids(t \o q), m.id)
         /\ t # <<>> => /\ Ids(t \o q) # <<>> /\ Head(Ids(t \o q)) = Head(t).id
                        /\ Ids(Tail(t) \o q) = Tail(Ids(t \o q))
<1>1. t \o q \in Seq(Known) /\ Len(t) \in Nat /\ Len(q) \in Nat /\ Len(t \o q) = Len(t) + Len(q)
  BY ConcatProperties, LenProperties
<1>2. ASSUME NEW m \in Known PROVE Ids(t \o Append(q, m)) = Append(Ids(t \o q), m.id)
  <2>1. t \o Append(q, m) = Append(t \o q, m)
    BY AppendRight
  <2> DEFINE s == t \o q
             a == Append(s, m)
  <2>2. /\ a \in Seq(Known) /\ Len(a) = Len(s) + 1 /\ a[Len(s) + 1] = m
        /\ \A k \in 1..Len(s) : a[k] = s[k]
    BY <1>1, AppendProperties
  <2>3. m.id \in Nat
    BY DEF Known, Message
  <2> HIDE DEF s, a
  <2>4. s \in Seq(Known) /\ Len(s) \in Nat
    BY <1>1 DEF s
  <2>5. /\ Ids(a) \in Seq(Nat) /\ Len(Ids(a)) = Len(s) + 1
        /\ \A k \in 1..(Len(s) + 1) : Ids(a)[k] = a[k].id
    BY <2>2, <2>4, IdsProperties
  <2>6. /\ Ids(s) \in Seq(Nat) /\ Len(Ids(s)) = Len(s)
        /\ \A k \in 1..Len(s) : Ids(s)[k] = s[k].id
    BY <2>4, IdsProperties
  <2>7. /\ Append(Ids(s), m.id) \in Seq(Nat) /\ Len(Append(Ids(s), m.id)) = Len(s) + 1
        /\ Append(Ids(s), m.id)[Len(s) + 1] = m.id
        /\ \A k \in 1..Len(s) : Append(Ids(s), m.id)[k] = Ids(s)[k]
    BY <2>3, <2>6, AppendProperties
  <2>8. \A k \in 1..(Len(s) + 1) : Ids(a)[k] = Append(Ids(s), m.id)[k]
    <3>1. \A k \in 1..(Len(s) + 1) : k = Len(s) + 1 \/ k \in 1..Len(s)
      BY <2>4
    <3> QED BY <2>2, <2>5, <2>6, <2>7, <3>1
  <2>9. Ids(a) = Append(Ids(s), m.id)
    BY <2>5, <2>7, <2>8, SeqEqual
  <2> QED BY <2>1, <2>9 DEF a, s
<1>3. ASSUME t # <<>>
      PROVE  /\ Ids(t \o q) # <<>> /\ Head(Ids(t \o q)) = Head(t).id
             /\ Ids(Tail(t) \o q) = Tail(Ids(t \o q))
  <2> DEFINE s == t \o q
             r == Tail(t) \o q
  <2>1. /\ Tail(t) \in Seq(Known) /\ Len(Tail(t)) = Len(t) - 1 /\ Len(t) >= 1 /\ Head(t) = t[1]
        /\ \A k \in 1..(Len(t) - 1) : Tail(t)[k] = t[k + 1]
    BY <1>3, HeadTailProperties, LenProperties
  <2>2. r \in Seq(Known) /\ Len(r) = Len(s) - 1 /\ Len(s) >= 1 /\ s \in Seq(Known) /\ Len(s) \in Nat
    BY <1>1, <2>1, ConcatProperties
  <2>3. s[1] = Head(t) /\ \A k \in 1..(Len(s) - 1) : r[k] = s[k + 1]
    BY <1>1, <2>1, <2>2, ConcatProperties
  <2> HIDE DEF s, r
  <2>4. /\ Ids(s) \in Seq(Nat) /\ Len(Ids(s)) = Len(s) /\ \A k \in 1..Len(s) : Ids(s)[k] = s[k].id
        /\ Ids(r) \in Seq(Nat) /\ Len(Ids(r)) = Len(r) /\ \A k \in 1..Len(r) : Ids(r)[k] = r[k].id
    BY <2>2, IdsProperties
  <2>5. Ids(s) # <<>> /\ Head(Ids(s)) = Ids(s)[1]
    BY <2>2, <2>4
  <2>6. /\ Tail(Ids(s)) \in Seq(Nat) /\ Len(Tail(Ids(s))) = Len(s) - 1
        /\ \A k \in 1..(Len(s) - 1) : Tail(Ids(s))[k] = Ids(s)[k + 1]
    BY <2>2, <2>4, <2>5, HeadTailProperties
  <2>7. \A k \in 1..(Len(s) - 1) : Ids(r)[k] = Tail(Ids(s))[k]
    <3>1. \A k \in 1..(Len(s) - 1) : k + 1 \in 1..Len(s) /\ k \in 1..Len(r)
      BY <2>2
    <3>2. \A k \in 1..(Len(s) - 1) : Ids(r)[k] = r[k].id /\ Ids(s)[k + 1] = s[k + 1].id
      BY <2>4, <3>1
    <3> QED BY <2>3, <2>6, <3>2
  <2>8. Ids(r) = Tail(Ids(s))
    BY <2>2, <2>4, <2>6, <2>7, SeqEqual
  <2> QED BY <2>2, <2>3, <2>4, <2>5, <2>8 DEF s, r
<1> QED BY <1>2, <1>3

\* What is behind the first m elements.
LEMMA Behind ==
  ASSUME NEW z \in Seq(Nat), NEW m \in Nat, NEW n \in Nat, Len(z) = m + n
  PROVE  /\ SubSeq(z, m + 1, Len(z)) \in Seq(Nat) /\ Len(SubSeq(z, m + 1, Len(z))) = n
         /\ \A k \in 1..n : SubSeq(z, m + 1, Len(z))[k] = z[m + k]
<1>1. \A i \in (m + 1)..(m + n) : z[i] \in Nat
  BY ElementOfSeq
<1>2. m + 1 \in Int /\ m + n \in Int /\ (m + n) - (m + 1) + 1 = n
  OBVIOUS
<1>3. /\ SubSeq(z, m + 1, m + n) \in Seq(Nat)
      /\ Len(SubSeq(z, m + 1, m + n)) = IF m + 1 <= m + n THEN (m + n) - (m + 1) + 1 ELSE 0
      /\ \A i \in 1..((m + n) - (m + 1) + 1) : SubSeq(z, m + 1, m + n)[i] = z[m + 1 + i - 1]
  BY <1>1, <1>2, SubSeqProperties
<1>4. (IF m + 1 <= m + n THEN (m + n) - (m + 1) + 1 ELSE 0) = n
  OBVIOUS
<1>5. \A k \in 1..n : m + 1 + k - 1 = m + k
  OBVIOUS
<1> QED
  BY <1>2, <1>3, <1>4, <1>5

\* The two parts of a line.
LEMMA IdsParts ==
  ASSUME NEW t \in Seq(Known), NEW q \in Seq(Known)
  PROVE  /\ Len(t) \in 0..Len(Ids(t \o q))
         /\ Ids(t) = SubSeq(Ids(t \o q), 1, Len(t))
         /\ Ids(q) = SubSeq(Ids(t \o q), Len(t) + 1, Len(Ids(t \o q)))
         /\ ToSet(Ids(t \o q)) = IdsOf(t) \cup IdsOf(q)
<1> DEFINE s == t \o q
<1>1. /\ s \in Seq(Known) /\ Len(t) \in Nat /\ Len(q) \in Nat /\ Len(s) = Len(t) + Len(q)
      /\ DOMAIN t = 1..Len(t) /\ DOMAIN q = 1..Len(q) /\ DOMAIN s = 1..(Len(t) + Len(q))
      /\ \A k \in 1..Len(t) : s[k] = t[k]
      /\ \A k \in 1..Len(q) : s[Len(t) + k] = q[k]
  BY ConcatProperties, LenProperties, Joined
<1> HIDE DEF s
<1>2. /\ Ids(s) \in Seq(Nat) /\ Len(Ids(s)) = Len(s) /\ \A k \in 1..Len(s) : Ids(s)[k] = s[k].id
      /\ Ids(t) \in Seq(Nat) /\ Len(Ids(t)) = Len(t) /\ \A k \in 1..Len(t) : Ids(t)[k] = t[k].id
      /\ Ids(q) \in Seq(Nat) /\ Len(Ids(q)) = Len(q) /\ \A k \in 1..Len(q) : Ids(q)[k] = q[k].id
  BY <1>1, IdsProperties
<1>3. Ids(t) = SubSeq(Ids(s), 1, Len(t))
  <2> DEFINE b == SubSeq(Ids(s), 1, Len(t))
  <2>1. b \in Seq(Nat) /\ Len(b) = Len(t) /\ \A k \in 1..Len(t) : b[k] = Ids(s)[k]
    BY <1>1, <1>2
  <2> HIDE DEF b
  <2>2. \A k \in 1..Len(t) : k \in 1..Len(s)
    BY <1>1
  <2>3. \A k \in 1..Len(t) : Ids(t)[k] = b[k]
    BY <1>1, <1>2, <2>1, <2>2
  <2>4. Ids(t) = b
    BY <1>2, <2>1, <2>3, SeqEqual
  <2> QED BY <2>4 DEF b
<1>4. Ids(q) = SubSeq(Ids(s), Len(t) + 1, Len(Ids(s)))
  <2> DEFINE b == SubSeq(Ids(s), Len(t) + 1, Len(Ids(s)))
  <2>1. b \in Seq(Nat) /\ Len(b) = Len(q) /\ \A k \in 1..Len(q) : b[k] = Ids(s)[Len(t) + k]
    <3>1. PICK z \in Seq(Nat), m \in Nat, n \in Nat :
            z = Ids(s) /\ m = Len(t) /\ n = Len(q) /\ Len(z) = m + n
      BY <1>1, <1>2
    <3> QED BY <3>1, Behind, SMTT(30)
  <2> HIDE DEF b
  <2>2. \A k \in 1..Len(q) : Len(t) + k \in 1..Len(s)
    BY <1>1
  <2>3. \A k \in 1..Len(q) : Ids(q)[k] = b[k]
    BY <1>1, <1>2, <2>1, <2>2, ZenonT(30)
  <2>4. Ids(q) = b
    BY <1>2, <2>1, <2>3, SeqEqual
  <2> QED BY <2>4 DEF b
<1>5. IdsOf(s) = IdsOf(t) \cup IdsOf(q)
  <2>1. \A k \in DOMAIN s : k \in DOMAIN t \/ (k - Len(t) \in DOMAIN q /\ s[k] = q[k - Len(t)])
    BY <1>1
  <2>2. \A k \in DOMAIN t : k \in DOMAIN s
    BY <1>1
  <2>3. \A k \in DOMAIN q : Len(t) + k \in DOMAIN s
    BY <1>1
  <2> QED BY <1>1, <2>1, <2>2, <2>3 DEF IdsOf
<1>6. ToSet(Ids(s)) = IdsOf(s)
  BY <1>1, IdsProperties
<1> QED BY <1>1, <1>2, <1>3, <1>4, <1>5, <1>6 DEF s

\* All of a flight is in one line.
LEMMA InOneLine ==
  ASSUME NEW f \in Seq(Known), NEW kind \in UserKinds, OfKind(f, kind)
  PROVE  /\ InLine(f, kind) = f
         /\ \A l \in UserKinds : l # kind => InLine(f, l) = <<>>
<1>1. f # <<>> => Head(f).kind = kind
  BY UsersChange
<1> QED BY <1>1 DEF InLine

LEMMA LinesTyped ==
  ASSUME NEW f \in Seq(Known), NEW s \in Seq(Known), NEW u \in Seq(Known), NEW l
  PROVE  /\ InLine(f, l) \in Seq(Known) /\ QueueOf(l, s, u) \in Seq(Known)
         /\ Ids(InLine(f, l) \o QueueOf(l, s, u)) \in Seq(Nat)
<1>1. InLine(f, l) \in Seq(Known) /\ QueueOf(l, s, u) \in Seq(Known)
  BY DEF InLine, QueueOf
<1>2. InLine(f, l) \o QueueOf(l, s, u) \in Seq(Known)
  BY <1>1, ConcatProperties
<1> QED BY <1>1, <1>2, IdsProperties

\* The lines of the agent, read off its state.
LineRead == MailLine = LineOf(Flight, steeringQueue, followUpQueue)

LEMMA LinesAreRead == MailInv => LineRead
<1> SUFFICES ASSUME MailInv PROVE LineRead
  OBVIOUS
<1>1. pending \in Seq(Known) /\ owed \in Seq(Known) /\ Flight \in Seq(Known)
      /\ steeringQueue \in Seq(Known) /\ followUpQueue \in Seq(Known)
  BY FlightTyped DEF MailInv, TypeOK, DataOK
<1>2. \A l \in UserKinds : Taken(l) = InLine(Flight, l)
  <2> SUFFICES ASSUME NEW l \in UserKinds PROVE Taken(l) = InLine(Flight, l)
    OBVIOUS
  <2>1. Flight # <<>> => Head(Flight).id \notin ToSet(delivered)
    <3>1. Flight # <<>> => Head(Flight).id \in IdsOf(Flight)
      BY <1>1, IdsOfTail
    <3> QED BY <3>1 DEF MailInv, MailPlaced, Placed
  <2>2. CASE pending # <<>> /\ pc = "injected" /\ owed = <<>>
    <3>1. PICK kind \in UserKinds : OfKind(pending, kind)
      BY DEF MailInv, UsersQueued
    <3>2. Head(pending).kind = kind /\ OfKind(Tail(pending), kind) /\ Tail(pending) \in Seq(Known)
      BY <1>1, <2>2, <3>1, UsersChange, HeadTailProperties
    <3>3. Head(pending).id \in ToSet(delivered) /\ Flight = Tail(pending)
      BY <2>2 DEF MailInv, MailPhases, Flight
    <3>4. InLine(Tail(pending), l) = IF l = kind THEN Tail(pending) ELSE <<>>
      BY <3>2, InOneLine
    <3> QED BY <2>2, <3>2, <3>3, <3>4 DEF Taken
  <2>3. CASE pending # <<>> /\ ~(pc = "injected" /\ owed = <<>>)
    BY <2>1, <2>3 DEF Taken, Flight, InLine
  <2>4. CASE pending = <<>> /\ pc = "poll"
    BY <2>1, <2>4 DEF Taken, Flight, InLine
  <2>5. CASE pending = <<>> /\ pc # "poll"
    <3>1. Flight = <<>>
      BY <2>5 DEF Flight
    <3>2. owed # <<>> => OfNoLine(owed)
      BY <2>5 DEF MailInv, MailPhases, Resumable
    <3>3. owed # <<>> => 1 \in DOMAIN owed /\ Head(owed) = owed[1]
      BY <1>1
    <3>4. owed # <<>> => Head(owed).kind # l
      BY <3>2, <3>3 DEF OfNoLine
    <3> QED BY <2>5, <3>1, <3>4 DEF Taken, InLine
  <2> QED BY <2>2, <2>3, <2>4, <2>5
<1>3. UserKinds = {"prompt", "steer", "followUp"}
  BY DEF UserKinds
<1>4. InLine(Flight, "prompt") \in Seq(Known)
  BY <1>1, LinesTyped
<1>5. InLine(Flight, "prompt") \o <<>> = InLine(Flight, "prompt")
  BY <1>4, ConcatEmptySeq
<1>6. /\ QueueOf("prompt", steeringQueue, followUpQueue) = <<>>
      /\ QueueOf("steer", steeringQueue, followUpQueue) = steeringQueue
      /\ QueueOf("followUp", steeringQueue, followUpQueue) = followUpQueue
  BY DEF QueueOf
<1> DEFINE lines == LineOf(Flight, steeringQueue, followUpQueue)
<1>7. /\ lines["prompt"] = Ids(Taken("prompt"))
      /\ lines["steer"] = Ids(Taken("steer") \o steeringQueue)
      /\ lines["followUp"] = Ids(Taken("followUp") \o followUpQueue)
  BY <1>2, <1>3, <1>5, <1>6 DEF LineOf
<1>8. lines = [l \in UserKinds |-> lines[l]]
  BY DEF LineOf
<1> HIDE DEF lines
<1>9. lines = [prompt |-> lines["prompt"], steer |-> lines["steer"], followUp |-> lines["followUp"]]
  BY <1>3, <1>8
<1>10. lines = MailLine
  BY <1>7, <1>9 DEF MailLine
<1> QED BY <1>10 DEF LineRead, lines

\* The mailbox gives up what a queue or a flight held.
LEMMA MailboxDrops ==
  ASSUME MailInv, LineRead, LineRead', MailClears \/ MailGivesUp
  PROVE  Mail!Drop
<1> USE DEF queueVars
<1>1. /\ steeringQueue \in Seq(Known) /\ followUpQueue \in Seq(Known) /\ Flight \in Seq(Known)
      /\ <<>> \in Seq(Known)
  BY FlightTyped DEF MailInv, TypeOK, DataOK
<1> DEFINE t(l) == InLine(Flight, l)
           q(l) == QueueOf(l, steeringQueue, followUpQueue)
           t2(l) == InLine(Flight', l)
           q2(l) == QueueOf(l, steeringQueue', followUpQueue')
<1>2. UserKinds = Mail!Lines /\ UserKinds = {"prompt", "steer", "followUp"}
  BY DEF UserKinds, Mail!Lines
<1>3. \A l \in UserKinds :
        /\ t(l) \in Seq(Known) /\ q(l) \in Seq(Known)
        /\ t2(l) \in {t(l), <<>>} /\ q2(l) \in {q(l), <<>>}
        /\ t2(l) # t(l) => activeRun /\ q2(l) = q(l) /\ t2(l) = <<>>
        /\ q2(l) # q(l) => l # "prompt" /\ t2(l) = t(l) /\ q2(l) = <<>>
  <2>1. \A l : t(l) \in Seq(Known) /\ q(l) \in Seq(Known)
    BY <1>1, LinesTyped
  <2>2. \A l : InLine(<<>>, l) = <<>>
    BY DEF InLine
  <2>3. CASE MailClears
    BY <1>2, <2>1, <2>3 DEF MailClears, QueueOf
  <2>4. CASE MailGivesUp
    BY <1>2, <2>1, <2>2, <2>4 DEF MailGivesUp
  <2> QED BY <2>3, <2>4
<1>4. \A l \in UserKinds : MailLine[l] = Ids(t(l) \o q(l)) /\ MailLine'[l] = Ids(t2(l) \o q2(l))
  BY DEF LineRead, LineOf
<1>5. MailLine' \in [UserKinds -> Seq(Nat)]
  <2>1. \A l \in UserKinds : t2(l) \in Seq(Known) /\ q2(l) \in Seq(Known)
    BY <1>1, <1>3
  <2>2. \A l \in UserKinds : t2(l) \o q2(l) \in Seq(Known)
    BY <2>1, ConcatProperties
  <2>3. \A l \in UserKinds : MailLine'[l] \in Seq(Nat)
    BY <1>4, <2>2, IdsProperties
  <2>4. MailLine' = [l \in UserKinds |-> MailLine'[l]]
    BY DEF LineRead, LineOf
  <2> HIDE DEF t2, q2
  <2> QED BY <2>3, <2>4
<1> HIDE DEF t, q, t2, q2
\* What a line loses.
<1>6. \A l \in UserKinds : /\ ToSet(MailLine[l]) = IdsOf(t(l)) \cup IdsOf(q(l))
                           /\ ToSet(MailLine'[l]) = IdsOf(t2(l)) \cup IdsOf(q2(l))
  BY <1>1, <1>3, <1>4, IdsParts
<1>7. ASSUME NEW l \in UserKinds PROVE Mail!GiveUp(l, MailLine'[l])
  <2>1. t(l) \o <<>> = t(l) /\ <<>> \o q(l) = q(l)
    BY <1>3, ConcatEmptySeq
  <2>2. /\ Len(t(l)) \in 0..Len(MailLine[l])
        /\ Ids(t(l)) = SubSeq(MailLine[l], 1, Len(t(l)))
        /\ Ids(q(l)) = SubSeq(MailLine[l], Len(t(l)) + 1, Len(MailLine[l]))
    BY <1>3, <1>4, IdsParts
  <2>3. CASE t2(l) = t(l) /\ q2(l) = q(l)
    BY <1>4, <2>3 DEF Mail!GiveUp
  <2>4. CASE t2(l) # t(l)
    BY <1>3, <1>4, <2>1, <2>2, <2>4 DEF Mail!GiveUp
  <2>5. CASE q2(l) # q(l)
    BY <1>3, <1>4, <2>1, <2>2, <2>5 DEF Mail!GiveUp
  <2> QED BY <2>3, <2>4, <2>5
<1>8. \A l \in UserKinds : IdsOf(t(l)) \cap IdsOf(q(l)) = {}
  <2>1. \A l : IdsOf(t(l)) \subseteq IdsOf(Flight)
    BY NoIds DEF InLine, t
  <2>2. \A l : q(l) \in {<<>>, steeringQueue, followUpQueue}
    BY DEF QueueOf, q
  <2>3. /\ IdsOf(Flight) \cap IdsOf(steeringQueue) = {}
        /\ IdsOf(Flight) \cap IdsOf(followUpQueue) = {}
    BY DEF MailInv, MailPlaced, Placed
  <2> QED BY <2>1, <2>2, <2>3, NoIds
<1>9. \A l \in UserKinds :
        ToSet(MailLine[l]) \ ToSet(MailLine'[l])
          = (IF t2(l) = t(l) THEN {} ELSE IdsOf(t(l))) \cup (IF q2(l) = q(l) THEN {} ELSE IdsOf(q(l)))
  <2> SUFFICES ASSUME NEW l \in UserKinds
               PROVE  ToSet(MailLine[l]) \ ToSet(MailLine'[l])
                        = (IF t2(l) = t(l) THEN {} ELSE IdsOf(t(l)))
                            \cup (IF q2(l) = q(l) THEN {} ELSE IdsOf(q(l)))
    OBVIOUS
  <2>1. CASE t2(l) = t(l) /\ q2(l) = q(l)
    BY <1>6, <2>1
  <2>2. CASE t2(l) # t(l)
    BY <1>3, <1>6, <1>8, <2>2, NoIds
  <2>3. CASE q2(l) # q(l)
    BY <1>3, <1>6, <1>8, <2>3, NoIds
  <2> QED BY <2>1, <2>2, <2>3
<1> DEFINE lost(l) == ToSet(MailLine[l]) \ ToSet(MailLine'[l])
<1>10. UNION {lost(l) : l \in UserKinds} = lost("prompt") \cup lost("steer") \cup lost("followUp")
  <2> HIDE DEF lost
  <2> QED BY <1>2
<1>11. dropped' = dropped \cup UNION {lost(l) : l \in UserKinds}
  <2> USE DEF InLine
  <2>1. \A l : IdsOf(t(l)) = {} \/ t(l) = Flight
    BY NoIds DEF t
  <2>2. CASE MailClears
    <3>1. \A l : t2(l) = t(l)
      BY <2>2 DEF MailClears, t, t2
    <3>2. /\ q("prompt") = <<>> /\ q("steer") = steeringQueue /\ q("followUp") = followUpQueue
          /\ q2("prompt") = <<>> /\ q2("steer") = steeringQueue' /\ q2("followUp") = followUpQueue'
      BY DEF q, q2, QueueOf
    <3>3. /\ lost("prompt") = {}
          /\ lost("steer") = IF steeringQueue' = steeringQueue THEN {} ELSE IdsOf(steeringQueue)
          /\ lost("followUp") = IF followUpQueue' = followUpQueue THEN {} ELSE IdsOf(followUpQueue)
      BY <1>2, <1>9, <3>1, <3>2
    <3>4. /\ steeringQueue = <<>> => IdsOf(steeringQueue) = {}
          /\ followUpQueue = <<>> => IdsOf(followUpQueue) = {}
      BY NoIds
    <3> HIDE DEF lost
    <3> QED BY <1>10, <2>2, <3>3, <3>4 DEF MailClears
  <2>3. CASE MailGivesUp
    <3>1. \A l : q2(l) = q(l)
      BY <2>3 DEF MailGivesUp, q, q2
    <3>2. \A l \in UserKinds : lost(l) = IdsOf(t(l))
      <4>1. \A l \in UserKinds : t2(l) = t(l) => t(l) = <<>>
        BY <2>3 DEF MailGivesUp, t, t2
      <4> QED BY <1>9, <3>1, <4>1, NoIds
    <3>3. PICK kind \in UserKinds : OfKind(Flight, kind)
      BY FlightTyped DEF MailInv
    <3>4. \A l \in UserKinds : IdsOf(t(l)) = IF l = kind THEN IdsOf(Flight) ELSE {}
      BY <1>1, <3>3, InOneLine, NoIds DEF t
    <3> HIDE DEF lost
    <3>5. lost("prompt") \cup lost("steer") \cup lost("followUp") = IdsOf(Flight)
      BY <1>2, <3>2, <3>3, <3>4
    <3> QED BY <1>10, <2>3, <3>5 DEF MailGivesUp
  <2> QED BY <2>2, <2>3
<1>12. UNCHANGED <<activeRun, delivered, created>>
  BY DEF MailClears, MailGivesUp
<1>13. \A l \in UserKinds : lost(l) = Mail!Waiting(l) \ Mail!ToSet(MailLine'[l])
  BY DEF Mail!Waiting, Mail!ToSet, ToSet
<1> HIDE DEF lost
<1>14. UNION {lost(l) : l \in UserKinds}
         = UNION {Mail!Waiting(l) \ Mail!ToSet(MailLine'[l]) : l \in Mail!Lines}
  BY <1>2, <1>13
<1> QED BY <1>2, <1>5, <1>7, <1>11, <1>12, <1>14 DEF Mail!Drop

\* A step that leaves the lines and the fates alone starts a run, ends one, or is no step
\* of the mailbox.
LEMMA MailboxRuns ==
  ASSUME MailInv, LineRead, MailLine' = MailLine, UNCHANGED <<fateVars, created>>,
         activeRun' \in BOOLEAN, activeRun /\ ~activeRun' => Flight = <<>>
  PROVE  [Mail!Next]_(Mail!mailVars)
<1> USE DEF fateVars
<1>1. activeRun \in BOOLEAN
  BY DEF MailInv, TypeOK, FlagsOK
<1>2. CASE activeRun' = activeRun
  BY <1>2 DEF Mail!mailVars
<1>3. CASE ~activeRun /\ activeRun'
  BY <1>3 DEF Mail!Next, Mail!Start
<1>4. CASE activeRun /\ ~activeRun' /\ Flight = <<>>
  <2>1. InLine(Flight, "prompt") = <<>> /\ QueueOf("prompt", steeringQueue, followUpQueue) = <<>>
    BY <1>4 DEF InLine, QueueOf
  <2>2. <<>> \o <<>> = <<>> /\ "prompt" \in UserKinds
    BY DEF UserKinds
  <2>3. MailLine["prompt"] = <<>>
    BY <2>1, <2>2, IdsOfNothing DEF LineRead, LineOf
  <2> QED BY <1>4, <2>3 DEF Mail!Next, Mail!Stop
<1> QED BY <1>1, <1>2, <1>3, <1>4

\* Draining a queue moves the front of its line from the queue to the run.
LEMMA DrainKeepsLine ==
  ASSUME NEW q \in Seq(Known), NEW mode
  PROVE  /\ Drained(mode, q) \in Seq(Known) /\ AfterDrain(mode, q) \in Seq(Known)
         /\ Drained(mode, q) \o AfterDrain(mode, q) = q
<1>1. CASE mode = "all" \/ q = <<>>
  <2>1. Drained(mode, q) = q /\ AfterDrain(mode, q) = <<>> /\ <<>> \in Seq(Known)
    BY <1>1 DEF Drained, AfterDrain
  <2> QED BY <2>1, ConcatEmptySeq
<1>2. CASE mode # "all" /\ q # <<>>
  <2>1. Drained(mode, q) = <<Head(q)>> /\ AfterDrain(mode, q) = Tail(q)
    BY <1>2 DEF Drained, AfterDrain
  <2>2. Head(q) \in Known /\ Tail(q) \in Seq(Known)
    BY <1>2, HeadTailProperties
  <2>3. <<Head(q)>> \in Seq(Known) /\ <<Head(q)>> \o Tail(q) = q
    BY <1>2, <2>2
  <2> QED BY <2>1, <2>2, <2>3
<1> QED BY <1>1, <1>2

LEMMA MailboxTakes ==
  ASSUME MailInv, LineRead, LineRead', MailTakesSteering \/ MailTakesFollowUp
  PROVE  [Mail!Next]_(Mail!mailVars)
<1>1. /\ steeringQueue \in Seq(Known) /\ followUpQueue \in Seq(Known) /\ Flight = <<>>
      /\ OfKind(steeringQueue, "steer") /\ OfKind(followUpQueue, "followUp")
  BY DEF MailInv, TypeOK, DataOK, UsersQueued, MailTakesSteering, MailTakesFollowUp
<1>2. UserKinds = {"prompt", "steer", "followUp"}
  BY DEF UserKinds
<1>3. \A l : InLine(Flight, l) = <<>>
  BY <1>1 DEF InLine
<1>4. \A l \in UserKinds : InLine(Flight', l) \o QueueOf(l, steeringQueue', followUpQueue')
                             = <<>> \o QueueOf(l, steeringQueue, followUpQueue)
  <2>1. CASE MailTakesSteering
    <3>1. /\ Flight' \in Seq(Known) /\ OfKind(Flight', "steer")
          /\ Flight' \o steeringQueue' = steeringQueue /\ followUpQueue' = followUpQueue
      BY <1>1, <2>1, DrainKeepsLine, DrainShares DEF MailTakesSteering
    <3>2. InLine(Flight', "steer") = Flight' /\ InLine(Flight', "prompt") = <<>>
          /\ InLine(Flight', "followUp") = <<>>
      BY <1>2, <3>1, InOneLine
    <3>3. <<>> \o steeringQueue = steeringQueue
      BY <1>1, ConcatEmptySeq
    <3> QED BY <1>2, <3>1, <3>2, <3>3 DEF QueueOf
  <2>2. CASE MailTakesFollowUp
    <3>1. /\ Flight' \in Seq(Known) /\ OfKind(Flight', "followUp")
          /\ Flight' \o followUpQueue' = followUpQueue /\ steeringQueue' = steeringQueue
      BY <1>1, <2>2, DrainKeepsLine, DrainShares DEF MailTakesFollowUp
    <3>2. InLine(Flight', "followUp") = Flight' /\ InLine(Flight', "prompt") = <<>>
          /\ InLine(Flight', "steer") = <<>>
      BY <1>2, <3>1, InOneLine
    <3>3. <<>> \o followUpQueue = followUpQueue
      BY <1>1, ConcatEmptySeq
    <3> QED BY <1>2, <3>1, <3>2, <3>3 DEF QueueOf
  <2> QED BY <2>1, <2>2
<1>5. MailLine' = MailLine
  BY <1>3, <1>4 DEF LineRead, LineOf
<1>6. activeRun' \in BOOLEAN /\ activeRun' /\ UNCHANGED <<fateVars, created>>
  BY DEF MailTakesSteering, MailTakesFollowUp
<1> QED BY <1>5, <1>6, MailboxRuns

LEMMA MailboxPrompts ==
  ASSUME MailInv, LineRead, LineRead', activeRun' \in BOOLEAN, MailPrompts
  PROVE  Mail!Next
<1> USE DEF fateVars, queueVars
<1>1. PICK n \in Nat \ {0} : /\ created' = created + n
                             /\ Flight' = [k \in 1..n |-> User("prompt", created + k)]
  BY DEF MailPrompts
<1>2. UserKinds = {"prompt", "steer", "followUp"} /\ created \in Nat
  BY DEF UserKinds, MailInv, TypeOK, DataOK
<1> DEFINE f == [k \in 1..n |-> User("prompt", created + k)]
<1>3. \A k \in 1..n : User("prompt", created + k) \in Known
  <2>1. \A k \in 1..n : created + k \in Nat /\ 0 \in Nat
    BY <1>2
  <2> QED BY <2>1, BuiltMessages
<1>4. f \in Seq(Known) /\ Len(f) = n /\ DOMAIN f = 1..n
  <2>1. f \in [1..n -> Known]
    BY <1>3
  <2> QED BY <2>1, FunctionIsSeq
<1>5. OfKind(f, "prompt") /\ \A k \in 1..n : f[k].id = created + k
  BY <1>4 DEF OfKind, User
<1> HIDE DEF f
<1>6. InLine(f, "prompt") = f /\ InLine(f, "steer") = <<>> /\ InLine(f, "followUp") = <<>>
  BY <1>2, <1>4, <1>5, InOneLine
<1>7. \A l : InLine(Flight, l) = <<>>
  BY DEF MailPrompts, InLine
<1>8. Ids(f \o <<>>) = [k \in 1..n |-> created + k] /\ Len(Ids(f \o <<>>)) = n
  <2>1. f \o <<>> = f
    BY <1>4, ConcatEmptySeq
  <2>2. Ids(f) = [k \in 1..n |-> created + k]
    BY <1>4, <1>5 DEF Ids
  <2>3. Len(Ids(f)) = n
    BY <1>4, IdsProperties
  <2> QED BY <2>1, <2>2, <2>3
<1>9. Flight' = f
  BY <1>1 DEF f
<1>10. /\ MailLine'["prompt"] = [k \in 1..n |-> created + k] /\ Len(MailLine'["prompt"]) = n
       /\ \A l \in UserKinds : l # "prompt" => MailLine'[l] = MailLine[l]
  <2>1. \A l \in UserKinds : QueueOf(l, steeringQueue', followUpQueue') = QueueOf(l, steeringQueue, followUpQueue)
    BY DEF MailPrompts
  <2>2. QueueOf("prompt", steeringQueue', followUpQueue') = <<>>
    BY DEF QueueOf
  <2>3. MailLine'["prompt"] = Ids(f \o <<>>)
    BY <1>2, <1>6, <1>9, <2>2 DEF LineRead, LineOf
  <2>4. \A l \in UserKinds : l # "prompt" => MailLine'[l] = MailLine[l]
    BY <1>2, <1>6, <1>7, <1>9, <2>1 DEF LineRead, LineOf
  <2> QED BY <1>8, <2>3, <2>4
<1>11. MailLine' = [MailLine EXCEPT !["prompt"] = [k \in 1..n |-> created + k]]
  BY <1>2, <1>10 DEF LineRead, LineOf
<1>12. n \in 1..Len(MailLine'["prompt"])
  BY <1>10
<1>13. ~activeRun /\ activeRun' = TRUE /\ UNCHANGED <<delivered, dropped>>
  <2>1. ~activeRun /\ activeRun'
    BY DEF MailPrompts
  <2> QED BY <2>1 DEF MailPrompts
<1>14. Mail!Start
  BY <1>1, <1>11, <1>12, <1>13 DEF Mail!Start
<1> QED BY <1>14 DEF Mail!Next

LEMMA MailboxQueues ==
  ASSUME MailInv, LineRead, LineRead', MailQueues
  PROVE  Mail!Next
<1> USE DEF fateVars
<1>1. /\ steeringQueue \in Seq(Known) /\ followUpQueue \in Seq(Known) /\ Flight \in Seq(Known)
      /\ created \in Nat
  BY FlightTyped DEF MailInv, TypeOK, DataOK
<1>2. UserKinds = {"prompt", "steer", "followUp"}
  BY DEF UserKinds
<1>3. User("steer", created + 1) \in Known /\ User("followUp", created + 1) \in Known
  <2>1. created + 1 \in Nat /\ 0 \in Nat
    BY <1>1
  <2> QED BY <2>1, BuiltMessages
<1>4. User("steer", created + 1).id = created + 1 /\ User("followUp", created + 1).id = created + 1
  BY DEF User
<1>5. \A l : InLine(Flight, l) \in Seq(Known)
  BY <1>1, LinesTyped
<1>6. Flight' = Flight /\ created' = created + 1 /\ UNCHANGED <<activeRun, delivered, dropped>>
  BY DEF MailQueues
<1>7. PICK kind \in {"steer", "followUp"} :
        /\ MailLine'[kind] = Append(MailLine[kind], created + 1)
        /\ \A l \in UserKinds : l # kind => MailLine'[l] = MailLine[l]
  <2>1. CASE steeringQueue' = Append(steeringQueue, User("steer", created + 1)) /\ UNCHANGED followUpQueue
    <3>1. \A l \in UserKinds : l # "steer" =>
            QueueOf(l, steeringQueue', followUpQueue') = QueueOf(l, steeringQueue, followUpQueue)
      BY <2>1 DEF QueueOf
    <3>2. \A l \in UserKinds : l # "steer" => MailLine'[l] = MailLine[l]
      BY <1>6, <3>1 DEF LineRead, LineOf
    <3>3. /\ MailLine'["steer"] = Ids(InLine(Flight, "steer") \o steeringQueue')
          /\ MailLine["steer"] = Ids(InLine(Flight, "steer") \o steeringQueue)
      BY <1>2, <1>6 DEF LineRead, LineOf, QueueOf
    <3> DEFINE t == InLine(Flight, "steer")
               m == User("steer", created + 1)
    <3>4. t \in Seq(Known) /\ m \in Known /\ m.id = created + 1
      BY <1>3, <1>4, <1>5
    <3>5. steeringQueue' = Append(steeringQueue, m)
      BY <2>1
    <3> HIDE DEF t, m
    <3>6. Ids(t \o Append(steeringQueue, m)) = Append(Ids(t \o steeringQueue), m.id)
      BY <1>1, <3>4, IdsMove
    <3>7. MailLine'["steer"] = Append(MailLine["steer"], created + 1)
      BY <3>3, <3>4, <3>5, <3>6 DEF t
    <3> QED BY <3>2, <3>7
  <2>2. CASE followUpQueue' = Append(followUpQueue, User("followUp", created + 1)) /\ UNCHANGED steeringQueue
    <3>1. \A l \in UserKinds : l # "followUp" =>
            QueueOf(l, steeringQueue', followUpQueue') = QueueOf(l, steeringQueue, followUpQueue)
      BY <2>2 DEF QueueOf
    <3>2. \A l \in UserKinds : l # "followUp" => MailLine'[l] = MailLine[l]
      BY <1>6, <3>1 DEF LineRead, LineOf
    <3>3. /\ MailLine'["followUp"] = Ids(InLine(Flight, "followUp") \o followUpQueue')
          /\ MailLine["followUp"] = Ids(InLine(Flight, "followUp") \o followUpQueue)
      BY <1>2, <1>6 DEF LineRead, LineOf, QueueOf
    <3> DEFINE t == InLine(Flight, "followUp")
               m == User("followUp", created + 1)
    <3>4. t \in Seq(Known) /\ m \in Known /\ m.id = created + 1
      BY <1>3, <1>4, <1>5
    <3>5. followUpQueue' = Append(followUpQueue, m)
      BY <2>2
    <3> HIDE DEF t, m
    <3>6. Ids(t \o Append(followUpQueue, m)) = Append(Ids(t \o followUpQueue), m.id)
      BY <1>1, <3>4, IdsMove
    <3>7. MailLine'["followUp"] = Append(MailLine["followUp"], created + 1)
      BY <3>3, <3>4, <3>5, <3>6 DEF t
    <3> QED BY <3>2, <3>7
  <2> QED BY <2>1, <2>2 DEF MailQueues
<1>8. MailLine' = [MailLine EXCEPT ![kind] = Append(@, created + 1)]
  BY <1>2, <1>7 DEF LineRead, LineOf
<1>9. Mail!Accept(kind)
  BY <1>6, <1>8 DEF Mail!Accept
<1> QED BY <1>9 DEF Mail!Next

LEMMA MailboxShows ==
  ASSUME MailInv, LineRead, LineRead', MailShows
  PROVE  Mail!Next
<1> USE DEF queueVars
<1>1. steeringQueue \in Seq(Known) /\ followUpQueue \in Seq(Known) /\ Flight \in Seq(Known)
  BY FlightTyped DEF MailInv, TypeOK, DataOK
<1>2. PICK kind \in UserKinds : OfKind(Flight, kind)
  BY FlightTyped DEF MailInv
<1>3. Flight # <<>> /\ Flight' = Tail(Flight) /\ activeRun
      /\ delivered' = Append(delivered, Head(Flight).id)
      /\ UNCHANGED <<steeringQueue, followUpQueue, activeRun, dropped, created>>
  BY DEF MailShows
<1>4. Tail(Flight) \in Seq(Known) /\ OfKind(Tail(Flight), kind)
  BY <1>1, <1>2, <1>3, UsersChange, HeadTailProperties
<1>5. /\ InLine(Flight, kind) = Flight /\ InLine(Flight', kind) = Tail(Flight)
      /\ \A l \in UserKinds : l # kind => InLine(Flight', l) = InLine(Flight, l)
  BY <1>1, <1>2, <1>3, <1>4, InOneLine
<1> DEFINE q == QueueOf(kind, steeringQueue, followUpQueue)
<1>6. q \in Seq(Known)
  BY <1>1, LinesTyped
<1> HIDE DEF q
<1>7. MailLine[kind] = Ids(Flight \o q) /\ MailLine'[kind] = Ids(Tail(Flight) \o q)
  BY <1>3, <1>5 DEF LineRead, LineOf, q
<1>8. /\ MailLine[kind] # <<>> /\ Head(MailLine[kind]) = Head(Flight).id
      /\ MailLine'[kind] = Tail(MailLine[kind])
  BY <1>1, <1>3, <1>6, <1>7, IdsMove
<1>9. \A l \in UserKinds : l # kind => MailLine'[l] = MailLine[l]
  BY <1>3, <1>5 DEF LineRead, LineOf
<1>10. MailLine' = [MailLine EXCEPT ![kind] = Tail(@)]
  BY <1>8, <1>9 DEF LineRead, LineOf
<1>11. Mail!Deliver(kind)
  BY <1>3, <1>8, <1>10 DEF Mail!Deliver
<1> QED BY <1>11 DEF Mail!Next, Mail!Lines, UserKinds

\* Each step of the agent is a step of the mailbox or none.
LEMMA MailboxNext ==
  ASSUME MailInv, MailInv', LineRead, LineRead', MailStep
  PROVE  [Mail!Next]_(Mail!mailVars)
<1>1. activeRun' \in BOOLEAN
  BY DEF MailInv, TypeOK, FlagsOK
<1>2. CASE MailStays
  <2>1. MailLine' = MailLine /\ UNCHANGED <<fateVars, created>>
    BY <1>1, <1>2 DEF MailStays, LineRead, queueVars
  <2>2. activeRun /\ ~activeRun' => Flight = <<>>
    BY <1>2 DEF MailStays
  <2> QED BY <1>1, <2>1, <2>2, MailboxRuns
<1>3. CASE MailPrompts
  BY <1>1, <1>3, MailboxPrompts
<1>4. CASE MailTakesSteering \/ MailTakesFollowUp
  BY <1>1, <1>4, MailboxTakes
<1>5. CASE MailQueues
  BY <1>1, <1>5, MailboxQueues
<1>6. CASE MailClears \/ MailGivesUp
  BY <1>1, <1>6, MailboxDrops DEF Mail!Next
<1>7. CASE MailShows
  BY <1>1, <1>7, MailboxShows
<1> QED BY <1>2, <1>3, <1>4, <1>5, <1>6, <1>7 DEF MailStep

LEMMA MailboxInit == Init => Mail!Init
<1> SUFFICES ASSUME Init PROVE Mail!Init
  OBVIOUS
<1>1. LineRead /\ Flight = <<>>
  BY MailInit, LinesAreRead DEF Init, Flight
<1>2. /\ steeringQueue = <<>> /\ followUpQueue = <<>> /\ activeRun = FALSE
      /\ delivered = <<>> /\ dropped = {} /\ created = 0
  BY DEF Init
<1>3. \A l : InLine(Flight, l) \o QueueOf(l, steeringQueue, followUpQueue) = <<>>
  BY <1>1, <1>2 DEF InLine, QueueOf
<1>4. MailLine = [l \in Mail!Lines |-> <<>>]
  BY <1>1, <1>3, IdsOfNothing DEF LineRead, LineOf, Mail!Lines, UserKinds
<1> QED BY <1>2, <1>4 DEF Mail!Init

\* The agent implements the mailbox: whatever the loop is doing when a message arrives,
\* the message joins the end of its line; the lines are delivered from the front, only by
\* an active run, and lose messages only to a clear, a reset or a failing run (prompt,
\* steer, followUp, the clears and PendingMessageQueue of agent.ts, runLoop of
\* agent-loop.ts).
THEOREM MailboxTheorem == Spec => ImplementsMailbox
<1> DEFINE IInv == MailInv /\ IdleIsClean
<1>1. Init => IInv /\ Mail!Init
  BY MailInit, MailboxInit
<1>2. IInv /\ [Next]_vars => IInv'
  BY MailNext
<1>3. IInv => LineRead
  BY LinesAreRead
<1>4. IInv /\ IInv' /\ LineRead /\ LineRead' /\ [Next]_vars => [Mail!Next]_(Mail!mailVars)
  BY MailSteps, MailboxNext
<1> HIDE DEF IInv
<1> QED BY <1>1, <1>2, <1>3, <1>4, PTL DEF Spec, ImplementsMailbox, Mail!Spec
===============================================================================
