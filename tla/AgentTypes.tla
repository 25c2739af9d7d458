------------------------------ MODULE AgentTypes ------------------------------
(***************************************************************************)
(* The data of packages/agent: messages, tool calls, lifecycle events and  *)
(* the PendingMessageQueue of agent.ts.  A message is a record of uniform  *)
(* shape; its text, images, usage and timestamps are abstracted to an      *)
(* identity, and what the control flow of the loop tells apart is kept:    *)
(* the role, the stop reason and the number of tool-call blocks.           *)
(***************************************************************************)
EXTENDS Naturals, Sequences

\* A tool call is named by the assistant message it belongs to and its place
\* in that message ("source order").
CallId == Nat \X Nat
NoCall == <<0, 0>>

Kinds == {"none", "prompt", "steer", "followUp",   \* user messages
          "start", "delta",                        \* partial assistant messages
          "stop", "error", "aborted",              \* final assistant messages
          "result", "failure"}                     \* tool results

Message == [role : {"none", "user", "assistant", "toolResult"},
            kind : Kinds, id : Nat, calls : Nat]

\* state.streamingMessage = undefined
NoMessage == [role |-> "none", kind |-> "none", id |-> 0, calls |-> 0]

User(kind, n) == [role |-> "user", kind |-> kind, id |-> n, calls |-> 0]

\* calls is the number of toolCall blocks of the content.
Assistant(kind, n, calls) ==
  [role |-> "assistant", kind |-> kind, id |-> n, calls |-> calls]

\* calls is here the position of the answered call in assistant message n.
ToolResult(n, i, ok) ==
  [role |-> "toolResult", kind |-> IF ok THEN "result" ELSE "failure",
   id |-> n, calls |-> i]

\* stopReason is "error" or "aborted" (agent-loop.ts 194).
Failed(m) == m.kind \in {"error", "aborted"}

EventTypes == {"agent_start", "turn_start", "turn_end", "agent_end",
               "tool_execution_start", "tool_execution_end"}

Event == [type : EventTypes, call : CallId, failed : BOOLEAN]

Notice(type) == [type |-> type, call |-> NoCall, failed |-> FALSE]
ToolNotice(type, c) == [type |-> type, call |-> c, failed |-> FALSE]
\* turn_end of assistant message m: errorMessage is set on failed answers.
TurnEnd(m) == [type |-> "turn_end", call |-> NoCall, failed |-> Failed(m)]

-------------------------------------------------------------------------------
(* PendingMessageQueue (agent.ts 112-143). *)

QueueMode == {"all", "one-at-a-time"}

\* Defect: the newest message is taken.
Drained_Newest(mode, q) ==
  IF mode = "all" \/ q = <<>> THEN q ELSE <<q[Len(q)]>>
\* Defect: an empty queue yields [undefined].
Drained_Undefined(mode, q) ==
  IF mode = "all" THEN q ELSE <<IF q = <<>> THEN NoMessage ELSE Head(q)>>
\* What drain() returns ...
Drained(mode, q) ==
  IF mode = "all" \/ q = <<>> THEN q ELSE <<Head(q)>>

\* Defect: the drained queue is not emptied.
AfterDrain_Kept(mode, q) ==
  IF mode = "all" \/ q = <<>> THEN q ELSE Tail(q)
\* ... and what it leaves in the queue.
AfterDrain(mode, q) ==
  IF mode = "all" \/ q = <<>> THEN <<>> ELSE Tail(q)
===============================================================================
