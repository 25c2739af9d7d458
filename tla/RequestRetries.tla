---------------------------- MODULE RequestRetries ----------------------------
(***************************************************************************)
(* How google-gemini-cli.ts and openai-codex-responses.ts (packages/ai)    *)
(* send a request until it is answered: the loop over attempts, the        *)
(* endpoints gemini-cli falls back to, the waits between attempts.         *)
(***************************************************************************)
EXTENDS Naturals, Sequences

CONSTANTS Providers,     \* of "gemini-cli" and "codex"
          Endpoints,     \* how many gemini-cli has
          MaxRetries

\* What is assumed of the constants.
RetryAssumption ==
  /\ Providers \subseteq {"gemini-cli", "codex"}
  /\ Endpoints \in Nat \ {0} /\ MaxRetries \in Nat

VARIABLES
  provider, attempt, endpointIndex,
  at,        \* "fetching", "sleeping" or "over"
  result,    \* "pending", "ok", "failed" or "aborted"
  replies    \* history: what each request was answered, and at which endpoint
vars == <<provider, attempt, endpointIndex, at, result, replies>>

\* ok; 403 or 404; 429, 5xx and the like; those with a delay beyond maxRetryDelayMs;
\* a usage limit; any other refusal; no answer at all.
Replies == {"ok", "elsewhere", "retryable", "long", "limit", "refused", "network"}

Init ==
  /\ provider \in Providers
  /\ attempt = 0 /\ endpointIndex = 1
  /\ at = "fetching" /\ result = "pending" /\ replies = <<>>

\* Defect: the wait before an attempt that will not be made.
MayRetry_Once == attempt <= MaxRetries

MayRetry == attempt < MaxRetries
MoreEndpoints == provider = "gemini-cli" /\ endpointIndex < Endpoints

Over(outcome) == at' = "over" /\ result' = outcome /\ UNCHANGED attempt

\* Defect: an endpoint that has nothing for us fails the request.
Continue_Fails == Over("failed")

\* continue: the next attempt at once, or the end of the loop.
Continue ==
  IF MayRetry THEN attempt' = attempt + 1 /\ UNCHANGED <<at, result>>
              ELSE Over("failed")

\* The catch block of the loop retries whatever was thrown in it, an answer that is
\* not retryable too, except codex' usage limits.
Caught(reply) ==
  IF MayRetry /\ ~(provider = "codex" /\ reply = "limit")
    THEN at' = "sleeping" /\ UNCHANGED <<attempt, result>>
    ELSE Over("failed")

\* Codex waits as it likes; gemini-cli as long as it is told, or throws.
Retryable(reply) == reply \in {"retryable", "long"}

Fetch(reply) ==
  /\ at = "fetching"
  /\ replies' = Append(replies, [reply |-> reply, endpoint |-> endpointIndex])
  /\ \/ /\ reply = "ok" /\ Over("ok") /\ UNCHANGED endpointIndex
     \/ /\ reply = "elsewhere" /\ MoreEndpoints
        /\ endpointIndex' = endpointIndex + 1 /\ Continue
     \/ /\ Retryable(reply) /\ MayRetry
        /\ endpointIndex' = IF MoreEndpoints THEN endpointIndex + 1 ELSE endpointIndex
        /\ IF reply = "long" /\ provider = "gemini-cli" THEN Caught(reply)
           ELSE at' = "sleeping" /\ UNCHANGED <<attempt, result>>
     \/ /\ reply # "ok" /\ ~(reply = "elsewhere" /\ MoreEndpoints)
        /\ ~(Retryable(reply) /\ MayRetry)
        /\ Caught(reply) /\ UNCHANGED endpointIndex
  /\ UNCHANGED provider

Wake ==
  /\ at = "sleeping" /\ at' = "fetching" /\ attempt' = attempt + 1
  /\ UNCHANGED <<provider, endpointIndex, result, replies>>

\* fetch and sleep reject.
Abort ==
  /\ at # "over" /\ Over("aborted")
  /\ UNCHANGED <<provider, endpointIndex, replies>>

Answered == \E reply \in Replies : Fetch(reply)
Next == Answered \/ Wake \/ Abort
Spec == Init /\ [][Next]_vars

\* Requests are answered or fail, and timers fire.
Progress == Answered \/ Wake

-----------------------------------------------------------------------------
\* A request is sent no more often than it may, is not given up as long as its
\* failure may pass, and is not sent again when it was answered; endpoints are
\* tried in their order (the loop over attempts).
RetriesAreBounded ==
  LET last == replies[Len(replies)].reply
  IN  /\ Len(replies) <= MaxRetries + 1
      /\ \A i \in 1..(Len(replies) - 1) : /\ replies[i].reply # "ok"
                                          /\ replies[i].endpoint <= replies[i + 1].endpoint
      /\ result = "ok" => last = "ok"
      /\ result = "failed" => \/ Len(replies) = MaxRetries + 1
                              \/ last \notin {"retryable", "network", "elsewhere"}

\* "If the server's requested delay exceeds this value, the request fails
\* immediately" (ai/src/types.ts:94, settings.md:84).
LongDelaysFailAtOnce ==
  provider = "gemini-cli" => \A i \in 1..(Len(replies) - 1) : replies[i].reply # "long"
===============================================================================
