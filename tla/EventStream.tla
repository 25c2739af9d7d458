----------------------------- MODULE EventStream -----------------------------
(***************************************************************************)
(* packages/ai/src/utils/event-stream.ts: the stream between a provider or *)
(* an agent loop and those who iterate over its events or await its        *)
(* result.  Everything runs on one thread: an action is one call, or the   *)
(* code that runs when a promise has resolved.  Events are numbered in the *)
(* order in which they are accepted.                                       *)
(***************************************************************************)
EXTENDS Naturals, Sequences, SequencesExt

CONSTANTS Consumer,   \* the iterations over the stream
          Leavers,    \* the consumers that may break out of their loop
          MaxEvents   \* bound on the events accepted

\* What is assumed of the constants.
StreamAssumption == Leavers \subseteq Consumer /\ MaxEvents \in Nat

VARIABLES
  pushed,    \* the number of events accepted
  queue,     \* the events nobody has taken
  waiting,   \* the consumers whose promise is pending, the oldest first
  done,
  result,    \* what the result resolved with: <<>> not yet, <<n>> event n, <<0>> end's
  at,        \* where a consumer is
  given,     \* what a resumed consumer's promise holds: <<n>>, or <<>> for done
  got        \* the events each consumer's loop has been given
vars == <<pushed, queue, waiting, done, result, at, given, got>>

Init ==
  /\ pushed = 0 /\ queue = <<>> /\ waiting = <<>>
  /\ done = FALSE /\ result = <<>>
  /\ at = [c \in Consumer |-> "consuming"]
  /\ given = [c \in Consumer |-> <<>>]
  /\ got = [c \in Consumer |-> <<>>]

-----------------------------------------------------------------------------
(* The producer *)

Accepts == ~done

\* Defect: every resolution is kept.
Resolve_Twice(value) == result' = result \o value

\* A promise keeps the first value it is resolved with.
Resolve(value) == result' = IF result = <<>> THEN value ELSE result

\* push hands the event to the consumer that has waited longest, if one waits.
TakesDirectly == waiting # <<>>

\* Defect: the consumer stays in line for the next event.
StillWaiting_All == waiting

StillWaiting == Tail(waiting)

\* Defect: an event goes to the front of the queue.
QueueWith_First(event) == <<event>> \o queue

QueueWith(event) == Append(queue, event)

Push(final) ==
  /\ Accepts /\ pushed < MaxEvents
  /\ pushed' = pushed + 1
  /\ done' = (done \/ final)
  /\ IF final THEN Resolve(<<pushed + 1>>) ELSE UNCHANGED result
  /\ IF TakesDirectly
       THEN /\ at' = [at EXCEPT ![Head(waiting)] = "resumed"]
            /\ given' = [given EXCEPT ![Head(waiting)] = <<pushed + 1>>]
            /\ waiting' = StillWaiting
            /\ UNCHANGED queue
       ELSE /\ queue' = QueueWith(pushed + 1)
            /\ UNCHANGED <<at, given, waiting>>
  /\ UNCHANGED got

\* Defect: only the oldest waiting consumer is told.
Woken_First == IF waiting = <<>> THEN {} ELSE {Head(waiting)}

\* end tells every waiting consumer that there is no more.
Woken == ToSet(waiting)

\* With a result, or without.
End(withResult) ==
  /\ done' = TRUE
  /\ IF withResult THEN Resolve(<<0>>) ELSE UNCHANGED result
  /\ at' = [c \in Consumer |-> IF c \in Woken THEN "resumed" ELSE at[c]]
  /\ waiting' = <<>>
  /\ UNCHANGED <<pushed, queue, given, got>>

-----------------------------------------------------------------------------
(* The consumers *)

\* Defect: an ended stream gives nothing, although events are queued.
Drains_NotWhenDone == queue # <<>> /\ ~done

\* The iterator looks at the queue before it looks at done.
Drains == queue # <<>>

\* A consumer asks for the next event.
Ask(c) ==
  /\ at[c] = "consuming"
  /\ IF Drains
       THEN /\ got' = [got EXCEPT ![c] = Append(@, Head(queue))]
            /\ queue' = Tail(queue)
            /\ UNCHANGED <<at, waiting>>
       ELSE /\ IF done
                 THEN /\ at' = [at EXCEPT ![c] = "returned"]
                      /\ UNCHANGED waiting
                 ELSE /\ at' = [at EXCEPT ![c] = "waiting"]
                      /\ waiting' = Append(waiting, c)
            /\ UNCHANGED <<got, queue>>
  /\ UNCHANGED <<pushed, done, result, given>>

\* The promise a consumer waited for has resolved.
Resume(c) ==
  /\ at[c] = "resumed"
  /\ at' = [at EXCEPT ![c] = IF given[c] = <<>> THEN "returned" ELSE "consuming"]
  /\ got' = [got EXCEPT ![c] = @ \o given[c]]
  /\ given' = [given EXCEPT ![c] = <<>>]
  /\ UNCHANGED <<pushed, queue, waiting, done, result>>

\* A consumer breaks out of its loop.
Leave(c) ==
  /\ c \in Leavers /\ at[c] = "consuming"
  /\ at' = [at EXCEPT ![c] = "returned"]
  /\ UNCHANGED <<pushed, queue, waiting, done, result, given, got>>

-----------------------------------------------------------------------------
Ends == \E withResult \in BOOLEAN : End(withResult)
Next ==
  \/ \E final \in BOOLEAN : Push(final)
  \/ Ends
  \/ \E c \in Consumer : Ask(c) \/ Resume(c) \/ Leave(c)

Spec == Init /\ [][Next]_vars

\* Promise callbacks run, consumers handle what they get, and the producer ends
\* the stream, as every provider does on each of its paths.
Progress == Ends \/ \E c \in Consumer : Ask(c) \/ Resume(c)

-----------------------------------------------------------------------------
\* The type invariant of the stream and its consumers.
TypeOK ==
  /\ pushed \in Nat
  /\ queue \in Seq(Nat)
  /\ waiting \in Seq(Consumer)
  /\ done \in BOOLEAN
  /\ result \in {<<>>} \cup {<<n>> : n \in 0..pushed}
  /\ at \in [Consumer -> {"consuming", "waiting", "resumed", "returned"}]
  /\ given \in [Consumer -> {<<>>} \cup {<<n>> : n \in 1..pushed}]
  /\ got \in [Consumer -> Seq(Nat)]

Has(c, n) == n \in ToSet(got[c]) \/ given[c] = <<n>>
Queued(n) == n \in ToSet(queue)

\* Every accepted event is queued or went to exactly one consumer: none is lost
\* or given twice, however pushes, waits and the end interleave (push against
\* the iterator).
EachEventOnce ==
  \A n \in 1..pushed :
    /\ Queued(n) \/ \E c \in Consumer : Has(c, n)
    /\ \A c \in Consumer : Has(c, n) => ~Queued(n) /\ \A d \in Consumer : Has(d, n) => c = d

\* Each consumer gets its events in the order they were pushed ("They preserve
\* event order", packages/agent/README.md).
InOrder ==
  \A c \in Consumer : LET all == got[c] \o given[c] IN
    \A i, j \in DOMAIN all : i < j => all[i] < all[j]

\* Events reach the consumers as they were pushed: each goes to one of them, in
\* the order of the pushes, whatever the consumers do (push, [Symbol.asyncIterator]).
DeliveredOnceInOrder == EachEventOnce /\ InOrder

\* No event lies in the queue while a consumer waits for one (push).
NobodyWaitsForQueued == queue = <<>> \/ waiting = <<>>

\* The result is that of the last event accepted, or what end was given: no
\* event follows the one that completed the stream (isComplete, end).
ResultIsLast == result \notin {<<>>, <<0>>} => result = <<pushed>>

\* Everyone has come to the end of the stream, and took every event unless they
\* left: the iterator looks at the queue before done.
Ended == /\ \A c \in Consumer : at[c] = "returned"
         /\ Leavers # Consumer => queue = <<>>
===============================================================================
