------------------------------- MODULE Mailbox -------------------------------
(***************************************************************************)
(* What the agent promises about the messages it accepts, without the loop *)
(* that keeps the promise: three lines of messages, each delivered to the  *)
(* transcript once, in the order it was accepted, and only by an active    *)
(* run.  Prompts come with a run and do not outlive it; steering and       *)
(* follow-up messages wait for any run.  Messages are their numbers.       *)
(***************************************************************************)
EXTENDS Naturals, Sequences, SequencesExt

VARIABLES running,    \* a run is active
          line,       \* the accepted, undelivered messages of each line
          delivered,  \* the messages in the transcript, in order
          dropped,    \* messages given up
          accepted    \* how many messages were accepted
mailVars == <<running, line, delivered, dropped, accepted>>

Lines == {"prompt", "steer", "followUp"}
Waiting(l) == ToSet(line[l])

Init == /\ running = FALSE
        /\ line = [l \in Lines |-> <<>>]
        /\ delivered = <<>> /\ dropped = {} /\ accepted = 0

\* A run starts, with no prompt or with new ones.
Start ==
  /\ ~running /\ running' = TRUE
  /\ UNCHANGED <<delivered, dropped>>
  /\ \/ UNCHANGED <<line, accepted>>
     \/ \E n \in 1..Len(line'["prompt"]) :
          /\ accepted' = accepted + n
          /\ line' = [line EXCEPT !["prompt"] = [k \in 1..n |-> accepted + k]]

Accept(l) ==
  /\ accepted' = accepted + 1
  /\ line' = [line EXCEPT ![l] = Append(@, accepted + 1)]
  /\ UNCHANGED <<running, delivered, dropped>>

Deliver(l) ==
  /\ running /\ line[l] # <<>>
  /\ line' = [line EXCEPT ![l] = Tail(@)]
  /\ delivered' = Append(delivered, Head(line[l]))
  /\ UNCHANGED <<running, dropped, accepted>>

\* Clearing gives up the newest messages, a failing run the oldest, which it
\* had taken; only a failing run gives up prompts.
GiveUp(l, rest) ==
  \/ rest = line[l]
  \/ l # "prompt" /\ \E n \in 0..Len(line[l]) : rest = SubSeq(line[l], 1, n)
  \/ running /\ \E n \in 0..Len(line[l]) : rest = SubSeq(line[l], n + 1, Len(line[l]))

Drop ==
  /\ line' \in [Lines -> Seq(Nat)]
  /\ \A l \in Lines : GiveUp(l, line'[l])
  /\ dropped' = dropped \cup UNION {Waiting(l) \ ToSet(line'[l]) : l \in Lines}
  /\ UNCHANGED <<running, delivered, accepted>>

\* A run ends with all its prompts delivered or given up.
Stop ==
  /\ running /\ running' = FALSE
  /\ line["prompt"] = <<>>
  /\ UNCHANGED <<line, delivered, dropped, accepted>>

Next == \/ Start \/ Drop \/ Stop
        \/ \E l \in {"steer", "followUp"} : Accept(l)
        \/ \E l \in Lines : Deliver(l)

Spec == Init /\ [][Next]_mailVars
===============================================================================
