------------------------------- MODULE FifoLock -------------------------------
(***************************************************************************)
(* What withFileMutationQueue promises: the clients of a lock enter it one *)
(* at a time, in the order in which they arrived.  A client arrives once.  *)
(***************************************************************************)
EXTENDS Naturals, Sequences

CONSTANTS Lock, Client

VARIABLES arrivals,  \* the clients and the locks they came for, in order
          left,      \* the clients that have left
          holders    \* of each lock, the clients inside

Init == arrivals = <<>> /\ left = {} /\ holders = [l \in Lock |-> {}]

Join(l, c) ==
  /\ \A i \in DOMAIN arrivals : arrivals[i].client # c
  /\ arrivals' = Append(arrivals, [lock |-> l, client |-> c])
  /\ UNCHANGED <<left, holders>>

\* The positions of a lock's line.
Line(l) == {i \in DOMAIN arrivals : arrivals[i].lock = l /\ arrivals[i].client \notin left}

\* The client is the first of the line.
First(l, c) ==
  \E i \in Line(l) : arrivals[i].client = c /\ \A j \in Line(l) : i <= j

Enter(l, c) ==
  /\ First(l, c) /\ holders[l] = {}
  /\ holders' = [holders EXCEPT ![l] = {c}]
  /\ UNCHANGED <<arrivals, left>>

Leave(l, c) ==
  /\ First(l, c) /\ holders[l] = {c}
  /\ left' = left \cup {c} /\ holders' = [holders EXCEPT ![l] = {}]
  /\ UNCHANGED arrivals

Next == \E l \in Lock, c \in Client : Join(l, c) \/ Enter(l, c) \/ Leave(l, c)

Spec == Init /\ [][Next]_<<arrivals, left, holders>>
===============================================================================
