----------------------- MODULE FileMutationQueueProofs -----------------------
(***************************************************************************)
(* withFileMutationQueue serializes the calls of a key, for any number of  *)
(* calls, paths and links; it is a FifoLock, and no edit under it is lost. *)
(*                                                                         *)
(* The argument: a call finds in the map the newest pending call of its    *)
(* key.  So between a pending call and any later call of its key there is  *)
(* always a pending one the later call awaits (Chained), and a call that   *)
(* has stopped waiting has no pending call of its key before it.  Where a  *)
(* file has one key, its tool bodies run one after the other, and each     *)
(* edit is made to what the one before it has left (EditsKept).            *)
(***************************************************************************)
EXTENDS FileMutationQueue, TLAPS

USE DEF Statuses, Results, Phases

\* The part of the state the queue lives in.
QueueType ==
  /\ status \in [Op -> Statuses]
  /\ key \in [Op -> Path]
  /\ currentQueue \in [Op -> Op \cup {NoOp}]
  /\ fileMutationQueues \in [Path -> Op \cup {NoOp}]
  /\ calls \in Seq(Op)

\* calls lists the calls made, each once.
CallsListed ==
  /\ \A i, j \in 1..Len(calls) : calls[i] = calls[j] => i = j
  /\ \A o \in Op : status[o] # "idle" <=> \E i \in 1..Len(calls) : calls[i] = o

\* A call awaits a call at least as new as any pending one before it.
Chained ==
  \A i, j \in 1..Len(calls) :
    i < j /\ key[calls[i]] = key[calls[j]] /\ calls[i] \in Pending
      => \E m \in i..(j - 1) : currentQueue[calls[j]] = calls[m] /\ calls[m] \in Pending

\* The map holds a call at least as new as any pending one of its key ...
MapIsNewest ==
  \A i \in 1..Len(calls) :
    calls[i] \in Pending
      => \E m \in i..Len(calls) : /\ fileMutationQueues[key[calls[i]]] = calls[m]
                                  /\ calls[m] \in Pending

\* ... and only pending ones of that key.
MapIsPending ==
  \A k \in Path : fileMutationQueues[k] # NoOp
                    => fileMutationQueues[k] \in Pending /\ key[fileMutationQueues[k]] = k

\* A call awaits a call of its own key.
AwaitsOwnKey ==
  \A o \in Op : currentQueue[o] # NoOp => key[currentQueue[o]] = key[o] /\ status[currentQueue[o]] # "idle"

\* A call past its await had nothing pending to wait for.
PastAwait ==
  \A o \in Op : status[o] \in {"running", "done"} => Resolved(currentQueue[o])

QueueInv ==
  /\ QueueType /\ CallsListed /\ Chained /\ MapIsNewest /\ MapIsPending /\ AwaitsOwnKey
  /\ PastAwait

-----------------------------------------------------------------------------
\* Appending keeps the calls made so far and adds the new one at the end.
LEMMA AppendProperties ==
  ASSUME NEW S, NEW s \in Seq(S), NEW x \in S
  PROVE  /\ Append(s, x) \in Seq(S)
         /\ Len(Append(s, x)) = Len(s) + 1
         /\ \A i \in 1..Len(s) : Append(s, x)[i] = s[i]
         /\ Append(s, x)[Len(s) + 1] = x
         /\ Len(s) \in Nat
  OBVIOUS

LEMMA QueueInit == Init => QueueInv
<1> SUFFICES ASSUME Init PROVE QueueInv
  OBVIOUS
<1> USE DEF Init
<1>1. job \in [Op -> Jobs] /\ \A o \in Op : job[o].path \in Path
  BY DEF Jobs
<1>2. calls \in Seq(Op) /\ 1..Len(calls) = {}
  OBVIOUS
<1>3. QueueType
  BY <1>1, <1>2 DEF QueueType
<1>4. CallsListed /\ Chained /\ MapIsNewest
  BY <1>2 DEF CallsListed, Chained, MapIsNewest
<1>5. MapIsPending /\ AwaitsOwnKey /\ PastAwait
  BY DEF MapIsPending, AwaitsOwnKey, PastAwait
<1> QED
  BY <1>3, <1>4, <1>5 DEF QueueInv

\* The key of a call is a path.
LEMMA KeyIsPath ==
  ASSUME QueueAssumption, NEW path \in Path PROVE MutationQueueKey(path) \in Path
  BY DEF QueueAssumption, MutationQueueKey

\* A new call is the newest of its key, and awaits the one that was.
LEMMA CallKeepsQueue ==
  ASSUME QueueAssumption, QueueInv, job \in [Op -> Jobs], NEW o \in Op, Call(o) PROVE QueueInv'
<1> DEFINE n == Len(calls)
           k == MutationQueueKey(job[o].path)
<1> USE DEF QueueInv
<1>1. k \in Path
  BY KeyIsPath DEF Jobs
<1>2. /\ status[o] = "idle" /\ status' = [status EXCEPT ![o] = "waiting"]
      /\ key' = [key EXCEPT ![o] = k]
      /\ currentQueue' = [currentQueue EXCEPT ![o] = fileMutationQueues[k]]
      /\ fileMutationQueues' = [fileMutationQueues EXCEPT ![k] = o]
      /\ calls' = Append(calls, o)
  BY DEF Call
<1> HIDE DEF k
<1>3. /\ calls' \in Seq(Op) /\ Len(calls') = n + 1 /\ n \in Nat
      /\ \A i \in 1..n : calls'[i] = calls[i] /\ calls[i] \in Op
      /\ calls'[n + 1] = o
  BY <1>2, AppendProperties DEF QueueType
<1>4. QueueType'
  BY <1>1, <1>2, <1>3 DEF QueueType
<1>5. \A i \in 1..n : /\ calls[i] # o
                      /\ status'[calls[i]] = status[calls[i]]
                      /\ key'[calls[i]] = key[calls[i]]
                      /\ currentQueue'[calls[i]] = currentQueue[calls[i]]
  BY <1>2, <1>3 DEF CallsListed, QueueType
<1>6. /\ status'[o] = "waiting" /\ key'[o] = k
      /\ currentQueue'[o] = fileMutationQueues[k] /\ fileMutationQueues'[k] = o
  BY <1>1, <1>2 DEF QueueType
<1>7. /\ \A i \in 1..n : calls[i] \in Pending' <=> calls[i] \in Pending
      /\ o \in Pending' /\ o \notin Pending
      /\ \A p \in Op : p # o => (p \in Pending' <=> p \in Pending)
  BY <1>2, <1>3, <1>5, <1>6 DEF Pending, QueueType
<1>8. CallsListed'
  <2>1. \A i, j \in 1..(n + 1) : calls'[i] = calls'[j] => i = j
    BY <1>3, <1>5 DEF CallsListed
  <2>2. ASSUME NEW p \in Op
        PROVE  status'[p] # "idle" <=> \E i \in 1..(n + 1) : calls'[i] = p
    <3>1. CASE p = o
      BY <3>1, <1>3, <1>6
    <3>2. CASE p # o
      <4>1. status'[p] = status[p]
        BY <3>2, <1>2 DEF QueueType
      <4>2. (\E i \in 1..(n + 1) : calls'[i] = p) <=> (\E i \in 1..n : calls[i] = p)
        BY <3>2, <1>3
      <4> QED
        BY <4>1, <4>2 DEF CallsListed
    <3> QED
      BY <3>1, <3>2
  <2> QED
    BY <2>1, <2>2, <1>3 DEF CallsListed
<1>9. Chained'
  <2> SUFFICES ASSUME NEW i \in 1..(n + 1), NEW j \in 1..(n + 1), i < j,
                      key'[calls'[i]] = key'[calls'[j]], calls'[i] \in Pending'
               PROVE  \E m \in i..(j - 1) : /\ currentQueue'[calls'[j]] = calls'[m]
                                            /\ calls'[m] \in Pending'
    BY <1>3 DEF Chained
  <2>1. i \in 1..n /\ calls'[i] = calls[i] /\ calls[i] \in Pending
    BY <1>3, <1>7
  <2>2. CASE j \in 1..n
    <3>1. PICK m \in i..(j - 1) : currentQueue[calls[j]] = calls[m] /\ calls[m] \in Pending
      BY <2>1, <2>2, <1>3, <1>5 DEF Chained
    <3>2. m \in 1..n
      BY <2>1, <2>2, <1>3
    <3> QED
      BY <3>1, <3>2, <2>2, <1>3, <1>5, <1>7
  <2>3. CASE j = n + 1
    <3>1. key[calls[i]] = k
      BY <2>1, <2>3, <1>3, <1>5, <1>6
    <3>2. PICK m \in i..n : fileMutationQueues[k] = calls[m] /\ calls[m] \in Pending
      BY <3>1, <2>1 DEF MapIsNewest
    <3>3. m \in 1..n /\ m \in i..(j - 1)
      BY <2>1, <2>3, <1>3
    <3> QED
      BY <3>2, <3>3, <2>3, <1>3, <1>6, <1>7
  <2> QED
    BY <2>2, <2>3, <1>3
<1>10. MapIsNewest'
  <2> SUFFICES ASSUME NEW i \in 1..(n + 1), calls'[i] \in Pending'
               PROVE  \E m \in i..(n + 1) : /\ fileMutationQueues'[key'[calls'[i]]] = calls'[m]
                                            /\ calls'[m] \in Pending'
    BY <1>3 DEF MapIsNewest
  <2>1. CASE key'[calls'[i]] = k
    BY <2>1, <1>3, <1>6, <1>7
  <2>2. CASE key'[calls'[i]] # k
    <3>1. i \in 1..n /\ calls'[i] = calls[i] /\ calls[i] \in Pending
      BY <2>2, <1>3, <1>6, <1>7
    <3>2. PICK m \in i..n : fileMutationQueues[key[calls[i]]] = calls[m] /\ calls[m] \in Pending
      BY <3>1 DEF MapIsNewest
    <3>3. m \in 1..n /\ m \in i..(n + 1)
      BY <3>1, <1>3
    <3>4. fileMutationQueues'[key[calls[i]]] = fileMutationQueues[key[calls[i]]]
      BY <3>1, <2>2, <1>2, <1>3, <1>5 DEF QueueType
    <3> QED
      BY <3>1, <3>2, <3>3, <3>4, <1>3, <1>5, <1>7
  <2> QED
    BY <2>1, <2>2
<1>11. MapIsPending'
  <2> SUFFICES ASSUME NEW x \in Path, fileMutationQueues'[x] # NoOp
               PROVE  /\ fileMutationQueues'[x] \in Pending'
                      /\ key'[fileMutationQueues'[x]] = x
    BY DEF MapIsPending
  <2>1. CASE x = k
    BY <2>1, <1>6, <1>7
  <2>2. CASE x # k
    <3>1. fileMutationQueues'[x] = fileMutationQueues[x]
      BY <2>2, <1>2 DEF QueueType
    <3>2. /\ fileMutationQueues[x] \in Pending /\ key[fileMutationQueues[x]] = x
          /\ fileMutationQueues[x] \in Op /\ fileMutationQueues[x] # o
      BY <3>1, <1>7 DEF MapIsPending, Pending
    <3> QED
      BY <3>1, <3>2, <1>2, <1>7 DEF QueueType
  <2> QED
    BY <2>1, <2>2
<1>12. PastAwait'
  <2> SUFFICES ASSUME NEW p \in Op, status'[p] \in {"running", "done"}
               PROVE  Resolved(currentQueue[p])'
    BY DEF PastAwait
  <2>1. p # o /\ status[p] = status'[p] /\ currentQueue'[p] = currentQueue[p]
    BY <1>2, <1>6 DEF QueueType
  <2>2. Resolved(currentQueue[p])
    BY <2>1 DEF PastAwait
  <2> QED
    BY <2>1, <2>2, <1>2 DEF Resolved, QueueType
<1>13. AwaitsOwnKey'
  <2> SUFFICES ASSUME NEW p \in Op, currentQueue'[p] # NoOp
               PROVE  key'[currentQueue'[p]] = key'[p] /\ status'[currentQueue'[p]] # "idle"
    BY DEF AwaitsOwnKey
  <2>1. CASE p = o
    <3>1. /\ fileMutationQueues[k] \in Pending /\ fileMutationQueues[k] \in Op
          /\ key[fileMutationQueues[k]] = k /\ fileMutationQueues[k] # o
      BY <2>1, <1>1, <1>6, <1>7 DEF MapIsPending, Pending
    <3> QED
      BY <3>1, <2>1, <1>2, <1>6 DEF QueueType, Pending
  <2>2. CASE p # o
    <3>1. currentQueue'[p] = currentQueue[p] /\ key'[p] = key[p]
      BY <2>2, <1>2 DEF QueueType
    <3>2. /\ currentQueue[p] \in Op /\ key[currentQueue[p]] = key[p]
          /\ status[currentQueue[p]] # "idle" /\ currentQueue[p] # o
      BY <3>1, <1>2 DEF AwaitsOwnKey, QueueType
    <3> QED
      BY <3>1, <3>2, <1>2 DEF QueueType
  <2> QED
    BY <2>1, <2>2
<1> QED
  BY <1>4, <1>8, <1>9, <1>10, <1>11, <1>12, <1>13

\* Starting fn changes no queue.
LEMMA BeginKeepsQueue ==
  ASSUME QueueInv, NEW o \in Op, Begin(o) PROVE QueueInv'
<1> USE DEF QueueInv
<1>1. /\ status[o] = "waiting" /\ Resolved(currentQueue[o])
      /\ status' = [status EXCEPT ![o] = "running"]
      /\ UNCHANGED <<key, currentQueue, fileMutationQueues, calls>>
  BY DEF Begin
<1>2. Pending' = Pending /\ QueueType'
  BY <1>1 DEF Pending, QueueType
<1>3. CallsListed'
  BY <1>1 DEF CallsListed, QueueType
<1>4. Chained' /\ MapIsNewest' /\ MapIsPending'
  BY <1>1, <1>2 DEF Chained, MapIsNewest, MapIsPending
<1>5. PastAwait'
  BY <1>1 DEF PastAwait, Resolved, QueueType
<1>6. AwaitsOwnKey'
  BY <1>1 DEF AwaitsOwnKey, QueueType
<1> QED
  BY <1>2, <1>3, <1>4, <1>5, <1>6

\* A call that returns was the oldest pending one of its key: nobody's wait
\* rested on a call it was not, and the map forgets it only if it was the last.
LEMMA FinishKeepsQueue ==
  ASSUME QueueAssumption, QueueInv, NEW o \in Op, Finish(o) PROVE QueueInv'
<1> USE DEF QueueInv
<1>1. /\ status[o] = "running" /\ status' = [status EXCEPT ![o] = "done"]
      /\ fileMutationQueues' = [fileMutationQueues EXCEPT ![key[o]] = QueueAfter(o)]
      /\ UNCHANGED <<key, currentQueue, calls>>
  BY DEF Finish
<1>2. key[o] \in Path /\ QueueAfter(o) \in Op \cup {NoOp} /\ Len(calls) \in Nat
      /\ \A i \in 1..Len(calls) : calls[i] \in Op /\ key[calls[i]] \in Path
  BY DEF QueueAfter, QueueType
<1>3. QueueType'
  BY <1>1, <1>2 DEF QueueType
<1>4. \A p \in Op : p \in Pending' <=> p \in Pending /\ p # o
  BY <1>1 DEF Pending, QueueType
<1>5. CallsListed'
  BY <1>1 DEF CallsListed, QueueType
<1>6. currentQueue[o] \notin Pending
  BY <1>1 DEF PastAwait, Resolved, Pending, QueueAssumption
\* Whatever call a wait may rest on, it is not o.
<1>7. ASSUME NEW i \in 1..Len(calls), NEW m \in i..Len(calls), calls[i] \in Pending,
             calls[i] # o, key[calls[i]] = key[calls[m]]
      PROVE  calls[m] # o
  <2> SUFFICES ASSUME calls[m] = o PROVE FALSE
    OBVIOUS
  <2>1. i < m /\ m \in 1..Len(calls)
    BY <1>2, <1>7
  <2>2. currentQueue[calls[m]] \in Pending
    BY <2>1, <1>7 DEF Chained
  <2> QED
    BY <2>2, <1>6
<1>8. Chained'
  <2> SUFFICES ASSUME NEW i \in 1..Len(calls), NEW j \in 1..Len(calls), i < j,
                      key[calls[i]] = key[calls[j]], calls[i] \in Pending'
               PROVE  \E m \in i..(j - 1) : /\ currentQueue[calls[j]] = calls[m]
                                            /\ calls[m] \in Pending'
    BY <1>1 DEF Chained
  <2>1. calls[i] \in Pending /\ calls[i] # o
    BY <1>2, <1>4
  <2>2. PICK m \in i..(j - 1) : currentQueue[calls[j]] = calls[m] /\ calls[m] \in Pending
    BY <2>1 DEF Chained
  <2>3. m \in i..Len(calls) /\ m \in 1..Len(calls)
    BY <1>2
  <2>4. key[calls[m]] = key[calls[j]]
    BY <2>2, <2>3, <1>2 DEF AwaitsOwnKey, QueueAssumption
  <2>5. calls[m] # o
    BY <2>1, <2>3, <2>4, <1>7
  <2> QED
    BY <2>2, <2>3, <2>5, <1>2, <1>4
<1>9. MapIsNewest'
  <2> SUFFICES ASSUME NEW i \in 1..Len(calls), calls[i] \in Pending'
               PROVE  \E m \in i..Len(calls) :
                        /\ fileMutationQueues'[key[calls[i]]] = calls[m]
                        /\ calls[m] \in Pending'
    BY <1>1 DEF MapIsNewest
  <2>1. calls[i] \in Pending /\ calls[i] # o
    BY <1>2, <1>4
  <2>2. PICK m \in i..Len(calls) : /\ fileMutationQueues[key[calls[i]]] = calls[m]
                                   /\ calls[m] \in Pending
    BY <2>1 DEF MapIsNewest
  <2>3. m \in 1..Len(calls) /\ calls[m] # NoOp
    BY <1>2 DEF QueueAssumption
  <2>4. key[calls[m]] = key[calls[i]]
    BY <2>2, <2>3, <1>2 DEF MapIsPending
  <2>5. calls[m] # o
    BY <2>1, <2>4, <1>7
  <2>6. fileMutationQueues'[key[calls[i]]] = calls[m]
    BY <2>2, <2>5, <1>1, <1>2 DEF QueueAfter, QueueType
  <2> QED
    BY <2>2, <2>3, <2>5, <2>6, <1>2, <1>4
<1>10. MapIsPending'
  <2> SUFFICES ASSUME NEW x \in Path, fileMutationQueues'[x] # NoOp
               PROVE  /\ fileMutationQueues'[x] \in Pending'
                      /\ key[fileMutationQueues'[x]] = x
    BY <1>1 DEF MapIsPending
  <2>1. fileMutationQueues'[x] = fileMutationQueues[x] /\ fileMutationQueues[x] # o
    <3>1. CASE x = key[o]
      BY <3>1, <1>1 DEF QueueAfter, QueueType
    <3>2. CASE x # key[o]
      <4>1. fileMutationQueues'[x] = fileMutationQueues[x]
        BY <3>2, <1>1 DEF QueueType
      <4> QED
        BY <4>1, <3>2 DEF MapIsPending
    <3> QED
      BY <3>1, <3>2
  <2>2. fileMutationQueues[x] \in Pending /\ fileMutationQueues[x] \in Op
    BY <2>1 DEF MapIsPending, Pending
  <2> QED
    BY <2>1, <2>2, <1>4 DEF MapIsPending
<1>11. PastAwait'
  BY <1>1 DEF PastAwait, Resolved, QueueType
<1>12. AwaitsOwnKey'
  BY <1>1 DEF AwaitsOwnKey, QueueType
<1> QED
  BY <1>3, <1>5, <1>8, <1>9, <1>10, <1>11, <1>12

\* The tools' bodies and an abort leave the queue alone.
LEMMA RestKeepsQueue ==
  ASSUME QueueInv, UNCHANGED queueVars PROVE QueueInv'
<1>1. UNCHANGED <<status, key, currentQueue, fileMutationQueues, calls>>
  BY DEF queueVars
<1>2. Pending' = Pending
  BY <1>1 DEF Pending
<1> QED
  BY <1>1, <1>2 DEF QueueInv, QueueType, CallsListed, Chained, MapIsNewest, MapIsPending,
                    AwaitsOwnKey, PastAwait, Resolved

LEMMA BodyKeepsQueueVars ==
  ASSUME NEW o \in Op, Body(o) PROVE UNCHANGED queueVars
  BY DEF Body, Mkdir, Access, Read, Fail, Truncate, Land

\* With it, the calls' tools and paths, which never change.
QueueHolds == QueueInv /\ job \in [Op -> Jobs]

LEMMA QueueHoldsInit == Init => QueueHolds
  BY QueueInit DEF Init, QueueHolds

LEMMA QueueHoldsStep ==
  ASSUME QueueAssumption, QueueHolds, [Next]_vars PROVE QueueHolds'
<1> USE DEF QueueHolds
<1>1. ASSUME NEW o \in Op, Call(o) PROVE QueueHolds'
  BY <1>1, CallKeepsQueue DEF Call
<1>2. ASSUME NEW o \in Op, Begin(o) PROVE QueueHolds'
  BY <1>2, BeginKeepsQueue DEF Begin
<1>3. ASSUME NEW o \in Op, Finish(o) PROVE QueueHolds'
  BY <1>3, FinishKeepsQueue DEF Finish
<1>4. ASSUME UNCHANGED queueVars PROVE QueueHolds'
  BY <1>4, RestKeepsQueue DEF queueVars
<1>5. CASE Abort
  BY <1>5, <1>4 DEF Abort
<1>6. CASE UNCHANGED vars
  BY <1>6, <1>4 DEF vars
<1> QED
  BY <1>1, <1>2, <1>3, <1>4, <1>5, <1>6, BodyKeepsQueueVars DEF Next

\* The queue's invariant, and the calls' tools and paths, which never change.
THEOREM QueueInvariant ==
  ASSUME QueueAssumption PROVE Spec => []QueueHolds
  BY QueueHoldsInit, QueueHoldsStep, PTL DEF Spec

-----------------------------------------------------------------------------
\* Of two calls of a key, the later is past its await only if the earlier has
\* returned.
LEMMA EarlierReturned == QueueAssumption /\ QueueInv => InCallOrder
<1> SUFFICES ASSUME QueueAssumption, QueueInv, NEW i \in 1..Len(calls), NEW j \in 1..Len(calls),
                    i < j, key[calls[i]] = key[calls[j]],
                    status[calls[j]] \in {"running", "done"}
             PROVE  status[calls[i]] = "done"
  BY DEF InCallOrder, QueueInv, QueueType
<1> USE DEF QueueInv
<1>1. calls[i] \in Op /\ calls[j] \in Op /\ status[calls[i]] # "idle"
  BY DEF QueueType, CallsListed
<1>2. ASSUME calls[i] \in Pending PROVE FALSE
  <2>1. currentQueue[calls[j]] \in Pending
    BY <1>2 DEF Chained
  <2>2. Resolved(currentQueue[calls[j]])
    BY <1>1 DEF PastAwait
  <2> QED
    BY <2>1, <2>2 DEF Resolved, Pending, QueueAssumption
<1> QED
  BY <1>1, <1>2 DEF Pending, QueueType

\* Two different calls made are one before the other.
LEMMA OneKeyOneCall == QueueAssumption /\ QueueInv => KeyExclusion
<1> SUFFICES ASSUME QueueAssumption, QueueInv, NEW o \in Op, NEW p \in Op, o # p,
                    status[o] = "running", status[p] = "running", key[o] = key[p]
             PROVE  FALSE
  BY DEF KeyExclusion
<1>1. PICK i \in 1..Len(calls) : calls[i] = o
  BY DEF QueueInv, CallsListed
<1>2. PICK j \in 1..Len(calls) : calls[j] = p
  BY DEF QueueInv, CallsListed
<1>3. Len(calls) \in Nat /\ 1..Len(calls) = DOMAIN calls
  BY DEF QueueInv, QueueType
<1>4. i < j \/ j < i
  BY <1>1, <1>2, <1>3
<1> QED
  BY <1>1, <1>2, <1>3, <1>4, EarlierReturned DEF InCallOrder

LEMMA MapIsExact == QueueAssumption /\ QueueInv => MapTracksPending
<1> SUFFICES ASSUME QueueAssumption, QueueInv, NEW k \in Path
             PROVE  fileMutationQueues[k] # NoOp <=> \E o \in Pending : key[o] = k
  BY DEF MapTracksPending
<1>1. ASSUME NEW o \in Pending, key[o] = k PROVE fileMutationQueues[k] # NoOp
  <2>1. PICK i \in 1..Len(calls) : calls[i] = o
    BY DEF QueueInv, CallsListed, Pending
  <2>2. fileMutationQueues[k] \in Pending
    BY <1>1, <2>1 DEF QueueInv, MapIsNewest
  <2> QED
    BY <2>2 DEF Pending, QueueAssumption
<1> QED
  BY <1>1 DEF QueueInv, MapIsPending

\* Calls of one key never run their tools together: withFileMutationQueue is a
\* mutual exclusion per key.
THEOREM CallsAreSerialized == ASSUME QueueAssumption PROVE Spec => []KeyExclusion
<1>1. Spec => []QueueInv
  <2>1. QueueHolds => QueueInv
    BY DEF QueueHolds
  <2> QED
    BY <2>1, QueueInvariant, PTL
<1>2. QueueInv => KeyExclusion
  BY OneKeyOneCall
<1> QED
  BY <1>1, <1>2, PTL

\* ... and serves them first come, first served.
THEOREM CallsAreServedInOrder == ASSUME QueueAssumption PROVE Spec => []InCallOrder
<1>1. Spec => []QueueInv
  <2>1. QueueHolds => QueueInv
    BY DEF QueueHolds
  <2> QED
    BY <2>1, QueueInvariant, PTL
<1>2. QueueInv => InCallOrder
  BY EarlierReturned
<1> QED
  BY <1>1, <1>2, PTL

\* The module-level map neither leaks nor loses a queue.
THEOREM MapIsTidy == ASSUME QueueAssumption PROVE Spec => []MapTracksPending
<1>1. Spec => []QueueInv
  <2>1. QueueHolds => QueueInv
    BY DEF QueueHolds
  <2> QED
    BY <2>1, QueueInvariant, PTL
<1>2. QueueInv => MapTracksPending
  BY MapIsExact
<1> QED
  BY <1>1, <1>2, PTL

-----------------------------------------------------------------------------
(* Types *)

\* What is left to type besides the queue.
RestType ==
  /\ job \in [Op -> Jobs] /\ io \in [Op -> Phases] /\ result \in [Op -> Results]
  /\ aborted \subseteq Op /\ read \in [Op -> SUBSET (Op \cup {NoOp})]
  /\ exists \subseteq Path /\ content \in [Path -> SUBSET (Op \cup {NoOp})]

LEMMA FileIsPath ==
  ASSUME QueueAssumption, NEW o \in Op, job \in [Op -> Jobs] PROVE File(o) \in Path
  BY DEF QueueAssumption, File, Jobs

LEMMA RestTypeStep ==
  ASSUME QueueAssumption, RestType, [Next]_vars PROVE RestType'
<1> USE DEF RestType
<1>1. ASSUME NEW o \in Op, Call(o) PROVE RestType'
  BY <1>1 DEF Call, diskVars
<1>2. ASSUME NEW o \in Op, Begin(o) PROVE RestType'
  BY <1>2 DEF Begin, diskVars
<1>3. ASSUME NEW o \in Op, Finish(o) PROVE RestType'
  BY <1>3 DEF Finish, diskVars
<1>4. ASSUME NEW o \in Op, Mkdir(o) \/ Access(o) \/ Fail(o) PROVE RestType'
  BY <1>4 DEF Mkdir, Access, Fail, Proceed, queueVars, diskVars
<1>5. ASSUME NEW o \in Op, Read(o) PROVE RestType'
  BY <1>5, FileIsPath DEF Read, Proceed, queueVars, diskVars
<1>6. ASSUME NEW o \in Op, Truncate(o) PROVE RestType'
  BY <1>6, FileIsPath DEF Truncate, queueVars
<1>7. ASSUME NEW o \in Op, Land(o) PROVE RestType'
  <2>1. {o} \cup (IF job[o].tool = "edit" THEN read[o] ELSE {}) \subseteq Op \cup {NoOp}
    OBVIOUS
  <2> QED
    BY <1>7, <2>1, FileIsPath DEF Land, queueVars
<1>8. CASE Abort
  BY <1>8 DEF Abort, Pending, queueVars, diskVars
<1>9. CASE UNCHANGED vars
  BY <1>9 DEF vars, queueVars, diskVars
<1> QED
  BY <1>1, <1>2, <1>3, <1>4, <1>5, <1>6, <1>7, <1>8, <1>9 DEF Next, Body

\* The queue, the tools and the files always have their types.
THEOREM TypeCorrect == ASSUME QueueAssumption PROVE Spec => []TypeOK
<1>1. Init => RestType
  BY DEF QueueAssumption, Init, RestType
<1>2. QueueHolds /\ RestType => TypeOK
  BY DEF QueueHolds, QueueInv, QueueType, RestType, TypeOK
<1>3. RestType /\ [Next]_vars => RestType'
  BY RestTypeStep
<1>4. Spec => []QueueHolds
  BY QueueInvariant
<1> QED
  BY <1>1, <1>2, <1>3, <1>4, PTL DEF Spec

-----------------------------------------------------------------------------
(* The file itself, where neither of the two ways around the key exists: a  *)
(* link to a file that is not there yet, and an abort, which lets a call     *)
(* return while its I/O goes on.                                            *)

\* No path is a dangling link.
Undangling == \A p \in Path : RealOf[p] = p \/ RealOf[p] \in Existing

\* A body at work is one whose call has not returned, under its file's key.
BodyInside ==
  /\ job \in [Op -> Jobs] /\ key \in [Op -> Path]
  /\ io \in [Op -> Phases] /\ result \in [Op -> Results] /\ status \in [Op -> Statuses]
  /\ aborted = {} /\ Existing \subseteq exists
  /\ \A o \in Op : io[o] \in {"none", "over"} \/ (status[o] = "running" /\ result[o] = "pending")
  /\ \A o \in Op : status[o] = "waiting" => io[o] = "none" /\ result[o] = "pending"
  /\ \A o \in Op : status[o] = "idle" => io[o] = "none" /\ result[o] = "pending"
  /\ \A o \in Op : status[o] # "idle" => key[o] = File(o)

LEMMA KeyIsTheFile ==
  ASSUME Undangling, Existing \subseteq exists, NEW path \in Path
  PROVE  MutationQueueKey(path) = RealOf[path]
  BY DEF Undangling, MutationQueueKey

LEMMA BodyInsideStep ==
  ASSUME QueueAssumption, Undangling, Aborts = FALSE, BodyInside, [Next]_vars
  PROVE  BodyInside'
<1> USE DEF BodyInside, File
<1>1. ASSUME NEW o \in Op, Call(o) PROVE BodyInside'
  <2>1. job[o].path \in Path
    BY DEF Jobs
  <2>2. MutationQueueKey(job[o].path) = RealOf[job[o].path] /\ RealOf[job[o].path] \in Path
    BY <2>1, KeyIsTheFile DEF QueueAssumption
  <2>3. /\ status[o] = "idle" /\ status' = [status EXCEPT ![o] = "waiting"]
        /\ key' = [key EXCEPT ![o] = RealOf[job[o].path]]
        /\ UNCHANGED <<job, io, result, aborted, exists>>
    BY <1>1, <2>2 DEF Call, diskVars
  <2> QED
    BY <2>2, <2>3
<1>2. ASSUME NEW o \in Op, Begin(o) PROVE BodyInside'
  <2>1. /\ status[o] = "waiting" /\ status' = [status EXCEPT ![o] = "running"]
        /\ UNCHANGED <<job, key, aborted, result, exists>>
        /\ \E phase \in {"access", "mkdir"} : io' = [io EXCEPT ![o] = phase]
    BY <1>2 DEF Begin, diskVars
  <2> QED
    BY <2>1
<1>3. ASSUME NEW o \in Op, Finish(o) PROVE BodyInside'
  BY <1>3 DEF Finish, diskVars
<1>4. ASSUME NEW o \in Op, Body(o) PROVE BodyInside'
  <2>1. UNCHANGED <<status, job, key, aborted>> /\ exists \subseteq exists'
    BY <1>4 DEF Body, Mkdir, Access, Read, Fail, Truncate, Land, queueVars, diskVars
  <2>2. io[o] \in {"mkdir", "access", "reading", "opening", "writing"}
    BY <1>4 DEF Body, Mkdir, Access, Read, Fail, Truncate, Land
  <2>3. status[o] = "running"
    BY <2>2
  <2>4. \/ \E phase \in {"opening", "reading", "writing"} :
             io' = [io EXCEPT ![o] = phase] /\ result' = result
        \/ /\ io' = [io EXCEPT ![o] = "over"]
           /\ \E r \in {"ok", "failed"} : result' = [result EXCEPT ![o] = r]
    <3>1. CASE Mkdir(o)
      BY <3>1 DEF Mkdir, Proceed
    <3>2. CASE Access(o)
      BY <3>2 DEF Access, Proceed
    <3>3. CASE Read(o)
      BY <3>3 DEF Read, Proceed
    <3>4. CASE Fail(o)
      BY <3>4 DEF Fail
    <3>5. CASE Truncate(o)
      BY <3>5 DEF Truncate
    <3>6. CASE Land(o)
      BY <3>6 DEF Land
    <3> QED
      BY <1>4, <3>1, <3>2, <3>3, <3>4, <3>5, <3>6 DEF Body
  <2> QED
    BY <2>1, <2>2, <2>3, <2>4
<1>5. CASE UNCHANGED vars
  BY <1>5 DEF vars, queueVars, diskVars
<1> QED
  BY <1>1, <1>2, <1>3, <1>4, <1>5 DEF Next, Abort

LEMMA BodyInsideInit == ASSUME QueueAssumption, Init PROVE BodyInside
<1>1. job \in [Op -> Jobs] /\ key = [o \in Op |-> job[o].path] /\ status = [o \in Op |-> "idle"]
  BY DEF Init
<1>2. key \in [Op -> Path]
  BY <1>1 DEF Jobs
<1> QED
  BY <1>1, <1>2 DEF Init, BodyInside, Statuses, Phases, Results

LEMMA OneBodyAtAFile == BodyInside /\ KeyExclusion => FileExclusion
<1> SUFFICES ASSUME BodyInside, KeyExclusion, NEW o \in Busy, NEW p \in Busy, File(o) = File(p)
             PROVE  o = p
  BY DEF FileExclusion
<1>1. o \in Op /\ p \in Op /\ status[o] = "running" /\ status[p] = "running"
  BY DEF Busy, BodyInside
<1>2. key[o] = key[p]
  BY <1>1 DEF BodyInside
<1> QED
  BY <1>1, <1>2 DEF KeyExclusion

-----------------------------------------------------------------------------
(* What the files hold. *)

\* The full writes of a file's history, of which one is the newest if there are any, and
\* what is left of the history since.
FullWrites(f) == {i \in DOMAIN landed[f] : job[landed[f][i]].tool = "write"}
From(w) == IF w = {} THEN 1 ELSE CHOOSE i \in w : \A j \in w : j <= i
Since(s, w) ==
  {s[i] : i \in {j \in DOMAIN s : j >= From(w)}} \cup (IF w = {} THEN {NoOp} ELSE {})
HasNewest(w) == w # {} => \E i \in w : \A j \in w : j <= i

\* An edit that is about to write holds what the file holds.
EditsKept ==
  /\ landed \in [Path -> Seq(Op)] /\ \A f \in Path : HasNewest(FullWrites(f))
  /\ NoLostEdit
  /\ \A o \in Op : job[o].tool = "edit" /\ io[o] \in {"opening", "writing"}
                     => read[o] = Survivors(File(o))
  /\ \A o \in Op : io[o] = "mkdir" => job[o].tool # "edit"

LEMMA SurvivorsSince == \A f : Survivors(f) = Since(landed[f], FullWrites(f))
BY DEF Survivors, Since, From, FullWrites

LEMMA FromNewest ==
  ASSUME NEW n \in Nat, NEW w, w \subseteq 1..n, HasNewest(w)
  PROVE  From(w) \in Nat /\ From(w) <= n + 1 /\ \A j \in w : j <= From(w)
<1>1. CASE w = {}
  BY <1>1 DEF From
<1>2. CASE w # {}
  <2>1. From(w) \in w /\ \A j \in w : j <= From(w)
    <3>1. \E i \in w : \A j \in w : j <= i
      BY <1>2 DEF HasNewest
    <3> QED
      BY <1>2, <3>1, Zenon DEF From
  <2>2. From(w) \in 1..n
    BY <2>1
  <2> QED
    BY <2>1, <2>2
<1> QED
  BY <1>1, <1>2

\* What a write that completes adds to a file's history.
LEMMA HistoryGrows ==
  ASSUME NEW s \in Seq(Op), NEW o \in Op, NEW w, w \subseteq DOMAIN s, HasNewest(w)
  PROVE  /\ Since(Append(s, o), w) = {o} \cup Since(s, w)
         /\ Since(Append(s, o), w \cup {Len(s) + 1}) = {o}
         /\ HasNewest(w \cup {Len(s) + 1})
<1> DEFINE n == Len(s)
           t == Append(s, o)
           v == w \cup {n + 1}
<1>1. /\ n \in Nat /\ DOMAIN s = 1..n /\ DOMAIN t = 1..(n + 1) /\ t[n + 1] = o
      /\ \A i \in 1..n : t[i] = s[i]
  BY AppendProperties
<1> HIDE DEF n, t
<1>2. From(w) \in Nat /\ From(w) <= n + 1
  BY <1>1, FromNewest
<1>3. {j \in 1..(n + 1) : j >= From(w)} = {j \in 1..n : j >= From(w)} \cup {n + 1}
  BY <1>1, <1>2
<1>4. Since(t, w) = {o} \cup Since(s, w)
  BY <1>1, <1>3 DEF Since
<1>5. n + 1 \in v /\ \A j \in v : j <= n + 1
  BY <1>1
<1>6. HasNewest(v) /\ v # {} /\ v \subseteq 1..(n + 1)
  BY <1>1, <1>5 DEF HasNewest
<1>7. From(v) \in v /\ n + 1 <= From(v)
  BY <1>5, <1>6 DEF From
<1>8. From(v) = n + 1
  BY <1>1, <1>5, <1>7
<1> HIDE DEF v
<1>9. {j \in 1..(n + 1) : j >= From(v)} = {n + 1}
  BY <1>1, <1>8
<1>10. Since(t, v) = {o}
  BY <1>1, <1>6, <1>9 DEF Since
<1> QED
  BY <1>4, <1>6, <1>10 DEF n, t, v

\* Steps that change no file and let no edit begin to write.
LEMMA EditsKeptElsewhere ==
  ASSUME EditsKept, UNCHANGED <<job, read, content, landed>>,
         \A p \in Op : /\ io'[p] = "writing" <=> io[p] = "writing"
                       /\ io'[p] = "opening" => io[p] = "opening" \/ job[p].tool # "edit"
                       /\ io'[p] = "mkdir" => job[p].tool # "edit"
  PROVE  EditsKept'
<1>1. \A f : Survivors(f)' = Survivors(f) /\ FullWrites(f)' = FullWrites(f)
  BY DEF Survivors, FullWrites
<1>2. \A p : File(p)' = File(p)
  BY DEF File
<1>3. NoLostEdit'
  BY <1>1, <1>2 DEF EditsKept, NoLostEdit
<1> QED
  BY <1>1, <1>2, <1>3 DEF EditsKept

LEMMA EditsKeptStep ==
  ASSUME QueueAssumption, RestType, BodyInside, FileExclusion, EditsKept, [Next]_vars
  PROVE  EditsKept'
<1>1. job \in [Op -> Jobs] /\ io \in [Op -> Phases] /\ aborted = {}
  BY DEF BodyInside
<1>2. \A o \in Op : File(o) \in Path
  BY <1>1, FileIsPath
<1>3. ASSUME NEW o \in Op, Call(o) \/ Finish(o) PROVE EditsKept'
  <2>1. UNCHANGED <<job, read, content, landed, io>>
    BY <1>3 DEF Call, Finish, diskVars
  <2> QED
    BY <2>1, EditsKeptElsewhere DEF EditsKept
<1>4. ASSUME NEW o \in Op, Begin(o) PROVE EditsKept'
  <2>1. UNCHANGED <<job, read, content, landed>>
    BY <1>4 DEF Begin, diskVars
  <2>2. io[o] = "none" /\ io' = [io EXCEPT ![o] = IF job[o].tool = "edit" THEN "access" ELSE "mkdir"]
    BY <1>4 DEF Begin, BodyInside
  <2>3. \A p \in Op : /\ io'[p] = "writing" <=> io[p] = "writing"
                      /\ io'[p] = "opening" => io[p] = "opening" \/ job[p].tool # "edit"
                      /\ io'[p] = "mkdir" => job[p].tool # "edit"
    BY <1>1, <2>2 DEF EditsKept
  <2> QED
    BY <2>1, <2>3, EditsKeptElsewhere
<1>5. ASSUME NEW o \in Op, Mkdir(o) \/ Access(o) \/ Fail(o) PROVE EditsKept'
  <2>1. UNCHANGED <<job, read, content, landed>>
    BY <1>5 DEF Mkdir, Access, Fail, queueVars, diskVars
  <2>2. \/ io[o] = "mkdir" /\ io' = [io EXCEPT ![o] = "opening"]
        \/ io[o] = "access" /\ io' = [io EXCEPT ![o] = "reading"]
        \/ io[o] # "writing" /\ io' = [io EXCEPT ![o] = "over"]
    BY <1>1, <1>5 DEF Mkdir, Access, Fail, Proceed
  <2>3. \A p \in Op : /\ io'[p] = "writing" <=> io[p] = "writing"
                      /\ io'[p] = "opening" => io[p] = "opening" \/ job[p].tool # "edit"
                      /\ io'[p] = "mkdir" => job[p].tool # "edit"
    BY <1>1, <2>2 DEF EditsKept
  <2> QED
    BY <2>1, <2>3, EditsKeptElsewhere
<1>6. ASSUME NEW o \in Op, Read(o) PROVE EditsKept'
  <2>1. /\ io[o] = "reading" /\ io' = [io EXCEPT ![o] = "opening"]
        /\ read' = [read EXCEPT ![o] = content[File(o)]]
        /\ UNCHANGED <<job, content, landed>>
    BY <1>1, <1>6 DEF Read, Proceed, queueVars, diskVars
  <2>2. \A f : Survivors(f)' = Survivors(f) /\ FullWrites(f)' = FullWrites(f)
    BY <2>1 DEF Survivors, FullWrites
  <2>3. \A p : File(p)' = File(p)
    BY <2>1 DEF File
  <2>4. \A p \in Op : io[p] = "writing" => File(p) # File(o)
    BY <2>1 DEF FileExclusion, Busy
  <2>5. content[File(o)] = Survivors(File(o))
    BY <1>2, <2>4 DEF EditsKept, NoLostEdit
  <2>6. \A p \in Op : /\ io'[p] = "writing" <=> io[p] = "writing"
                      /\ io'[p] = "opening" => io[p] = "opening" \/ p = o
                      /\ io'[p] = "mkdir" => io[p] = "mkdir"
                      /\ p # o => read'[p] = read[p]
    BY <1>1, <2>1
  <2>7. NoLostEdit'
    BY <2>1, <2>2, <2>3, <2>6 DEF EditsKept, NoLostEdit
  <2>8. \A p \in Op : job'[p].tool = "edit" /\ io'[p] \in {"opening", "writing"}
                        => read'[p] = Survivors(File(p))'
    <3>1. read'[o] = Survivors(File(o))'
      BY <2>1, <2>2, <2>3, <2>5 DEF RestType
    <3> QED
      BY <2>1, <2>2, <2>3, <2>6, <3>1 DEF EditsKept
  <2> QED
    BY <2>1, <2>2, <2>6, <2>7, <2>8 DEF EditsKept
<1>7. ASSUME NEW o \in Op, Truncate(o) PROVE EditsKept'
  <2>1. /\ io[o] = "opening" /\ io' = [io EXCEPT ![o] = "writing"]
        /\ content' = [content EXCEPT ![File(o)] = {}]
        /\ UNCHANGED <<job, read, landed>>
    BY <1>7 DEF Truncate, queueVars
  <2>2. \A f : Survivors(f)' = Survivors(f) /\ FullWrites(f)' = FullWrites(f)
    BY <2>1 DEF Survivors, FullWrites
  <2>3. \A p : File(p)' = File(p)
    BY <2>1 DEF File
  <2>4. \A p \in Op : p # o => io'[p] = io[p]
    BY <1>1, <2>1
  <2>5. io'[o] = "writing"
    BY <1>1, <2>1
  <2>6. ASSUME NEW f \in Path, \A p \in Op : io'[p] = "writing" => File(p)' # f
        PROVE  content'[f] = Survivors(f)'
    <3>1. f # File(o)
      BY <2>3, <2>5, <2>6
    <3>2. \A p \in Op : io[p] = "writing" => File(p) # f
      BY <2>3, <2>4, <2>6, <3>1
    <3>3. content'[f] = content[f]
      BY <2>1, <3>1 DEF RestType
    <3> QED
      BY <2>2, <3>2, <3>3 DEF EditsKept, NoLostEdit
  <2>7. NoLostEdit'
    BY <2>6 DEF NoLostEdit
  <2> QED
    BY <2>1, <2>2, <2>3, <2>4, <2>5, <2>7 DEF EditsKept
<1>8. ASSUME NEW o \in Op, Land(o) PROVE EditsKept'
  <2>1. PICK f \in Path : f = File(o)
    BY <1>2
  <2> DEFINE held == {o} \cup (IF job[o].tool = "edit" THEN read[o] ELSE {})
  <2>2. /\ io[o] = "writing" /\ io' = [io EXCEPT ![o] = "over"]
        /\ content' = [content EXCEPT ![f] = held]
        /\ landed' = [landed EXCEPT ![f] = Append(@, o)]
        /\ UNCHANGED <<job, read>>
    BY <1>8, <2>1 DEF Land, queueVars
  <2>3. f \in Path /\ landed[f] \in Seq(Op) /\ landed'[f] = Append(landed[f], o)
    BY <1>2, <2>2 DEF EditsKept
  <2>4. landed' \in [Path -> Seq(Op)] /\ \A g \in Path : g # f => landed'[g] = landed[g]
    BY <2>2, <2>3, AppendProperties DEF EditsKept
  <2>5. content'[f] = held /\ \A g \in Path : g # f => content'[g] = content[g]
    BY <2>2, <2>3 DEF RestType
  <2>6. \A p : File(p)' = File(p)
    BY <2>2 DEF File
  <2>7. /\ \A p \in Op : p # o => io'[p] = io[p]
        /\ io'[o] = "over"
    BY <1>1, <2>2
  <2> HIDE DEF held
  <2>8. \A g \in Path : g # f => FullWrites(g)' = FullWrites(g) /\ Survivors(g)' = Survivors(g)
    BY <2>2, <2>4 DEF FullWrites, Survivors
  <2>9. FullWrites(f)' = FullWrites(f) \cup (IF job[o].tool = "write" THEN {Len(landed[f]) + 1} ELSE {})
    <3>1. /\ Len(landed[f]) \in Nat /\ DOMAIN landed[f] = 1..Len(landed[f])
          /\ DOMAIN landed'[f] = 1..(Len(landed[f]) + 1)
          /\ landed'[f][Len(landed[f]) + 1] = o
          /\ \A i \in 1..Len(landed[f]) : landed'[f][i] = landed[f][i]
      BY <2>3, AppendProperties
    <3>2. \A i \in 1..(Len(landed[f]) + 1) : i \in 1..Len(landed[f]) \/ i = Len(landed[f]) + 1
      BY <3>1
    <3>3. \A i \in 1..Len(landed[f]) : i \in 1..(Len(landed[f]) + 1)
      BY <3>1
    <3> QED
      BY <2>2, <3>1, <3>2, <3>3 DEF FullWrites
  <2>10. FullWrites(f) \subseteq DOMAIN landed[f] /\ HasNewest(FullWrites(f))
    BY <2>3 DEF FullWrites, EditsKept
  <2>11. job[o].tool = "edit" \/ job[o].tool = "write"
    BY <1>1 DEF QueueAssumption, Jobs
  <2>12. HasNewest(FullWrites(f)') /\ Survivors(f)' = held
    <3>1. Survivors(f) = Since(landed[f], FullWrites(f))
      BY SurvivorsSince
    <3>2. Survivors(f)' = Since(landed'[f], FullWrites(f)')
      BY DEF Survivors, Since, From, FullWrites
    <3>3. /\ Since(landed'[f], FullWrites(f)) = {o} \cup Since(landed[f], FullWrites(f))
          /\ Since(landed'[f], FullWrites(f) \cup {Len(landed[f]) + 1}) = {o}
          /\ HasNewest(FullWrites(f) \cup {Len(landed[f]) + 1})
      <4> DEFINE w == FullWrites(f)
                 s == landed[f]
      <4>1. s \in Seq(Op) /\ w \subseteq DOMAIN s /\ HasNewest(w)
        BY <2>3, <2>10
      <4>2. landed'[f] = Append(s, o)
        BY <2>3
      <4> HIDE DEF w, s
      <4>3. /\ Since(Append(s, o), w) = {o} \cup Since(s, w)
            /\ Since(Append(s, o), w \cup {Len(s) + 1}) = {o}
            /\ HasNewest(w \cup {Len(s) + 1})
        BY <4>1, HistoryGrows
      <4> QED
        BY <4>2, <4>3 DEF w, s
    <3>4. CASE job[o].tool = "edit"
      <4>1. read[o] = Survivors(f)
        BY <2>2, <2>1, <3>4 DEF EditsKept
      <4>2. FullWrites(f)' = FullWrites(f)
        BY <2>9, <3>4
      <4> QED
        BY <2>10, <3>1, <3>2, <3>4, <3>3, <4>1, <4>2 DEF held
    <3>5. CASE job[o].tool = "write"
      <4>1. FullWrites(f)' = FullWrites(f) \cup {Len(landed[f]) + 1}
        BY <2>9, <3>5
      <4> QED
        BY <3>2, <3>5, <3>3, <4>1 DEF held
    <3> QED
      BY <2>11, <3>4, <3>5
  <2>13. \A g \in Path : HasNewest(FullWrites(g)')
    BY <2>8, <2>12 DEF EditsKept
  <2>14. ASSUME NEW g \in Path, \A p \in Op : io'[p] = "writing" => File(p)' # g
         PROVE  content'[g] = Survivors(g)'
    <3>1. CASE g = f
      BY <2>5, <2>12, <3>1
    <3>2. CASE g # f
      <4>1. \A p \in Op : io[p] = "writing" => File(p) # g
        BY <2>6, <2>7, <2>14, <2>1, <3>2
      <4> QED
        BY <2>5, <2>8, <3>2, <4>1 DEF EditsKept, NoLostEdit
    <3> QED
      BY <3>1, <3>2
  <2>15. NoLostEdit'
    BY <2>14 DEF NoLostEdit
  <2>16. ASSUME NEW p \in Op, job'[p].tool = "edit", io'[p] \in {"opening", "writing"}
         PROVE  read'[p] = Survivors(File(p))'
    <3>1. p # o /\ io[p] \in {"opening", "writing"}
      BY <2>7, <2>16
    <3>2. File(p) # f
      BY <2>2, <2>1, <3>1 DEF FileExclusion, Busy
    <3>3. Survivors(File(p))' = Survivors(File(p))
      BY <1>2, <2>6, <2>8, <3>2
    <3> QED
      BY <2>2, <2>16, <3>1, <3>3 DEF EditsKept
  <2>17. \A p \in Op : io'[p] = "mkdir" => job'[p].tool # "edit"
    BY <2>2, <2>7 DEF EditsKept
  <2> QED
    BY <2>4, <2>13, <2>15, <2>16, <2>17 DEF EditsKept
<1>9. CASE Abort
  <2>1. UNCHANGED <<job, read, content, landed, io>>
    BY <1>9 DEF Abort, queueVars, diskVars
  <2> QED
    BY <2>1, EditsKeptElsewhere DEF EditsKept
<1>10. CASE UNCHANGED vars
  <2>1. UNCHANGED <<job, read, content, landed, io>>
    BY <1>10 DEF vars, queueVars, diskVars
  <2> QED
    BY <2>1, EditsKeptElsewhere DEF EditsKept
<1> QED
  BY <1>3, <1>4, <1>5, <1>6, <1>7, <1>8, <1>9, <1>10 DEF Next, Body

LEMMA EditsKeptInit == Init => EditsKept
<1> SUFFICES ASSUME Init PROVE EditsKept
  OBVIOUS
<1>1. /\ landed = [f \in Path |-> <<>>] /\ content = [f \in Path |-> {NoOp}]
      /\ io = [o \in Op |-> "none"]
  BY DEF Init
<1>2. \A f \in Path : FullWrites(f) = {} /\ Survivors(f) = {NoOp}
  <2>1. ASSUME NEW f \in Path PROVE FullWrites(f) = {} /\ Survivors(f) = {NoOp}
    <3>1. landed[f] = <<>> /\ DOMAIN landed[f] = {}
      BY <1>1
    <3>2. FullWrites(f) = {}
      BY <3>1 DEF FullWrites
    <3> QED
      BY <3>1, <3>2, SurvivorsSince DEF Since
  <2> QED
    BY <2>1
<1> QED
  BY <1>1, <1>2 DEF EditsKept, HasNewest, NoLostEdit

\* The queue, the bodies of the tools and what they did to the files.
FilesInv == QueueHolds /\ RestType /\ BodyInside /\ EditsKept

LEMMA FilesInit == ASSUME QueueAssumption, Init PROVE FilesInv
  BY QueueHoldsInit, BodyInsideInit, EditsKeptInit
  DEF QueueAssumption, Init, RestType, FilesInv

LEMMA FilesHold == ASSUME QueueAssumption, FilesInv PROVE FileExclusion /\ NoLostEdit
  BY OneKeyOneCall, OneBodyAtAFile DEF FilesInv, QueueHolds, EditsKept

LEMMA FilesStep ==
  ASSUME QueueAssumption, Undangling, Aborts = FALSE, FilesInv, [Next]_vars
  PROVE  FilesInv'
  BY QueueHoldsStep, RestTypeStep, BodyInsideStep, EditsKeptStep, FilesHold DEF FilesInv

\* Without dangling links and aborts, one file is mutated by one tool at a time, whatever
\* names the calls give it: what the queue's own comment promises, from the exclusion of
\* calls of a key (withFileMutationQueue).
THEOREM FilesAreSerialized ==
  ASSUME QueueAssumption, Undangling, Aborts = FALSE PROVE Spec => []FileExclusion
  BY FilesInit, FilesStep, FilesHold, PTL DEF Spec

\* Without dangling links and aborts no edit is lost: a file that nobody is writing holds
\* every edit since its last full write, each applied to what the one before left, however
\* the calls of the tools interleave and whatever fails (edit.ts and write.ts under
\* withFileMutationQueue).
THEOREM EditsAreKept ==
  ASSUME QueueAssumption, Undangling, Aborts = FALSE PROVE Spec => []NoLostEdit
  BY FilesInit, FilesStep, FilesHold, PTL DEF Spec

-----------------------------------------------------------------------------
(* The queue is a FIFO lock. *)

\* A pending call that awaits nothing pending is the first of its key's line.
LEMMA ReadyIsFirst ==
  ASSUME QueueAssumption, QueueInv, NEW o \in Pending, Resolved(currentQueue[o])
  PROVE  Lock!First(key[o], o)
<1> USE DEF QueueInv
<1>1. PICK i \in 1..Len(calls) : calls[i] = o
  BY DEF CallsListed, Pending
<1>2. DOMAIN calls = 1..Len(calls) /\ Len(calls) \in Nat /\ DOMAIN Arrivals = DOMAIN calls
  BY DEF QueueType, Arrivals
<1>3. \A j \in 1..Len(calls) : Arrivals[j].lock = key[calls[j]] /\ Arrivals[j].client = calls[j]
  BY <1>2 DEF Arrivals
<1>4. i \in Lock!Line(key[o])
  BY <1>1, <1>2, <1>3 DEF Lock!Line, Pending
<1>5. ASSUME NEW j \in Lock!Line(key[o]), j < i PROVE FALSE
  <2>1. j \in 1..Len(calls) /\ key[calls[j]] = key[o] /\ calls[j] \in Op /\ status[calls[j]] # "done"
    BY <1>2, <1>3 DEF Lock!Line, QueueType
  <2>2. calls[j] \in Pending
    BY <2>1 DEF CallsListed, QueueType, Pending
  <2>3. currentQueue[o] \in Pending
    BY <1>1, <1>5, <2>1, <2>2 DEF Chained
  <2> QED
    BY <2>3 DEF Resolved, Pending, QueueAssumption
<1>6. \A j \in Lock!Line(key[o]) : i <= j
  <2>1. \A j \in Lock!Line(key[o]) : j \in Nat
    BY <1>2 DEF Lock!Line
  <2> QED
    BY <1>5, <2>1
<1> QED
  BY <1>1, <1>3, <1>4, <1>6 DEF Lock!First

LEMMA FunctionIsSeq ==
  ASSUME NEW S, NEW n \in Nat, NEW f \in [1..n -> S] PROVE f \in Seq(S) /\ Len(f) = n
  OBVIOUS

\* The clients of the lock, read off the queue.
Left == {o \in Op : status[o] = "done"}
Holders == [k \in Path |-> {o \in Op : status[o] = "running" /\ key[o] = k}]

LEMMA CallJoins ==
  ASSUME QueueAssumption, QueueInv, job \in [Op -> Jobs], NEW o \in Op, Call(o)
  PROVE  \E k \in Path : Lock!Join(k, o)
<1> USE DEF QueueInv
<1> DEFINE k == MutationQueueKey(job[o].path)
           n == Len(calls)
<1>1. k \in Path
  BY KeyIsPath DEF Jobs
<1>2. /\ status[o] = "idle" /\ status' = [status EXCEPT ![o] = "waiting"]
      /\ key' = [key EXCEPT ![o] = k] /\ calls' = Append(calls, o)
  BY DEF Call
<1> HIDE DEF k
<1>3. /\ n \in Nat /\ DOMAIN calls = 1..n /\ DOMAIN calls' = 1..(n + 1) /\ calls'[n + 1] = o
      /\ \A i \in 1..n : calls'[i] = calls[i] /\ calls[i] \in Op /\ calls[i] # o
  BY <1>2, AppendProperties DEF QueueType, CallsListed
<1>4. \A i \in 1..n : key'[calls'[i]] = key[calls[i]]
  BY <1>2, <1>3 DEF QueueType
<1>5. key'[o] = k
  BY <1>2 DEF QueueType
<1> DEFINE x == [lock |-> k, client |-> o]
           S == [lock : Path, client : Op]
<1>6. Arrivals' = Append(Arrivals, x)
  <2>1. Arrivals = [i \in 1..n |-> [lock |-> key[calls[i]], client |-> calls[i]]]
    BY <1>3 DEF Arrivals
  <2>2. Arrivals \in [1..n -> S]
    BY <1>3, <2>1 DEF QueueType
  <2>3. Arrivals \in Seq(S) /\ Len(Arrivals) = n
    <3> HIDE DEF S, n
    <3> QED
      BY <1>3, <2>2, FunctionIsSeq
  <2>4. Arrivals' = [i \in 1..(n + 1) |-> [lock |-> key'[calls'[i]], client |-> calls'[i]]]
    BY <1>3 DEF Arrivals
  <2>5. /\ DOMAIN Append(Arrivals, x) = 1..(n + 1) /\ Append(Arrivals, x)[n + 1] = x
        /\ \A i \in 1..n : Append(Arrivals, x)[i] = Arrivals[i]
        /\ Append(Arrivals, x) = [i \in 1..(n + 1) |-> Append(Arrivals, x)[i]]
    BY <1>1, <1>3, <2>3, AppendProperties
  <2>6. \A i \in 1..(n + 1) : i = n + 1 \/ i \in 1..n
    BY <1>3
  <2>7. \A i \in 1..(n + 1) : [lock |-> key'[calls'[i]], client |-> calls'[i]] = Append(Arrivals, x)[i]
    BY <1>3, <1>4, <1>5, <2>1, <2>5, <2>6
  <2> QED
    BY <2>4, <2>5, <2>7
<1>7. Left' = Left
  BY <1>2 DEF Left, QueueType
<1>8. Holders' = Holders
  <2>1. \A p \in Op : status'[p] = "running" <=> status[p] = "running"
    BY <1>2 DEF QueueType
  <2>2. \A p \in Op : status[p] = "running" => key'[p] = key[p]
    BY <1>2 DEF QueueType
  <2> QED
    BY <2>1, <2>2 DEF Holders
<1>9. \A i \in DOMAIN Arrivals : Arrivals[i].client # o
  BY <1>3 DEF Arrivals
<1> QED
  BY <1>1, <1>6, <1>7, <1>8, <1>9 DEF Lock!Join, Left, Holders

LEMMA BeginEnters ==
  ASSUME QueueAssumption, QueueInv, KeyExclusion', NEW o \in Op, Begin(o)
  PROVE  \E k \in Path : Lock!Enter(k, o)
<1> USE DEF QueueInv
<1>1. /\ status[o] = "waiting" /\ Resolved(currentQueue[o])
      /\ status' = [status EXCEPT ![o] = "running"]
      /\ UNCHANGED <<key, calls>>
  BY DEF Begin
<1>2. Lock!First(key[o], o)
  BY <1>1, ReadyIsFirst DEF Pending
<1>3. key[o] \in Path /\ \A p \in Op : p # o => status'[p] = status[p]
  BY <1>1 DEF QueueType
<1>4. ASSUME NEW p \in Op, status[p] = "running", key[p] = key[o] PROVE FALSE
  <2>1. status'[p] = "running" /\ status'[o] = "running" /\ p # o
    BY <1>1, <1>3, <1>4 DEF QueueType
  <2> QED
    BY <1>1, <1>4, <2>1 DEF KeyExclusion
<1>5. Holders[key[o]] = {}
  BY <1>3, <1>4 DEF Holders
<1>6. Holders' = [Holders EXCEPT ![key[o]] = {o}]
  <2>1. \A k \in Path : Holders'[k] = IF k = key[o] THEN {o} ELSE Holders[k]
    BY <1>1, <1>3, <1>4 DEF Holders, QueueType
  <2> QED
    BY <2>1 DEF Holders
<1>7. Left' = Left
  BY <1>1 DEF Left, QueueType
<1>8. Arrivals' = Arrivals
  BY <1>1 DEF Arrivals
<1>9. PICK k \in Path : k = key[o]
  BY <1>3
<1> QED
  BY <1>2, <1>5, <1>6, <1>7, <1>8, <1>9 DEF Lock!Enter, Lock!First, Lock!Line, Left, Holders

LEMMA FinishLeaves ==
  ASSUME QueueAssumption, QueueInv, NEW o \in Op, Finish(o)
  PROVE  \E k \in Path : Lock!Leave(k, o)
<1> USE DEF QueueInv
<1>1. /\ status[o] = "running" /\ status' = [status EXCEPT ![o] = "done"]
      /\ UNCHANGED <<key, calls>>
  BY DEF Finish
<1>2. Lock!First(key[o], o)
  BY <1>1, ReadyIsFirst DEF Pending, PastAwait
<1>3. key[o] \in Path /\ \A p \in Op : p # o => status'[p] = status[p]
  BY <1>1 DEF QueueType
<1>4. \A p \in Op : status[p] = "running" /\ key[p] = key[o] => p = o
  BY <1>1, OneKeyOneCall DEF KeyExclusion
<1>5. Holders[key[o]] = {o}
  BY <1>1, <1>3, <1>4 DEF Holders
<1>6. Holders' = [Holders EXCEPT ![key[o]] = {}]
  <2>1. \A k \in Path : Holders'[k] = IF k = key[o] THEN {} ELSE Holders[k]
    BY <1>1, <1>3, <1>4 DEF Holders, QueueType
  <2> QED
    BY <2>1 DEF Holders
<1>7. Left' = Left \cup {o}
  BY <1>1 DEF Left, QueueType
<1>8. Arrivals' = Arrivals
  BY <1>1 DEF Arrivals
<1>9. PICK k \in Path : k = key[o]
  BY <1>3
<1> QED
  BY <1>2, <1>5, <1>6, <1>7, <1>8, <1>9 DEF Lock!Leave, Lock!First, Lock!Line, Left, Holders

LEMMA OneKeyNext == ASSUME QueueAssumption PROVE QueueInv' => KeyExclusion'
<1>1. QueueInv => KeyExclusion
  BY OneKeyOneCall
<1> QED
  BY <1>1, PTL

\* A step of the queue is a step of the lock, or none.
LEMMA QueueStepsLock ==
  ASSUME QueueAssumption, QueueHolds, QueueHolds', [Next]_vars
  PROVE  [Lock!Next]_<<Arrivals, Left, Holders>>
<1> USE DEF QueueHolds
<1>0. KeyExclusion'
  BY OneKeyNext
<1>1. ASSUME NEW o \in Op, Call(o) PROVE Lock!Next
  BY <1>1, CallJoins DEF Lock!Next
<1>2. ASSUME NEW o \in Op, Begin(o) PROVE Lock!Next
  BY <1>2, <1>0, BeginEnters DEF Lock!Next
<1>3. ASSUME NEW o \in Op, Finish(o) PROVE Lock!Next
  BY <1>3, FinishLeaves DEF Lock!Next
<1>4. CASE UNCHANGED queueVars
  BY <1>4 DEF queueVars, Arrivals, Left, Holders
<1>5. ASSUME NEW o \in Op, Body(o) PROVE UNCHANGED queueVars
  BY <1>5, BodyKeepsQueueVars
<1>6. Abort => UNCHANGED queueVars
  BY DEF Abort
<1>7. UNCHANGED vars => UNCHANGED queueVars
  BY DEF vars
<1> QED
  BY <1>1, <1>2, <1>3, <1>4, <1>5, <1>6, <1>7 DEF Next

\* withFileMutationQueue implements a FIFO lock for each key, for any calls, paths and
\* links, aborts and failures included: a call joins the line of its key where it is made,
\* enters when it is the first of it and nobody is inside, and leaves with its result.
THEOREM QueueIsFifoLock == ASSUME QueueAssumption PROVE Spec => ImplementsFifoLock
<1>1. Init => Lock!Init
  BY DEF Init, Lock!Init, Arrivals
<1>2. Spec => []QueueHolds
  BY QueueInvariant
<1> QED
  BY <1>1, <1>2, QueueStepsLock, PTL DEF Spec, ImplementsFifoLock, Lock!Spec, Left, Holders
===============================================================================
