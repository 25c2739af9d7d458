---------------------------- MODULE StreamsProofs ----------------------------
(***************************************************************************)
(* The event stream gives every event to one consumer, in order, for any   *)
(* number of consumers and events; and the parts that are checked beside   *)
(* it, with what is proved of each in its own module, put together.        *)
(*                                                                         *)
(* The argument for the stream: the queue always holds the newest events   *)
(* (QueueIsNewest), so whatever is handed out next, from the queue or      *)
(* directly to a waiting consumer, is the first event nobody has           *)
(* (HandedOut).  For the other parts: a step of the whole is a step of the *)
(* part at work (EditsStep and its like), so that the invariant proved of  *)
(* the part is one of the whole while that part is at work.                *)
(***************************************************************************)
EXTENDS MCStreams, Integers, TLAPS

\* The number of events handed out.
Taken == pushed - Len(queue)

\* Every consumer in line waits, and stands there once.
InLine ==
  /\ \A i \in 1..Len(waiting) : at[waiting[i]] = "waiting"
  /\ \A i, j \in 1..Len(waiting) : waiting[i] = waiting[j] => i = j

\* A promise holds an event only until its consumer runs.
GivenIsFresh == \A c \in Consumer : at[c] # "resumed" => given[c] = <<>>

QueueIsNewest ==
  /\ Taken \in Nat
  /\ \A i \in 1..Len(queue) : queue[i] = Taken + i

Got(c, n) == \E i \in 1..Len(got[c]) : got[c][i] = n
Holds(c, n) == Got(c, n) \/ given[c] = <<n>>

\* The events handed out are the first ones, each held by one consumer.
HandedOut ==
  /\ \A c \in Consumer, n \in Nat : Holds(c, n) => n \in 1..Taken
  /\ \A n \in 1..Taken : \E c \in Consumer : Holds(c, n)
  /\ \A c, d \in Consumer, n \in Nat : Holds(c, n) /\ Holds(d, n) => c = d

\* What a consumer holds is increasing.
Increasing ==
  \A c \in Consumer :
    /\ \A i, j \in 1..Len(got[c]) : i < j => got[c][i] < got[c][j]
    /\ \A n \in Nat : given[c] = <<n>> => \A i \in 1..Len(got[c]) : got[c][i] < n

\* Once the stream has completed on an event, nothing follows it.
Completed ==
  /\ result # <<>> => done
  /\ ResultIsLast

-----------------------------------------------------------------------------
LEMMA TypeInit == Init => TypeOK
<1> SUFFICES ASSUME Init PROVE TypeOK
  OBVIOUS
<1>1. <<>> \in Seq(Nat) /\ <<>> \in Seq(Consumer)
  OBVIOUS
<1> QED
  BY <1>1 DEF Init, TypeOK

\* The events a consumer may be given.
Given == {<<>>} \cup {<<n>> : n \in 1..pushed}

LEMMA GivenGrows ==
  ASSUME pushed \in Nat, pushed' = pushed \/ pushed' = pushed + 1
  PROVE  /\ Given \subseteq Given'
         /\ {<<>>} \cup {<<n>> : n \in 0..pushed} \subseteq {<<>>} \cup {<<n>> : n \in 0..pushed'}
<1>1. 1..pushed \subseteq 1..pushed' /\ 0..pushed \subseteq 0..pushed'
  OBVIOUS
<1> QED
  BY <1>1 DEF Given

LEMMA PushTyped ==
  ASSUME TypeOK, NEW final \in BOOLEAN, Push(final) PROVE TypeOK'
<1> USE DEF TypeOK
<1>1. pushed' = pushed + 1 /\ pushed' \in Nat /\ pushed' \in 1..pushed' /\ pushed' \in 0..pushed'
  BY DEF Push
<1>2. done' \in BOOLEAN
  BY DEF Push
<1>3. result' \in {<<>>} \cup {<<n>> : n \in 0..pushed'}
  <2>1. result' = result \/ result' = <<pushed + 1>>
    BY DEF Push, Resolve
  <2> QED
    BY <1>1, <2>1, GivenGrows
<1>4. /\ queue' \in Seq(Nat) /\ waiting' \in Seq(Consumer)
      /\ at' \in [Consumer -> {"consuming", "waiting", "resumed", "returned"}]
      /\ given' \in [Consumer -> Given']
  <2>1. CASE TakesDirectly
    <3>1. Head(waiting) \in Consumer /\ Tail(waiting) \in Seq(Consumer)
      BY <2>1 DEF TakesDirectly
    <3>2. given' = [given EXCEPT ![Head(waiting)] = <<pushed + 1>>]
      BY <2>1 DEF Push
    <3>3. <<pushed + 1>> \in Given' /\ given \in [Consumer -> Given']
      BY <1>1, GivenGrows DEF Given
    <3>4. given' \in [Consumer -> Given']
      BY <3>1, <3>2, <3>3
    <3> QED
      BY <2>1, <3>1, <3>4 DEF Push, StillWaiting
  <2>2. CASE ~TakesDirectly
    <3>1. given \in [Consumer -> Given']
      BY <1>1, GivenGrows DEF Given
    <3>2. queue' = Append(queue, pushed + 1) /\ UNCHANGED <<at, given, waiting>>
      BY <2>2 DEF Push, QueueWith
    <3>3. queue' \in Seq(Nat)
      BY <3>2
    <3> QED
      BY <3>1, <3>2, <3>3
  <2> QED
    BY <2>1, <2>2
<1>5. got' \in [Consumer -> Seq(Nat)]
  BY DEF Push
<1> QED
  BY <1>1, <1>2, <1>3, <1>4, <1>5 DEF Given

LEMMA EndTyped ==
  ASSUME TypeOK, NEW withResult \in BOOLEAN, End(withResult) PROVE TypeOK'
<1> USE DEF TypeOK
<1>1. result' \in {<<>>} \cup {<<n>> : n \in 0..pushed}
  <2>1. result' = result \/ result' = <<0>>
    BY DEF End, Resolve
  <2>2. 0 \in 0..pushed
    OBVIOUS
  <2> QED
    BY <2>1, <2>2
<1>2. at' \in [Consumer -> {"consuming", "waiting", "resumed", "returned"}]
  BY DEF End
<1>3. waiting' \in Seq(Consumer) /\ done' \in BOOLEAN
  BY DEF End
<1> QED
  BY <1>1, <1>2, <1>3 DEF End

\* What is appended to what a consumer has got.
LEMMA GotGivenTyped ==
  ASSUME TypeOK, NEW c \in Consumer PROVE got[c] \o given[c] \in Seq(Nat)
<1>1. got[c] \in Seq(Nat)
  BY DEF TypeOK
<1>2. given[c] \in Seq(Nat)
  <2>1. CASE given[c] = <<>>
    BY <2>1
  <2>2. CASE \E n \in Nat : given[c] = <<n>>
    BY <2>2
  <2>3. given[c] \in {<<>>} \cup {<<n>> : n \in 1..pushed} /\ 1..pushed \subseteq Nat
    BY DEF TypeOK
  <2> QED
    BY <2>1, <2>2, <2>3
<1> QED
  BY <1>1, <1>2

LEMMA AskTyped ==
  ASSUME TypeOK, NEW c \in Consumer, Ask(c) PROVE TypeOK'
<1> USE DEF TypeOK
<1>1. CASE Drains
  <2>1. Head(queue) \in Nat /\ Tail(queue) \in Seq(Nat)
    BY <1>1 DEF Drains
  <2>2. got' = [got EXCEPT ![c] = Append(@, Head(queue))]
    BY <1>1 DEF Ask
  <2>3. got' \in [Consumer -> Seq(Nat)]
    BY <2>1, <2>2
  <2> QED
    BY <1>1, <2>1, <2>3 DEF Ask
<1>2. CASE ~Drains /\ done
  BY <1>2 DEF Ask
<1>3. CASE ~Drains /\ ~done
  <2>1. Append(waiting, c) \in Seq(Consumer)
    OBVIOUS
  <2> QED
    BY <1>3, <2>1 DEF Ask
<1> QED
  BY <1>1, <1>2, <1>3

LEMMA ResumeTyped ==
  ASSUME TypeOK, NEW c \in Consumer, Resume(c) PROVE TypeOK'
<1>1. got' \in [Consumer -> Seq(Nat)]
  BY GotGivenTyped DEF TypeOK, Resume
<1>2. given' \in [Consumer -> Given]
  BY DEF TypeOK, Resume, Given
<1>3. at' \in [Consumer -> {"consuming", "waiting", "resumed", "returned"}]
  BY DEF TypeOK, Resume
<1> QED
  BY <1>1, <1>2, <1>3 DEF TypeOK, Resume, Given

LEMMA TypeNext == TypeOK /\ [Next]_vars => TypeOK'
<1> SUFFICES ASSUME TypeOK, [Next]_vars PROVE TypeOK'
  OBVIOUS
<1>1. ASSUME NEW final \in BOOLEAN, Push(final) PROVE TypeOK'
  BY <1>1, PushTyped
<1>2. ASSUME NEW withResult \in BOOLEAN, End(withResult) PROVE TypeOK'
  BY <1>2, EndTyped
<1>3. ASSUME NEW c \in Consumer, Ask(c) PROVE TypeOK'
  BY <1>3, AskTyped
<1>4. ASSUME NEW c \in Consumer, Resume(c) PROVE TypeOK'
  BY <1>4, ResumeTyped
<1>5. ASSUME NEW c \in Consumer, Leave(c) PROVE TypeOK'
  BY <1>5 DEF TypeOK, Leave
<1>6. CASE UNCHANGED vars
  BY <1>6 DEF TypeOK, vars
<1> QED
  BY <1>1, <1>2, <1>3, <1>4, <1>5, <1>6 DEF Next, Ends

\* The stream is well typed, whatever its consumers do (EventStream).
THEOREM TypeCorrect == Spec => []TypeOK
  BY TypeInit, TypeNext, PTL DEF Spec

-----------------------------------------------------------------------------
Inv == InLine /\ GivenIsFresh /\ QueueIsNewest /\ NobodyWaitsForQueued /\ Completed
       /\ HandedOut /\ Increasing

LEMMA InvInit == Init => Inv
<1> SUFFICES ASSUME Init PROVE Inv
  OBVIOUS
<1>1. pushed = 0 /\ Len(queue) = 0 /\ Len(waiting) = 0
  BY DEF Init
<1>2. Taken = 0
  BY <1>1 DEF Taken
<1>3. \A c \in Consumer : given[c] = <<>> /\ Len(got[c]) = 0
  BY DEF Init
<1>4. \A c \in Consumer, n \in Nat : ~Holds(c, n)
  BY <1>3 DEF Holds, Got
<1>5. InLine /\ GivenIsFresh /\ NobodyWaitsForQueued
  BY <1>1, <1>3 DEF Init, InLine, GivenIsFresh, NobodyWaitsForQueued
<1>6. QueueIsNewest
  BY <1>1, <1>2 DEF QueueIsNewest
<1>7. Completed
  BY DEF Init, Completed, ResultIsLast
<1>8. HandedOut
  BY <1>2, <1>4 DEF HandedOut
<1>9. Increasing
  BY <1>3 DEF Increasing
<1> QED
  BY <1>5, <1>6, <1>7, <1>8, <1>9 DEF Inv

\* When the next event goes to one consumer and nothing else changes hands,
\* the events handed out stay the first ones, each with one holder.
LEMMA Handing ==
  ASSUME HandedOut, Taken \in Nat, Taken' = Taken + 1, NEW w \in Consumer,
         \A c \in Consumer, n \in Nat :
           Holds(c, n)' <=> Holds(c, n) \/ (c = w /\ n = Taken + 1)
  PROVE  HandedOut'
<1>1. \A c \in Consumer, n \in Nat : Holds(c, n)' => n \in 1..(Taken + 1)
  BY DEF HandedOut
<1>2. \A n \in 1..(Taken + 1) : \E c \in Consumer : Holds(c, n)'
  BY DEF HandedOut
<1>3. \A c, d \in Consumer, n \in Nat : Holds(c, n)' /\ Holds(d, n)' => c = d
  BY DEF HandedOut
<1> QED
  BY <1>1, <1>2, <1>3 DEF HandedOut

\* Nothing changes hands.
LEMMA NothingHanded ==
  ASSUME HandedOut, Taken' = Taken,
         \A c \in Consumer, n \in Nat : Holds(c, n)' <=> Holds(c, n)
  PROVE  HandedOut'
<1>1. \A c \in Consumer, n \in Nat : Holds(c, n)' => n \in 1..Taken
  BY DEF HandedOut
<1>2. \A n \in 1..Taken : n \in Nat => \E c \in Consumer : Holds(c, n)'
  BY DEF HandedOut
<1>3. \A c, d \in Consumer, n \in Nat : Holds(c, n)' /\ Holds(d, n)' => c = d
  BY DEF HandedOut
<1>4. \A n \in 1..Taken : n \in Nat
  OBVIOUS
<1> QED
  BY <1>1, <1>2, <1>3, <1>4 DEF HandedOut

\* The oldest waiting consumer leaves the line.
LEMMA LineMoves ==
  ASSUME TypeOK, InLine, waiting # <<>>,
         waiting' = Tail(waiting), at' = [at EXCEPT ![Head(waiting)] = "resumed"]
  PROVE  InLine' /\ at[Head(waiting)] = "waiting" /\ Head(waiting) \in Consumer
<1>1. /\ Head(waiting) = waiting[1] /\ Head(waiting) \in Consumer /\ Len(waiting) \in Nat \ {0}
      /\ Len(waiting') = Len(waiting) - 1
      /\ \A i \in 1..Len(waiting') : waiting'[i] = waiting[i + 1] /\ waiting[i + 1] \in Consumer
  BY DEF TypeOK
<1>2. \A i \in 1..Len(waiting') : i + 1 \in 1..Len(waiting) /\ i + 1 # 1 /\ 1 \in 1..Len(waiting)
  BY <1>1
<1>3. \A i \in 1..Len(waiting') : waiting'[i] # Head(waiting) /\ at[waiting'[i]] = "waiting"
  BY <1>1, <1>2 DEF InLine
<1>4. \A i \in 1..Len(waiting') : at'[waiting'[i]] = "waiting"
  BY <1>1, <1>3 DEF TypeOK
<1>5. \A i, j \in 1..Len(waiting') : waiting'[i] = waiting'[j] => i = j
  BY <1>1, <1>2 DEF InLine
<1>6. at[Head(waiting)] = "waiting"
  BY <1>1 DEF InLine
<1> QED
  BY <1>1, <1>4, <1>5, <1>6 DEF InLine

\* push hands the event to the oldest waiting consumer, the queue being empty.
LEMMA PushDirect ==
  ASSUME TypeOK, Inv, NEW final \in BOOLEAN, Push(final), TakesDirectly
  PROVE  InLine' /\ GivenIsFresh' /\ QueueIsNewest' /\ NobodyWaitsForQueued'
         /\ HandedOut' /\ Increasing'
<1> DEFINE w == Head(waiting)
<1>1. waiting # <<>> /\ queue = <<>>
  BY DEF Inv, TakesDirectly, NobodyWaitsForQueued
<1>2. /\ at' = [at EXCEPT ![w] = "resumed"] /\ given' = [given EXCEPT ![w] = <<pushed + 1>>]
      /\ waiting' = Tail(waiting) /\ queue' = queue /\ got' = got /\ pushed' = pushed + 1
  BY DEF Push, StillWaiting
<1>3. InLine' /\ at[w] = "waiting" /\ w \in Consumer
  BY <1>1, <1>2, LineMoves DEF Inv
<1>4. Len(queue) = 0 /\ pushed \in Nat
  BY <1>1 DEF TypeOK
<1>5. Taken = pushed /\ Taken' = pushed + 1
  BY <1>2, <1>4 DEF Taken
<1>6. given[w] = <<>>
  BY <1>3 DEF Inv, GivenIsFresh
<1>7. \A c \in Consumer : /\ got'[c] = got[c]
                          /\ c # w => given'[c] = given[c] /\ at'[c] = at[c]
                          /\ c = w => given'[c] = <<Taken + 1>> /\ at'[c] = "resumed"
  BY <1>2, <1>3, <1>5 DEF TypeOK
<1> HIDE DEF w
<1>8. GivenIsFresh'
  BY <1>7 DEF Inv, GivenIsFresh
<1>9. QueueIsNewest' /\ NobodyWaitsForQueued'
  BY <1>1, <1>2, <1>4, <1>5 DEF QueueIsNewest, NobodyWaitsForQueued
<1>10. \A c \in Consumer, n \in Nat : Holds(c, n)' <=> Holds(c, n) \/ (c = w /\ n = Taken + 1)
  <2> SUFFICES ASSUME NEW c \in Consumer, NEW n \in Nat
               PROVE  Holds(c, n)' <=> Holds(c, n) \/ (c = w /\ n = Taken + 1)
    OBVIOUS
  <2>1. Got(c, n)' <=> Got(c, n)
    BY <1>7 DEF Got
  <2>2. CASE c = w
    <3>1. given'[c] = <<n>> <=> n = Taken + 1
      BY <1>7, <2>2
    <3>2. given[c] # <<n>>
      <4>1. <<>> # <<n>>
        OBVIOUS
      <4>2. given[c] = <<>>
        BY <1>6, <2>2
      <4> QED
        BY <4>1, <4>2
    <3>3. Holds(c, n)' <=> Got(c, n)' \/ given'[c] = <<n>>
      BY DEF Holds
    <3>4. Holds(c, n) <=> Got(c, n) \/ given[c] = <<n>>
      BY DEF Holds
    <3> QED
      BY <2>1, <2>2, <3>1, <3>2, <3>3, <3>4
  <2>3. CASE c # w
    BY <1>7, <2>1, <2>3 DEF Holds
  <2> QED
    BY <2>2, <2>3
<1>11. HandedOut'
  BY <1>3, <1>4, <1>5, <1>10, Handing DEF Inv
<1>12. Increasing'
  <2> SUFFICES ASSUME NEW c \in Consumer
               PROVE  /\ \A i, j \in 1..Len(got'[c]) : i < j => got'[c][i] < got'[c][j]
                      /\ \A n \in Nat : given'[c] = <<n>> => \A i \in 1..Len(got'[c]) : got'[c][i] < n
    BY DEF Increasing
  <2>1. \A i, j \in 1..Len(got'[c]) : i < j => got'[c][i] < got'[c][j]
    BY <1>7 DEF Inv, Increasing
  <2>2. CASE c # w
    BY <1>7, <2>1, <2>2 DEF Inv, Increasing
  <2>3. CASE c = w
    <3>1. \A n \in Nat : given'[c] = <<n>> => n = Taken + 1
      BY <1>7, <2>3
    <3>2. \A i \in 1..Len(got[c]) : got[c][i] \in Nat /\ Holds(c, got[c][i])
      BY DEF Holds, Got, TypeOK
    <3>3. \A i \in 1..Len(got[c]) : got[c][i] \in 1..Taken
      BY <3>2 DEF Inv, HandedOut
    <3>4. \A i \in 1..Len(got[c]) : got[c][i] < Taken + 1
      BY <3>3, <1>4, <1>5
    <3> QED
      BY <1>7, <2>1, <3>1, <3>4
  <2> QED
    BY <2>2, <2>3
<1> QED
  BY <1>3, <1>8, <1>9, <1>11, <1>12

\* Holders depend on given and got alone.
LEMMA SameHolders ==
  ASSUME given' = given, got' = got
  PROVE  /\ \A c \in Consumer, n \in Nat : Holds(c, n)' <=> Holds(c, n)
         /\ Increasing => Increasing'
<1>1. \A c \in Consumer, n \in Nat : Holds(c, n)' <=> Holds(c, n)
  BY DEF Holds, Got
<1>2. Increasing => Increasing'
  BY DEF Increasing
<1> QED
  BY <1>1, <1>2

\* push queues the event, nobody waiting.
LEMMA PushQueued ==
  ASSUME TypeOK, Inv, NEW final \in BOOLEAN, Push(final), ~TakesDirectly
  PROVE  InLine' /\ GivenIsFresh' /\ QueueIsNewest' /\ NobodyWaitsForQueued'
         /\ HandedOut' /\ Increasing'
<1>1. /\ queue' = Append(queue, pushed + 1) /\ UNCHANGED <<at, given, waiting, got>>
      /\ pushed' = pushed + 1 /\ waiting = <<>>
  BY DEF Push, TakesDirectly, QueueWith
<1>2. /\ Len(queue') = Len(queue) + 1 /\ Len(queue) \in Nat /\ pushed \in Nat
      /\ \A i \in 1..Len(queue) : queue'[i] = queue[i]
      /\ queue'[Len(queue) + 1] = pushed + 1
  BY <1>1 DEF TypeOK
<1>3. Taken' = Taken
  BY <1>1, <1>2 DEF Taken
<1>4. QueueIsNewest'
  BY <1>2, <1>3 DEF Inv, QueueIsNewest, Taken
<1>5. InLine' /\ GivenIsFresh' /\ NobodyWaitsForQueued'
  BY <1>1 DEF Inv, InLine, GivenIsFresh, NobodyWaitsForQueued
<1>6. HandedOut' /\ Increasing'
  BY <1>1, <1>3, SameHolders, NothingHanded DEF Inv
<1> QED
  BY <1>4, <1>5, <1>6

\* end empties the line and hands out nothing.
LEMMA EndKeeps ==
  ASSUME TypeOK, Inv, NEW withResult \in BOOLEAN, End(withResult)
  PROVE  InLine' /\ GivenIsFresh' /\ QueueIsNewest' /\ NobodyWaitsForQueued'
         /\ HandedOut' /\ Increasing'
<1>1. /\ waiting' = <<>> /\ UNCHANGED <<pushed, queue, given, got>>
      /\ \A c \in Consumer : at'[c] # "resumed" => at[c] # "resumed"
  BY DEF End
<1>2. Taken' = Taken /\ Len(waiting') = 0
  BY <1>1 DEF Taken
<1>3. InLine' /\ NobodyWaitsForQueued'
  BY <1>1, <1>2 DEF InLine, NobodyWaitsForQueued
<1>4. GivenIsFresh' /\ QueueIsNewest'
  BY <1>1, <1>2 DEF Inv, GivenIsFresh, QueueIsNewest
<1>5. HandedOut' /\ Increasing'
  BY <1>1, <1>2, SameHolders, NothingHanded DEF Inv
<1> QED
  BY <1>3, <1>4, <1>5

\* A consumer takes the oldest event of the queue.
LEMMA AskDrains ==
  ASSUME TypeOK, Inv, NEW c \in Consumer, Ask(c), Drains
  PROVE  InLine' /\ GivenIsFresh' /\ QueueIsNewest' /\ NobodyWaitsForQueued'
         /\ HandedOut' /\ Increasing'
<1> DEFINE e == Head(queue)
<1>1. /\ queue # <<>> /\ queue' = Tail(queue) /\ got' = [got EXCEPT ![c] = Append(@, e)]
      /\ UNCHANGED <<at, waiting, pushed, given>> /\ at[c] = "consuming"
  BY DEF Ask, Drains
<1>2. /\ Len(queue) \in Nat \ {0} /\ Len(queue') = Len(queue) - 1 /\ e = queue[1]
      /\ \A i \in 1..Len(queue') : queue'[i] = queue[i + 1]
      /\ pushed \in Nat
  BY <1>1 DEF TypeOK
<1>3. Taken' = Taken + 1 /\ Taken \in Nat
  BY <1>1, <1>2 DEF Taken, Inv, QueueIsNewest
<1>4. e = Taken + 1
  BY <1>2 DEF Inv, QueueIsNewest
<1>5. QueueIsNewest'
  <2>1. \A i \in 1..Len(queue') : i + 1 \in 1..Len(queue)
    BY <1>2
  <2> QED
    BY <1>2, <1>3, <2>1 DEF Inv, QueueIsNewest
<1>6. InLine' /\ GivenIsFresh' /\ NobodyWaitsForQueued'
  BY <1>1 DEF Inv, InLine, GivenIsFresh, NobodyWaitsForQueued
<1>7. \A d \in Consumer : d # c => got'[d] = got[d]
  BY <1>1 DEF TypeOK
<1>8. /\ Len(got'[c]) = Len(got[c]) + 1 /\ Len(got[c]) \in Nat
      /\ \A i \in 1..Len(got[c]) : got'[c][i] = got[c][i]
      /\ got'[c][Len(got[c]) + 1] = Taken + 1
  BY <1>1, <1>3, <1>4 DEF TypeOK
<1> HIDE DEF e
<1>9. \A d \in Consumer, n \in Nat : Holds(d, n)' <=> Holds(d, n) \/ (d = c /\ n = Taken + 1)
  <2> SUFFICES ASSUME NEW d \in Consumer, NEW n \in Nat
               PROVE  Holds(d, n)' <=> Holds(d, n) \/ (d = c /\ n = Taken + 1)
    OBVIOUS
  <2>1. Got(d, n)' <=> Got(d, n) \/ (d = c /\ n = Taken + 1)
    <3>1. CASE d = c
      <4>1. \A i \in 1..Len(got'[c]) : i \in 1..Len(got[c]) \/ i = Len(got[c]) + 1
        BY <1>8
      <4>2. Len(got[c]) + 1 \in 1..Len(got'[c]) /\ 1..Len(got[c]) \subseteq 1..Len(got'[c])
        BY <1>8
      <4>3. Got(c, n)' => Got(c, n) \/ n = Taken + 1
        BY <1>8, <4>1 DEF Got
      <4>4. Got(c, n) => Got(c, n)'
        BY <1>8, <4>2 DEF Got
      <4>5. n = Taken + 1 => Got(c, n)'
        BY <1>8, <4>2 DEF Got
      <4> QED
        BY <3>1, <4>3, <4>4, <4>5
    <3>2. CASE d # c
      BY <1>7, <3>2 DEF Got
    <3> QED
      BY <3>1, <3>2
  <2>2. given' = given
    BY <1>1
  <2> QED
    BY <2>1, <2>2 DEF Holds
<1>10. HandedOut'
  BY <1>3, <1>9, Handing DEF Inv
<1>11. given[c] = <<>>
  BY <1>1 DEF Inv, GivenIsFresh
<1>12. Increasing'
  <2> SUFFICES ASSUME NEW d \in Consumer
               PROVE  /\ \A i, j \in 1..Len(got'[d]) : i < j => got'[d][i] < got'[d][j]
                      /\ \A n \in Nat : given'[d] = <<n>> => \A i \in 1..Len(got'[d]) : got'[d][i] < n
    BY DEF Increasing
  <2>1. CASE d # c
    BY <1>1, <1>7, <2>1 DEF Inv, Increasing
  <2>2. CASE d = c
    <3>1. \A i \in 1..Len(got[c]) : got[c][i] \in Nat /\ Holds(c, got[c][i])
      BY DEF Holds, Got, TypeOK
    <3>2. \A i \in 1..Len(got[c]) : got[c][i] \in 1..Taken
      BY <3>1 DEF Inv, HandedOut
    <3>3. \A i \in 1..Len(got[c]) : got[c][i] < Taken + 1
      BY <3>2, <1>3
    <3>4. \A i, j \in 1..Len(got[c]) : i < j => got[c][i] < got[c][j]
      BY DEF Inv, Increasing
    <3>5. \A i, j \in 1..(Len(got[c]) + 1) : i < j => i \in 1..Len(got[c]) /\ (j \in 1..Len(got[c]) \/ j = Len(got[c]) + 1)
      BY <1>8
    <3>6. \A i, j \in 1..Len(got'[c]) : i < j => got'[c][i] < got'[c][j]
      BY <1>8, <3>3, <3>4, <3>5
    <3>7. \A n \in Nat : given'[c] # <<n>>
      <4>1. \A n \in Nat : <<>> # <<n>>
        OBVIOUS
      <4>2. given'[c] = <<>>
        BY <1>1, <1>11
      <4> QED
        BY <4>1, <4>2
    <3> QED
      BY <2>2, <3>6, <3>7
  <2> QED
    BY <2>1, <2>2
<1> QED
  BY <1>5, <1>6, <1>10, <1>12

\* A consumer that finds nothing queued returns or joins the line.
LEMMA AskWaits ==
  ASSUME TypeOK, Inv, NEW c \in Consumer, Ask(c), ~Drains
  PROVE  InLine' /\ GivenIsFresh' /\ QueueIsNewest' /\ NobodyWaitsForQueued'
         /\ HandedOut' /\ Increasing'
<1>1. /\ UNCHANGED <<got, queue, pushed, given>> /\ queue = <<>> /\ at[c] = "consuming"
      /\ \/ at' = [at EXCEPT ![c] = "returned"] /\ waiting' = waiting
         \/ at' = [at EXCEPT ![c] = "waiting"] /\ waiting' = Append(waiting, c)
  BY DEF Ask, Drains
<1>2. Taken' = Taken
  BY <1>1 DEF Taken
<1>3. \A i \in 1..Len(waiting) : waiting[i] # c
  BY <1>1 DEF Inv, InLine
<1>4. InLine'
  <2>0. Len(waiting) \in Nat /\ \A i \in 1..Len(waiting) : waiting[i] \in Consumer
    BY DEF TypeOK
  <2>1. CASE at' = [at EXCEPT ![c] = "returned"] /\ waiting' = waiting
    <3>1. \A i \in 1..Len(waiting) : at'[waiting[i]] = "waiting"
      BY <1>3, <2>0, <2>1 DEF TypeOK, Inv, InLine
    <3> QED
      BY <2>1, <3>1 DEF Inv, InLine
  <2>2. CASE at' = [at EXCEPT ![c] = "waiting"] /\ waiting' = Append(waiting, c)
    <3>1. /\ Len(waiting') = Len(waiting) + 1
          /\ \A i \in 1..Len(waiting) : waiting'[i] = waiting[i]
          /\ waiting'[Len(waiting) + 1] = c
      BY <2>2 DEF TypeOK
    <3>2. \A i \in 1..Len(waiting) : at'[waiting[i]] = "waiting"
      BY <1>3, <2>0, <2>2 DEF TypeOK, Inv, InLine
    <3>3. at'[c] = "waiting"
      BY <2>2 DEF TypeOK
    <3>4. \A i \in 1..Len(waiting') : at'[waiting'[i]] = "waiting"
      BY <2>0, <3>1, <3>2, <3>3
    <3>5. \A i, j \in 1..Len(waiting') : waiting'[i] = waiting'[j] => i = j
      BY <1>3, <2>0, <3>1 DEF Inv, InLine
    <3> QED
      BY <3>4, <3>5 DEF InLine
  <2> QED
    BY <1>1, <2>1, <2>2
<1>5. GivenIsFresh'
  BY <1>1 DEF Inv, GivenIsFresh, TypeOK
<1>6. QueueIsNewest' /\ NobodyWaitsForQueued'
  BY <1>1, <1>2 DEF Inv, QueueIsNewest, NobodyWaitsForQueued
<1>7. HandedOut' /\ Increasing'
  BY <1>1, <1>2, SameHolders, NothingHanded DEF Inv
<1> QED
  BY <1>4, <1>5, <1>6, <1>7

\* What a resumed consumer has got, if its promise held an event.
LEMMA GotOne ==
  ASSUME NEW s \in Seq(Nat), NEW n \in Nat
  PROVE  /\ Len(s \o <<n>>) = Len(s) + 1 /\ Len(s) \in Nat
         /\ \A i \in 1..Len(s) : (s \o <<n>>)[i] = s[i]
         /\ (s \o <<n>>)[Len(s) + 1] = n
  OBVIOUS

\* A resumed consumer goes on with the event its promise holds.
LEMMA ResumeGets ==
  ASSUME TypeOK, Inv, NEW c \in Consumer, Resume(c), NEW e \in Nat, given[c] = <<e>>
  PROVE  /\ \A d \in Consumer, n \in Nat : Holds(d, n)' <=> Holds(d, n)
         /\ Increasing'
<1>1. /\ got' = [got EXCEPT ![c] = got[c] \o <<e>>] /\ given' = [given EXCEPT ![c] = <<>>]
  BY DEF Resume
<1>2. /\ Len(got'[c]) = Len(got[c]) + 1 /\ Len(got[c]) \in Nat
      /\ \A i \in 1..Len(got[c]) : got'[c][i] = got[c][i]
      /\ got'[c][Len(got[c]) + 1] = e
  <2>1. got[c] \in Seq(Nat) /\ got'[c] = got[c] \o <<e>>
    BY <1>1 DEF TypeOK
  <2> QED
    BY <2>1, GotOne
<1>3. /\ given'[c] = <<>>
      /\ \A d \in Consumer : d # c => given'[d] = given[d] /\ got'[d] = got[d]
  BY <1>1 DEF TypeOK
<1>4. \A n \in Nat : <<>> # <<n>> /\ (<<e>> = <<n>> <=> n = e)
  OBVIOUS
<1>5. \A d \in Consumer, n \in Nat : Holds(d, n)' <=> Holds(d, n)
  <2> SUFFICES ASSUME NEW d \in Consumer, NEW n \in Nat PROVE Holds(d, n)' <=> Holds(d, n)
    OBVIOUS
  <2>1. CASE d # c
    BY <1>3, <2>1 DEF Holds, Got
  <2>2. CASE d = c
    <3>1. Got(c, n)' <=> Got(c, n) \/ n = e
      <4>1. \A i \in 1..Len(got'[c]) : i \in 1..Len(got[c]) \/ i = Len(got[c]) + 1
        BY <1>2
      <4>2. Got(c, n)' => Got(c, n) \/ n = e
        BY <1>2, <4>1 DEF Got
      <4>3. Got(c, n) => Got(c, n)'
        <5>1. 1..Len(got[c]) \subseteq 1..Len(got'[c])
          BY <1>2
        <5> QED
          BY <1>2, <5>1 DEF Got
      <4>4. Len(got[c]) + 1 \in 1..Len(got'[c])
        BY <1>2
      <4>5. n = e => Got(c, n)'
        BY <1>2, <4>4 DEF Got
      <4> QED
        BY <4>2, <4>3, <4>5
    <3>2. Holds(c, n) <=> Got(c, n) \/ n = e
      BY <1>4 DEF Holds
    <3>3. Holds(c, n)' <=> Got(c, n)'
      BY <1>3, <1>4 DEF Holds
    <3> QED
      BY <2>2, <3>1, <3>2, <3>3
  <2> QED
    BY <2>1, <2>2
<1>6. Increasing'
  <2> SUFFICES ASSUME NEW d \in Consumer
               PROVE  /\ \A i, j \in 1..Len(got'[d]) : i < j => got'[d][i] < got'[d][j]
                      /\ \A n \in Nat : given'[d] = <<n>> => \A i \in 1..Len(got'[d]) : got'[d][i] < n
    BY DEF Increasing
  <2>1. CASE d # c
    BY <1>3, <2>1 DEF Inv, Increasing
  <2>2. CASE d = c
    <3>1. \A i \in 1..Len(got[c]) : got[c][i] < e
      BY DEF Inv, Increasing
    <3>2. \A i, j \in 1..Len(got[c]) : i < j => got[c][i] < got[c][j]
      BY DEF Inv, Increasing
    <3>3. \A i, j \in 1..(Len(got[c]) + 1) : i < j => i \in 1..Len(got[c]) /\ (j \in 1..Len(got[c]) \/ j = Len(got[c]) + 1)
      BY <1>2
    <3>4. \A i, j \in 1..Len(got'[c]) : i < j => got'[c][i] < got'[c][j]
      BY <1>2, <3>1, <3>2, <3>3
    <3>5. \A n \in Nat : given'[c] # <<n>>
      BY <1>3, <1>4
    <3> QED
      BY <2>2, <3>4, <3>5
  <2> QED
    BY <2>1, <2>2
<1> QED
  BY <1>5, <1>6

LEMMA ResumeKeeps ==
  ASSUME TypeOK, Inv, NEW c \in Consumer, Resume(c)
  PROVE  InLine' /\ GivenIsFresh' /\ QueueIsNewest' /\ NobodyWaitsForQueued'
         /\ HandedOut' /\ Increasing'
<1>1. /\ UNCHANGED <<pushed, queue, waiting>> /\ at[c] = "resumed" /\ c \in Consumer
      /\ \A d \in Consumer : d # c => at'[d] = at[d] /\ given'[d] = given[d]
      /\ given'[c] = <<>>
  BY DEF Resume, TypeOK
<1>2. Taken' = Taken
  BY <1>1 DEF Taken
<1>3. InLine'
  <2>1. \A i \in 1..Len(waiting) : waiting[i] \in Consumer /\ at[waiting[i]] = "waiting"
    BY DEF TypeOK, Inv, InLine
  <2>2. \A i \in 1..Len(waiting) : waiting[i] # c
    BY <1>1, <2>1
  <2>3. \A i \in 1..Len(waiting) : at'[waiting[i]] = "waiting"
    BY <1>1, <2>1, <2>2
  <2> QED
    BY <1>1, <2>3 DEF Inv, InLine
<1>4. GivenIsFresh'
  BY <1>1 DEF Inv, GivenIsFresh
<1>5. QueueIsNewest' /\ NobodyWaitsForQueued'
  BY <1>1, <1>2 DEF Inv, QueueIsNewest, NobodyWaitsForQueued
<1>6. (\A d \in Consumer, n \in Nat : Holds(d, n)' <=> Holds(d, n)) /\ Increasing'
  <2>1. CASE given[c] = <<>>
    <3>1. given' = given /\ got' = got
      <4>1. got[c] \in Seq(Nat) /\ got[c] \o <<>> = got[c]
        BY DEF TypeOK
      <4>2. got' = [got EXCEPT ![c] = got[c] \o <<>>] /\ given' = [given EXCEPT ![c] = given[c]]
        BY <2>1 DEF Resume
      <4>3. got' = got
        BY <4>1, <4>2 DEF TypeOK
      <4>4. given' = given
        BY <4>2 DEF TypeOK
      <4> QED
        BY <4>3, <4>4
    <3> QED
      BY <3>1, SameHolders DEF Inv
  <2>2. CASE given[c] # <<>>
    <3>1. given[c] \in {<<>>} \cup {<<n>> : n \in 1..pushed} /\ 1..pushed \subseteq Nat
      BY DEF TypeOK
    <3>2. PICK e \in Nat : given[c] = <<e>>
      BY <2>2, <3>1
    <3> QED
      BY <3>2, ResumeGets
  <2> QED
    BY <2>1, <2>2
<1>7. HandedOut'
  BY <1>2, <1>6, NothingHanded DEF Inv
<1> QED
  BY <1>3, <1>4, <1>5, <1>6, <1>7

LEMMA LeaveKeeps ==
  ASSUME TypeOK, Inv, NEW c \in Consumer, Leave(c)
  PROVE  InLine' /\ GivenIsFresh' /\ QueueIsNewest' /\ NobodyWaitsForQueued'
         /\ HandedOut' /\ Increasing'
<1>1. /\ UNCHANGED <<pushed, queue, waiting, given, got>> /\ at[c] = "consuming"
      /\ \A d \in Consumer : d # c => at'[d] = at[d]
  BY DEF Leave, TypeOK
<1>2. Taken' = Taken
  BY <1>1 DEF Taken
<1>3. InLine'
  <2>1. \A i \in 1..Len(waiting) : waiting[i] \in Consumer /\ at[waiting[i]] = "waiting"
    BY DEF TypeOK, Inv, InLine
  <2>2. \A i \in 1..Len(waiting) : at'[waiting[i]] = "waiting"
    BY <1>1, <2>1
  <2> QED
    BY <1>1, <2>2 DEF Inv, InLine
<1>4. GivenIsFresh'
  BY <1>1 DEF Inv, GivenIsFresh
<1>5. QueueIsNewest' /\ NobodyWaitsForQueued'
  BY <1>1, <1>2 DEF Inv, QueueIsNewest, NobodyWaitsForQueued
<1>6. HandedOut' /\ Increasing'
  BY <1>1, <1>2, SameHolders, NothingHanded DEF Inv
<1> QED
  BY <1>3, <1>4, <1>5, <1>6

\* Once done, no event is accepted, and the first resolution stands.
LEMMA CompletedNext ==
  ASSUME TypeOK, Completed, [Next]_vars PROVE Completed'
<1> DEFINE Same == UNCHANGED <<result, done, pushed>>
<1>1. ASSUME NEW final \in BOOLEAN, Push(final) PROVE Completed'
  <2>1. ~done /\ pushed' = pushed + 1 /\ done' = (done \/ final)
    BY <1>1 DEF Push, Accepts
  <2>2. result = <<>>
    BY <2>1 DEF Completed
  <2>3. CASE final
    <3>1. result' = <<pushed'>> /\ done'
      BY <1>1, <2>1, <2>2, <2>3 DEF Push, Resolve
    <3> QED
      BY <3>1 DEF Completed, ResultIsLast
  <2>4. CASE ~final
    <3>1. result' = <<>>
      BY <1>1, <2>2, <2>4 DEF Push
    <3> QED
      BY <3>1 DEF Completed, ResultIsLast
  <2> QED
    BY <2>3, <2>4
<1>2. ASSUME NEW withResult \in BOOLEAN, End(withResult) PROVE Completed'
  <2>1. done' /\ pushed' = pushed /\ (result' = result \/ result' = <<0>>)
    BY <1>2 DEF End, Resolve
  <2> QED
    BY <2>1 DEF Completed, ResultIsLast
<1>3. Same => Completed'
  BY DEF Completed, ResultIsLast
<1>4. ASSUME NEW c \in Consumer, Ask(c) \/ Resume(c) \/ Leave(c) PROVE Same
  BY <1>4 DEF Ask, Resume, Leave
<1>5. CASE UNCHANGED vars
  BY <1>3, <1>5 DEF vars
<1> QED
  BY <1>1, <1>2, <1>3, <1>4, <1>5 DEF Next, Ends

LEMMA InvNext == TypeOK /\ Inv /\ [Next]_vars => Inv'
<1> SUFFICES ASSUME TypeOK, Inv, [Next]_vars PROVE Inv'
  OBVIOUS
<1>0. Completed'
  BY CompletedNext DEF Inv
<1>1. ASSUME NEW final \in BOOLEAN, Push(final) PROVE Inv'
  BY <1>0, <1>1, PushDirect, PushQueued DEF Inv
<1>2. ASSUME NEW withResult \in BOOLEAN, End(withResult) PROVE Inv'
  BY <1>0, <1>2, EndKeeps DEF Inv
<1>3. ASSUME NEW c \in Consumer, Ask(c) PROVE Inv'
  BY <1>0, <1>3, AskDrains, AskWaits DEF Inv
<1>4. ASSUME NEW c \in Consumer, Resume(c) PROVE Inv'
  BY <1>0, <1>4, ResumeKeeps DEF Inv
<1>5. ASSUME NEW c \in Consumer, Leave(c) PROVE Inv'
  BY <1>0, <1>5, LeaveKeeps DEF Inv
<1>6. CASE UNCHANGED vars
  <2>1. UNCHANGED <<pushed, queue, waiting, at, given, got>> /\ Taken' = Taken
    BY <1>6 DEF vars, Taken
  <2>2. InLine' /\ GivenIsFresh' /\ QueueIsNewest' /\ NobodyWaitsForQueued'
    BY <2>1 DEF Inv, InLine, GivenIsFresh, QueueIsNewest, NobodyWaitsForQueued
  <2>3. HandedOut' /\ Increasing'
    BY <2>1, SameHolders, NothingHanded DEF Inv
  <2> QED
    BY <1>0, <2>2, <2>3 DEF Inv
<1> QED
  BY <1>1, <1>2, <1>3, <1>4, <1>5, <1>6 DEF Next, Ends

\* The inductive invariant holds throughout.
THEOREM StreamInvariant == Spec => [](TypeOK /\ Inv)
<1>1. Init => TypeOK /\ Inv
  BY TypeInit, InvInit
<1>2. TypeOK /\ Inv /\ [Next]_vars => (TypeOK /\ Inv)'
  BY TypeNext, InvNext
<1> QED
  BY <1>1, <1>2, PTL DEF Spec

-----------------------------------------------------------------------------
\* The elements of a sequence, by position.
LEMMA Elements ==
  ASSUME NEW s \in Seq(Nat), NEW n
  PROVE  n \in ToSet(s) <=> \E i \in 1..Len(s) : s[i] = n
  BY DEF ToSet

\* No event is lost or given twice, for any number of consumers (push and the
\* iterator of EventStream).
THEOREM EventsGivenOnce == Spec => []EachEventOnce
<1>1. ASSUME TypeOK, Inv PROVE EachEventOnce
  <2>1. \A c \in Consumer, n \in Nat : Has(c, n) <=> Holds(c, n)
    BY <1>1, Elements DEF Has, Holds, Got, TypeOK
  <2>2. Taken \in Nat /\ Len(queue) \in Nat /\ pushed = Taken + Len(queue)
        /\ queue \in Seq(Nat)
    BY <1>1 DEF Inv, QueueIsNewest, Taken, TypeOK
  <2>3. ASSUME NEW n \in Nat PROVE Queued(n) <=> n \in (Taken + 1)..pushed
    <3>1. Queued(n) <=> \E i \in 1..Len(queue) : Taken + i = n
      BY <1>1, <2>2, Elements DEF Queued, Inv, QueueIsNewest
    <3>2. n \in (Taken + 1)..pushed => n - Taken \in 1..Len(queue) /\ Taken + (n - Taken) = n
      BY <2>2
    <3>3. \A i \in 1..Len(queue) : Taken + i \in (Taken + 1)..pushed
      BY <2>2
    <3> QED
      BY <3>1, <3>2, <3>3
  <2>4. ASSUME NEW n \in 1..pushed
        PROVE  /\ Queued(n) \/ \E c \in Consumer : Has(c, n)
               /\ \A c \in Consumer : Has(c, n) => ~Queued(n) /\ \A d \in Consumer : Has(d, n) => c = d
    <3>1. n \in Nat /\ (n \in 1..Taken <=> n \notin (Taken + 1)..pushed)
      BY <2>2
    <3>2. n \in 1..Taken => \E c \in Consumer : Has(c, n)
      BY <1>1, <2>1, <3>1 DEF Inv, HandedOut
    <3>3. \A c \in Consumer : Has(c, n) => n \in 1..Taken
      BY <1>1, <2>1, <3>1 DEF Inv, HandedOut
    <3>4. \A c, d \in Consumer : Has(c, n) /\ Has(d, n) => c = d
      BY <1>1, <2>1, <3>1 DEF Inv, HandedOut
    <3>5. Queued(n) <=> n \in (Taken + 1)..pushed
      BY <2>3, <3>1
    <3> QED
      BY <3>1, <3>2, <3>3, <3>4, <3>5
  <2> QED
    BY <2>4 DEF EachEventOnce
<1> QED
  BY <1>1, StreamInvariant, PTL

\* Each consumer gets its events in the order they were pushed (EventStream).
THEOREM EventsGivenInOrder == Spec => []InOrder
<1>1. ASSUME TypeOK, Inv PROVE InOrder
  <2> SUFFICES ASSUME NEW c \in Consumer
               PROVE  \A i, j \in DOMAIN (got[c] \o given[c]) :
                        i < j => (got[c] \o given[c])[i] < (got[c] \o given[c])[j]
    BY DEF InOrder
  <2>1. got[c] \in Seq(Nat) /\ Len(got[c]) \in Nat
    BY <1>1 DEF TypeOK
  <2>2. \A i, j \in 1..Len(got[c]) : i < j => got[c][i] < got[c][j]
    BY <1>1 DEF Inv, Increasing
  <2>3. CASE given[c] = <<>>
    <3>1. got[c] \o <<>> = got[c] /\ DOMAIN got[c] = 1..Len(got[c])
      BY <2>1
    <3> QED
      BY <2>2, <2>3, <3>1
  <2>4. CASE given[c] # <<>>
    <3>1. given[c] \in {<<>>} \cup {<<n>> : n \in 1..pushed} /\ 1..pushed \subseteq Nat
      BY <1>1 DEF TypeOK
    <3>2. PICK e \in Nat : given[c] = <<e>>
      BY <2>4, <3>1
    <3> DEFINE all == got[c] \o <<e>>
    <3>3. /\ Len(all) = Len(got[c]) + 1
          /\ \A i \in 1..Len(got[c]) : all[i] = got[c][i]
          /\ all[Len(got[c]) + 1] = e
      BY <2>1, GotOne
    <3>4. DOMAIN all = 1..Len(all)
      BY <2>1
    <3>5. \A i \in 1..Len(got[c]) : got[c][i] < e
      BY <1>1, <3>2 DEF Inv, Increasing
    <3>6. \A i, j \in 1..(Len(got[c]) + 1) : i < j => i \in 1..Len(got[c]) /\ (j \in 1..Len(got[c]) \/ j = Len(got[c]) + 1)
      BY <2>1
    <3> HIDE DEF all
    <3>7. \A i, j \in DOMAIN all : i < j => all[i] < all[j]
      BY <2>2, <3>3, <3>4, <3>5, <3>6
    <3> QED
      BY <3>2, <3>7 DEF all
  <2> QED
    BY <2>3, <2>4
<1> QED
  BY <1>1, StreamInvariant, PTL

\* Both together: events reach the consumers as they were pushed (push, the
\* iterator).
THEOREM EventsAreDelivered == Spec => []DeliveredOnceInOrder
<1>1. EachEventOnce /\ InOrder => DeliveredOnceInOrder
  BY DEF DeliveredOnceInOrder
<1> QED
  BY <1>1, EventsGivenOnce, EventsGivenInOrder, PTL

\* No consumer waits while an event is queued (push).
THEOREM QueueOrLine == Spec => []NobodyWaitsForQueued
<1>1. Inv => NobodyWaitsForQueued
  BY DEF Inv
<1> QED
  BY <1>1, StreamInvariant, PTL

\* The result of a stream is that of its last event, or what end was given
\* (push, end).
THEOREM LastEventIsResult == Spec => []ResultIsLast
<1>1. Inv => ResultIsLast
  BY DEF Inv, Completed
<1> QED
  BY <1>1, StreamInvariant, PTL

-----------------------------------------------------------------------------
\* The stream's part of the whole.
LEMMA StreamStep == [StreamsNext]_streamsVars => [Next]_vars
  BY DEF StreamsNext, StreamMoves, EditsMove, AnswerMoves, RequestMoves,
      SocketsMove, InStream, InEdits, InAnswers, InRequests, InSockets, streamsVars

\* Whatever part is at work, the stream does what the stream may do, so that all
\* that is proved of it above holds of the whole (EventStream).
THEOREM StreamsAreStream == StreamsSpec => Spec
<1>1. StreamsInit => Init
  BY DEF StreamsInit
<1> QED
  BY <1>1, StreamStep, PTL DEF StreamsSpec, Spec

\* Together with the others too, events reach the consumers as they were pushed
\* (push, the iterator).
THEOREM StreamsDeliver == StreamsSpec => []DeliveredOnceInOrder
  BY StreamsAreStream, EventsAreDelivered, PTL

-----------------------------------------------------------------------------
\* The file mutation queue: edits of a file that exists, under two names.
EditsProofs == INSTANCE FileMutationQueueProofs WITH
  Tools <- {"edit", "write"}, RealOf <- [p \in Path |-> target], Existing <- {target},
  Aborts <- FALSE, result <- outcome

\* The instance that is checked and the one that is proved about are the same.
LEMMA EditsSame ==
  /\ Edits!Init <=> EditsProofs!Init
  /\ Edits!Next <=> EditsProofs!Next
  /\ Edits!vars = EditsProofs!vars
<1>1. Edits!Init <=> EditsProofs!Init
  BY DEF Edits!Init, EditsProofs!Init, Edits!Jobs, EditsProofs!Jobs
<1>2. ASSUME NEW o PROVE Edits!Call(o) <=> EditsProofs!Call(o)
  BY DEF Edits!Call, EditsProofs!Call, Edits!MutationQueueKey,
      EditsProofs!MutationQueueKey, Edits!diskVars, EditsProofs!diskVars
<1>3. ASSUME NEW o PROVE Edits!Begin(o) <=> EditsProofs!Begin(o)
  BY DEF Edits!Begin, EditsProofs!Begin, Edits!Resolved, EditsProofs!Resolved,
      Edits!diskVars, EditsProofs!diskVars
<1>4. ASSUME NEW o PROVE Edits!Finish(o) <=> EditsProofs!Finish(o)
  BY DEF Edits!Finish, EditsProofs!Finish, Edits!QueueAfter, EditsProofs!QueueAfter,
      Edits!diskVars, EditsProofs!diskVars
<1>5. ASSUME NEW o PROVE Edits!Body(o) <=> EditsProofs!Body(o)
  BY DEF Edits!Body, EditsProofs!Body, Edits!Mkdir, EditsProofs!Mkdir, Edits!Access,
      EditsProofs!Access, Edits!Read, EditsProofs!Read, Edits!Fail,
      EditsProofs!Fail, Edits!Truncate, EditsProofs!Truncate, Edits!Land,
      EditsProofs!Land, Edits!Proceed, EditsProofs!Proceed, Edits!File,
      EditsProofs!File, Edits!queueVars, EditsProofs!queueVars, Edits!diskVars,
      EditsProofs!diskVars
<1>6. Edits!Abort <=> EditsProofs!Abort
  BY DEF Edits!Abort, EditsProofs!Abort
<1> QED
  BY <1>1, <1>2, <1>3, <1>4, <1>5, <1>6
  DEF Edits!Next, EditsProofs!Next, Edits!vars, EditsProofs!vars, Edits!queueVars,
      EditsProofs!queueVars, Edits!diskVars, EditsProofs!diskVars

LEMMA EditsHold ==
 /\ Edits!FileExclusion <=> EditsProofs!FileExclusion
 /\ Edits!NoLostEdit <=> EditsProofs!NoLostEdit
<1>1.  Edits!FileExclusion <=> EditsProofs!FileExclusion
  BY DEF Edits!FileExclusion, EditsProofs!FileExclusion, Edits!Busy,
      EditsProofs!Busy, Edits!File, EditsProofs!File
<1>2. \A f :  Edits!Survivors(f) = EditsProofs!Survivors(f)
  BY DEF Edits!Survivors, EditsProofs!Survivors
<1>3. Edits!NoLostEdit <=> EditsProofs!NoLostEdit
  BY <1>2 DEF Edits!NoLostEdit, EditsProofs!NoLostEdit, Edits!File, EditsProofs!File
<1> QED
  BY <1>1, <1>3

\* One part is at work, from first to last.
LEMMA PartStays == ASSUME [StreamsNext]_streamsVars PROVE part' = part
  BY DEF StreamsNext, StreamMoves, EditsMove, AnswerMoves, RequestMoves,
      SocketsMove, InStream, InEdits, InAnswers, InRequests, InSockets, streamsVars

LEMMA EditsAssumed ==
  EditsProofs!QueueAssumption /\ EditsProofs!Undangling
  BY Assumptions
  DEF Edits!QueueAssumption, EditsProofs!QueueAssumption, EditsProofs!Undangling,
      Path

LEMMA EditsStep ==
  ASSUME [StreamsNext]_streamsVars, part = "edits" PROVE [EditsProofs!Next]_(EditsProofs!vars)
<1>1. CASE UNCHANGED streamsVars
  BY <1>1
  DEF streamsVars, editVars, sharedVars, EditsProofs!vars, EditsProofs!queueVars,
      EditsProofs!diskVars
<1>2. CASE StreamsNext
  BY <1>2, EditsSame
  DEF StreamsNext, StreamMoves, EditsMove, AnswerMoves, RequestMoves, SocketsMove,
      InStream, InEdits, InAnswers, InRequests, InSockets
<1> QED
  BY <1>1, <1>2

EditsInv == part = "edits" => EditsProofs!FilesInv
LEMMA EditsInit == StreamsInit => EditsInv
  BY EditsSame, EditsAssumed, EditsProofs!FilesInit DEF StreamsInit, EditsInv
LEMMA EditsInvStep == EditsInv /\ [StreamsNext]_streamsVars => EditsInv'
<1> SUFFICES ASSUME EditsInv, [StreamsNext]_streamsVars, part' = "edits" PROVE EditsProofs!FilesInv'
  BY DEF EditsInv
<1>1. part = "edits"
  BY PartStays
<1>2. EditsProofs!FilesInv /\ [EditsProofs!Next]_(EditsProofs!vars)
  BY <1>1, EditsStep DEF EditsInv
<1> QED
  BY <1>2, EditsAssumed, EditsProofs!FilesStep

\* One file is mutated by one tool at a time, under any of its names
\* (withFileMutationQueue).
THEOREM FileExclusionTheorem == StreamsSpec => []FileExclusion
<1>1. EditsInv => FileExclusion
  BY EditsHold, EditsAssumed, EditsProofs!FilesHold DEF EditsInv, FileExclusion
<1> QED
  BY <1>1, EditsInit, EditsInvStep, PTL DEF StreamsSpec

\* No edit is lost (withFileMutationQueue, edit, write).
THEOREM NoLostEditTheorem == StreamsSpec => []NoLostEdit
<1>1. EditsInv => NoLostEdit
  BY EditsHold, EditsAssumed, EditsProofs!FilesHold DEF EditsInv, NoLostEdit
<1> QED
  BY <1>1, EditsInit, EditsInvStep, PTL DEF StreamsSpec

-----------------------------------------------------------------------------
\* The same queue, for writes that create the file and may be aborted.
WritesProofs == INSTANCE FileMutationQueueProofs WITH
  Op <- {o1, o2}, Tools <- {"write"}, RealOf <- [p \in Path |-> target], Existing <- {},
  Aborts <- TRUE, result <- outcome

LEMMA WritesSame ==
  /\ Writes!Init <=> WritesProofs!Init
  /\ Writes!Next <=> WritesProofs!Next
<1>1. Writes!Init <=> WritesProofs!Init
  BY DEF Writes!Init, WritesProofs!Init, Writes!Jobs, WritesProofs!Jobs
<1>2. ASSUME NEW o PROVE Writes!Call(o) <=> WritesProofs!Call(o)
  BY DEF Writes!Call, WritesProofs!Call, Writes!MutationQueueKey,
      WritesProofs!MutationQueueKey, Writes!diskVars, WritesProofs!diskVars
<1>3. ASSUME NEW o PROVE Writes!Begin(o) <=> WritesProofs!Begin(o)
  BY DEF Writes!Begin, WritesProofs!Begin, Writes!Resolved, WritesProofs!Resolved,
      Writes!diskVars, WritesProofs!diskVars
<1>4. ASSUME NEW o PROVE Writes!Finish(o) <=> WritesProofs!Finish(o)
  BY DEF Writes!Finish, WritesProofs!Finish, Writes!QueueAfter,
      WritesProofs!QueueAfter, Writes!diskVars, WritesProofs!diskVars
<1>5. ASSUME NEW o PROVE Writes!Body(o) <=> WritesProofs!Body(o)
  BY DEF Writes!Body, WritesProofs!Body, Writes!Mkdir, WritesProofs!Mkdir,
      Writes!Access, WritesProofs!Access, Writes!Read, WritesProofs!Read,
      Writes!Fail, WritesProofs!Fail, Writes!Truncate, WritesProofs!Truncate,
      Writes!Land, WritesProofs!Land, Writes!Proceed, WritesProofs!Proceed,
      Writes!File, WritesProofs!File, Writes!queueVars, WritesProofs!queueVars,
      Writes!diskVars, WritesProofs!diskVars
<1>6. Writes!Abort <=> WritesProofs!Abort
  BY DEF Writes!Abort, WritesProofs!Abort, Writes!Pending, WritesProofs!Pending,
      Writes!Busy, WritesProofs!Busy, Writes!queueVars, WritesProofs!queueVars,
      Writes!diskVars, WritesProofs!diskVars
<1> QED
  BY <1>1, <1>2, <1>3, <1>4, <1>5, <1>6 DEF Writes!Next, WritesProofs!Next

LEMMA WritesAssumed == WritesProofs!QueueAssumption
  BY Assumptions DEF Writes!QueueAssumption, WritesProofs!QueueAssumption

LEMMA WritesStep ==
  ASSUME [StreamsNext]_streamsVars, part = "writes" PROVE [WritesProofs!Next]_(WritesProofs!vars)
<1>1. CASE UNCHANGED streamsVars
  BY <1>1
  DEF streamsVars, editVars, sharedVars, WritesProofs!vars, WritesProofs!queueVars,
      WritesProofs!diskVars
<1>2. CASE StreamsNext
  BY <1>2, WritesSame
  DEF StreamsNext, StreamMoves, EditsMove, AnswerMoves, RequestMoves, SocketsMove,
      InStream, InEdits, InAnswers, InRequests, InSockets
<1> QED
  BY <1>1, <1>2

QueuesInv ==
  /\ part = "edits" => EditsProofs!QueueHolds
  /\ part = "writes" => WritesProofs!QueueHolds
LEMMA QueuesInit == StreamsInit => QueuesInv
  BY EditsSame, EditsAssumed, EditsProofs!QueueHoldsInit, WritesSame, WritesAssumed,
     WritesProofs!QueueHoldsInit
  DEF StreamsInit, QueuesInv
LEMMA QueuesInvStep == QueuesInv /\ [StreamsNext]_streamsVars => QueuesInv'
<1> SUFFICES ASSUME QueuesInv, [StreamsNext]_streamsVars PROVE QueuesInv'
  OBVIOUS
<1>1. part' = part
  BY PartStays
<1>2. CASE part = "edits"
  BY <1>1, <1>2, EditsStep, EditsAssumed, EditsProofs!QueueHoldsStep DEF QueuesInv
<1>3. CASE part = "writes"
  BY <1>1, <1>3, WritesStep, WritesAssumed, WritesProofs!QueueHoldsStep
  DEF QueuesInv
<1> QED
  BY <1>1, <1>2, <1>3 DEF QueuesInv

\* The lock's three variables, as MCStreams maps them.
TheArrivals == IF Editing THEN Edits!Arrivals ELSE <<>>
TheLeft == {o \in Calls : status[o] = "done"}
TheHolders == [k \in Path |-> {o \in Calls : status[o] = "running" /\ key[o] = k}]
theLock == <<TheArrivals, TheLeft, TheHolders>>

LEMMA LockInit == StreamsInit => Lock!Init
<1> SUFFICES ASSUME StreamsInit PROVE Lock!Init
  OBVIOUS
<1>1. CASE ~Editing
  BY <1>1 DEF Lock!Init, Editing, Calls
<1>2. CASE Editing
  <2>1. status = [o \in Calls |-> "idle"] /\ calls = <<>>
    BY <1>2 DEF StreamsInit, Editing, Calls, Edits!Init, Writes!Init
  <2> QED
    BY <1>2, <2>1 DEF Lock!Init, Edits!Arrivals
<1> QED
  BY <1>1, <1>2

LEMMA LockSteps ==
  ASSUME QueuesInv, QueuesInv', [StreamsNext]_streamsVars PROVE [Lock!Next]_theLock
<1>1. part' = part
  BY PartStays
<1>2. CASE part = "edits"
  <2>1. /\ TheArrivals = EditsProofs!Arrivals /\ TheArrivals' = EditsProofs!Arrivals'
        /\ TheLeft = EditsProofs!Left /\ TheLeft' = EditsProofs!Left'
        /\ TheHolders = EditsProofs!Holders /\ TheHolders' = EditsProofs!Holders'
    BY <1>1, <1>2
    DEF TheArrivals, TheLeft, TheHolders, Editing, Calls, Edits!Arrivals,
        EditsProofs!Arrivals, EditsProofs!Left, EditsProofs!Holders
  <2>2. [EditsProofs!Lock!Next]_<<EditsProofs!Arrivals, EditsProofs!Left, EditsProofs!Holders>>
    BY <1>1, <1>2, EditsStep, EditsAssumed, EditsProofs!QueueStepsLock DEF QueuesInv
  <2>3. \A l : Lock!Line(l) = EditsProofs!Lock!Line(l)
    BY <2>1
    DEF Lock!Line, EditsProofs!Lock!Line, TheArrivals, TheLeft,
        EditsProofs!Arrivals, EditsProofs!Left
  <2>4. \A l, c : Lock!First(l, c) <=> EditsProofs!Lock!First(l, c)
    BY <2>1, <2>3
    DEF Lock!First, EditsProofs!Lock!First, TheArrivals, EditsProofs!Arrivals
  <2>5. ASSUME NEW l \in Path, NEW c \in Op, EditsProofs!Lock!Join(l, c) PROVE Lock!Join(l, c)
    BY <2>1, <2>5
    DEF Lock!Join, EditsProofs!Lock!Join, TheArrivals, TheLeft, TheHolders,
        EditsProofs!Arrivals, EditsProofs!Left, EditsProofs!Holders
  <2>6. ASSUME NEW l \in Path, NEW c \in Op, EditsProofs!Lock!Enter(l, c) PROVE Lock!Enter(l, c)
    BY <2>1, <2>4, <2>6
    DEF Lock!Enter, EditsProofs!Lock!Enter, TheArrivals, TheLeft, TheHolders,
        EditsProofs!Arrivals, EditsProofs!Left, EditsProofs!Holders
  <2>7. ASSUME NEW l \in Path, NEW c \in Op, EditsProofs!Lock!Leave(l, c) PROVE Lock!Leave(l, c)
    BY <2>1, <2>4, <2>7
    DEF Lock!Leave, EditsProofs!Lock!Leave, TheArrivals, TheLeft, TheHolders,
        EditsProofs!Arrivals, EditsProofs!Left, EditsProofs!Holders
  <2>8. Op \subseteq Op
    BY DEF Op
  <2>9. EditsProofs!Lock!Next => Lock!Next
    BY <2>5, <2>6, <2>7, <2>8 DEF Lock!Next, EditsProofs!Lock!Next
  <2> QED
    BY <2>1, <2>2, <2>9 DEF theLock
<1>3. CASE part = "writes"
  <2>1. /\ TheArrivals = WritesProofs!Arrivals /\ TheArrivals' = WritesProofs!Arrivals'
        /\ TheLeft = WritesProofs!Left /\ TheLeft' = WritesProofs!Left'
        /\ TheHolders = WritesProofs!Holders /\ TheHolders' = WritesProofs!Holders'
    BY <1>1, <1>3
    DEF TheArrivals, TheLeft, TheHolders, Editing, Calls, Edits!Arrivals,
        WritesProofs!Arrivals, WritesProofs!Left, WritesProofs!Holders
  <2>2. [WritesProofs!Lock!Next]_<<WritesProofs!Arrivals, WritesProofs!Left, WritesProofs!Holders>>
    BY <1>1, <1>3, WritesStep, WritesAssumed, WritesProofs!QueueStepsLock
    DEF QueuesInv
  <2>3. \A l : Lock!Line(l) = WritesProofs!Lock!Line(l)
    BY <2>1
    DEF Lock!Line, WritesProofs!Lock!Line, TheArrivals, TheLeft,
        WritesProofs!Arrivals, WritesProofs!Left
  <2>4. \A l, c : Lock!First(l, c) <=> WritesProofs!Lock!First(l, c)
    BY <2>1, <2>3
    DEF Lock!First, WritesProofs!Lock!First, TheArrivals, WritesProofs!Arrivals
  <2>5. ASSUME NEW l \in Path, NEW c \in {o1, o2}, WritesProofs!Lock!Join(l, c) PROVE Lock!Join(l, c)
    BY <2>1, <2>5
    DEF Lock!Join, WritesProofs!Lock!Join, TheArrivals, TheLeft, TheHolders,
        WritesProofs!Arrivals, WritesProofs!Left, WritesProofs!Holders
  <2>6. ASSUME NEW l \in Path, NEW c \in {o1, o2}, WritesProofs!Lock!Enter(l, c) PROVE Lock!Enter(l, c)
    BY <2>1, <2>4, <2>6
    DEF Lock!Enter, WritesProofs!Lock!Enter, TheArrivals, TheLeft, TheHolders,
        WritesProofs!Arrivals, WritesProofs!Left, WritesProofs!Holders
  <2>7. ASSUME NEW l \in Path, NEW c \in {o1, o2}, WritesProofs!Lock!Leave(l, c) PROVE Lock!Leave(l, c)
    BY <2>1, <2>4, <2>7
    DEF Lock!Leave, WritesProofs!Lock!Leave, TheArrivals, TheLeft, TheHolders,
        WritesProofs!Arrivals, WritesProofs!Left, WritesProofs!Holders
  <2>8. {o1, o2} \subseteq Op
    BY DEF Op
  <2>9. WritesProofs!Lock!Next => Lock!Next
    BY <2>5, <2>6, <2>7, <2>8 DEF Lock!Next, WritesProofs!Lock!Next
  <2> QED
    BY <2>1, <2>2, <2>9 DEF theLock
<1>4. CASE ~Editing
  BY <1>1, <1>4 DEF Editing, theLock, TheArrivals, TheLeft, TheHolders, Calls
<1> QED
  BY <1>2, <1>3, <1>4 DEF Editing

\* The calls for a file are served in the order they were made: the queue, with
\* writes and with edits, implements a first-come first-served lock
\* (withFileMutationQueue).
THEOREM LockTheorem == StreamsSpec => ImplementsFifoLock
  BY LockInit, LockSteps, QueuesInit, QueuesInvStep, PTL
  DEF StreamsSpec, ImplementsFifoLock, Lock!Spec, theLock, TheArrivals, TheLeft,
      TheHolders

-----------------------------------------------------------------------------
\* Requests and connections; what is said of gateway and server is not used.
LinkProofs == INSTANCE ConnectionProofs WITH
  Stream <- Client, MaxSockets <- 3, Happens <- Connections, at <- place, got <- messages,
  Providers <- {"gemini-cli", "codex"}, Endpoints <- 3, MaxRetries <- 3, result <- outcome,
  MaxSessions <- 0, MaxViewers <- 0, MaxChunks <- 0, MaxBufferLines <- 0, MaxInputs <- 0,
  LateBodies <- FALSE, OneContext <- TRUE,
  sessions <- Unused, viewers <- Unused, inputs <- Unused,
  ReadOnly <- {}, MaxClients <- 0, MaxConns <- 0, MaxLines <- 0, EarlyReturn <- FALSE,
  clients <- Unused, conns <- Unused, heard <- Unused, lines <- Unused

LEMMA RequestsSame ==
  /\ Request!Init <=> LinkProofs!Request!Init
  /\ Request!Next <=> LinkProofs!Request!Next
  /\ Request!vars = LinkProofs!Request!vars
  /\ Request!RetriesAreBounded <=> LinkProofs!Request!RetriesAreBounded
<1>1. Request!Init <=> LinkProofs!Request!Init
  BY DEF Request!Init, LinkProofs!Request!Init
<1>2. Request!Next <=> LinkProofs!Request!Next
  BY DEF Request!Next, LinkProofs!Request!Next, Request!Answered,
      LinkProofs!Request!Answered, Request!Wake, LinkProofs!Request!Wake,
      Request!Abort, LinkProofs!Request!Abort, Request!Over,
      LinkProofs!Request!Over, Request!Fetch, LinkProofs!Request!Fetch,
      Request!Continue, LinkProofs!Request!Continue, Request!MayRetry,
      LinkProofs!Request!MayRetry, Request!Caught, LinkProofs!Request!Caught,
      Request!Retryable, LinkProofs!Request!Retryable, Request!MoreEndpoints,
      LinkProofs!Request!MoreEndpoints, Request!Replies, LinkProofs!Request!Replies
<1>3. Request!vars = LinkProofs!Request!vars
  BY DEF Request!vars, LinkProofs!Request!vars
<1>4. Request!RetriesAreBounded <=> LinkProofs!Request!RetriesAreBounded
  BY DEF Request!RetriesAreBounded, LinkProofs!Request!RetriesAreBounded
<1> QED
  BY <1>1, <1>2, <1>3, <1>4

LEMMA SocketsSame ==
  /\ Connection!Init <=> LinkProofs!Init
  /\ Connection!Next <=> LinkProofs!Next
  /\ Connection!vars = LinkProofs!vars
  /\ Connection!SocketsServeOneStream <=> LinkProofs!SocketsServeOneStream
<1>1. Connection!Init <=> LinkProofs!Init
  BY DEF Connection!Init, LinkProofs!Init
<1>2. ASSUME NEW s PROVE Connection!Step(s) <=> LinkProofs!Step(s)
  <2>1. ASSUME NEW k PROVE Connection!Send(s, k) <=> LinkProofs!Send(s, k)
    BY DEF Connection!Send, LinkProofs!Send
  <2>2. ASSUME NEW keep PROVE Connection!Release(s, keep) <=> LinkProofs!Release(s, keep)
    BY DEF Connection!Release, LinkProofs!Release, Connection!Kept, LinkProofs!Kept,
        Connection!KeptTimer, LinkProofs!KeptTimer, Connection!Dropped,
        LinkProofs!Dropped, Connection!Cached, LinkProofs!Cached
  <2>3. Connection!AfterFailure(s) <=> LinkProofs!AfterFailure(s)
    BY DEF Connection!AfterFailure, LinkProofs!AfterFailure, Connection!FallsBack,
        LinkProofs!FallsBack
  <2>4. Connection!Reuse(s) <=> LinkProofs!Reuse(s)
    BY <2>1
    DEF Connection!Reuse, LinkProofs!Reuse, Connection!Cached, LinkProofs!Cached,
        Connection!BusyWith, LinkProofs!BusyWith, Connection!Asks, LinkProofs!Asks
  <2>5. Connection!Connect(s) <=> LinkProofs!Connect(s)
    BY DEF Connection!Connect, LinkProofs!Connect, Connection!Cached,
        LinkProofs!Cached
  <2>6. Connection!Connected(s) <=> LinkProofs!Connected(s)
    BY <2>1
    DEF Connection!Connected, LinkProofs!Connected, Connection!Asks, LinkProofs!Asks
  <2>7. Connection!ConnectFails(s) <=> LinkProofs!ConnectFails(s)
    BY <2>3 DEF Connection!ConnectFails, LinkProofs!ConnectFails
  <2>8. Connection!Complete(s) <=> LinkProofs!Complete(s)
    BY <2>2
    DEF Connection!Complete, LinkProofs!Complete, Connection!HasLast,
        LinkProofs!HasLast
  <2>9. Connection!Break(s) <=> LinkProofs!Break(s)
    BY <2>2, <2>3
    DEF Connection!Break, LinkProofs!Break, Connection!HasLast, LinkProofs!HasLast
  <2> QED
    BY <2>4, <2>5, <2>6, <2>7, <2>8, <2>9 DEF Connection!Step, LinkProofs!Step
<1>3. ASSUME NEW k PROVE
   /\ Connection!Message(k) <=> LinkProofs!Message(k)
   /\ Connection!ServerCloses(k) <=> LinkProofs!ServerCloses(k)
   /\ Connection!Expire(k) <=> LinkProofs!Expire(k)
  BY DEF Connection!Message, LinkProofs!Message, Connection!Listening,
      LinkProofs!Listening, Connection!ServerCloses, LinkProofs!ServerCloses,
      Connection!Expire, LinkProofs!Expire
<1>4. Connection!Next <=> LinkProofs!Next
  BY <1>2, <1>3
  DEF Connection!Next, LinkProofs!Next, Connection!Sockets, LinkProofs!Sockets
<1>5. Connection!vars = LinkProofs!vars
  BY DEF Connection!vars, LinkProofs!vars
<1>6.   Connection!SocketsServeOneStream <=> LinkProofs!SocketsServeOneStream
  BY DEF Connection!SocketsServeOneStream, LinkProofs!SocketsServeOneStream,
      Connection!Listening, LinkProofs!Listening
<1> QED
  BY <1>1, <1>4, <1>5, <1>6

RequestsInv == part = "requests" => LinkProofs!RetriesInv
SocketsInv == part = "sockets" => LinkProofs!SocketsInv

LEMMA RequestsAssumed == LinkProofs!Request!RetryAssumption
  BY Assumptions DEF Request!RetryAssumption, LinkProofs!Request!RetryAssumption

LEMMA RequestsInit == StreamsInit => RequestsInv
  BY RequestsSame, RequestsAssumed, LinkProofs!RetriesInit
  DEF StreamsInit, RequestsInv
LEMMA SocketsInit == StreamsInit => SocketsInv
  BY SocketsSame, LinkProofs!SocketsInit DEF StreamsInit, SocketsInv

LEMMA RequestsStep ==
  ASSUME [StreamsNext]_streamsVars, part = "requests"
  PROVE  [LinkProofs!Request!Next]_(LinkProofs!Request!vars)
<1>1. CASE UNCHANGED streamsVars
  BY <1>1 DEF streamsVars, requestVars, sharedVars, LinkProofs!Request!vars
<1>2. CASE StreamsNext
  BY <1>2, RequestsSame
  DEF StreamsNext, StreamMoves, EditsMove, AnswerMoves, RequestMoves, SocketsMove,
      InStream, InEdits, InAnswers, InRequests, InSockets
<1> QED
  BY <1>1, <1>2
LEMMA SocketsStep ==
  ASSUME [StreamsNext]_streamsVars, part = "sockets"
  PROVE  [LinkProofs!Next]_(LinkProofs!vars)
<1>1. CASE UNCHANGED streamsVars
  BY <1>1 DEF streamsVars, socketVars, sharedVars, LinkProofs!vars
<1>2. CASE StreamsNext
  BY <1>2, SocketsSame
  DEF StreamsNext, StreamMoves, EditsMove, AnswerMoves, RequestMoves, SocketsMove,
      InStream, InEdits, InAnswers, InRequests, InSockets
<1> QED
  BY <1>1, <1>2

LEMMA RequestsNext == RequestsInv /\ [StreamsNext]_streamsVars => RequestsInv'
  BY PartStays, RequestsStep, RequestsAssumed, LinkProofs!RetriesNext
  DEF RequestsInv
LEMMA SocketsNext == SocketsInv /\ [StreamsNext]_streamsVars => SocketsInv'
  BY PartStays, SocketsStep, LinkProofs!SocketsNext DEF SocketsInv

\* A request is retried as long as it may be and no longer (google-gemini-cli.ts,
\* openai-codex-responses.ts).
THEOREM RetriesTheorem == StreamsSpec => []RetriesAreBounded
<1>1. RequestsInv => RetriesAreBounded
  BY RequestsSame, RequestsAssumed, LinkProofs!RetriesHold
  DEF RetriesAreBounded, RequestsInv
<1> QED
  BY <1>1, RequestsInit, RequestsNext, PTL DEF StreamsSpec

\* A connection serves one stream at a time (openai-codex-responses.ts).
THEOREM SocketsTheorem == StreamsSpec => []SocketsServeOneStream
<1>1. SocketsInv => SocketsServeOneStream
  BY SocketsSame, LinkProofs!SocketsHold DEF SocketsServeOneStream, SocketsInv
<1> QED
  BY <1>1, SocketsInit, SocketsNext, PTL DEF StreamsSpec
===============================================================================
