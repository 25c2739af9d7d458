-------------------------- MODULE AgentSessionProofs --------------------------
(***************************************************************************)
(* A session around an agent keeps its calls, its compactions and the       *)
(* texts of its interface in order, whatever the user, the agent and the    *)
(* timers do, and each result behind its call as long as nothing disturbs   *)
(* its turns: by induction over the steps, from what each operation of the  *)
(* session does to a world.                                                 *)
(***************************************************************************)
EXTENDS AgentSessionProperties, SequenceTheorems, WellFoundedInduction, TLAPS

-----------------------------------------------------------------------------
(* Worlds of the right type.                                                *)

\* The messages there are: a compaction names the position it kept from.
Known == {m \in Messages : m.role = "compaction" => m.id # 0}
Texts == [text : Text, mode : {"steer", "followUp"}]
Started ==
  [runner : {Events} \cup Text, reason : {"threshold", "overflow"},
   first : Nat \ {0}, aborted : BOOLEAN]
Places4Calls == {"none", "compacting", "starting", "running", "retrying", "settling"}

Agents ==
  [run : {"idle", "request", "tools"}, aborted : BOOLEAN, messages : Seq(Known),
   steering : Seq(Known), followUp : Seq(Known), answers : Nat]
Sessions ==
  [entries : Seq(Known), events : Seq(Known), connected : BOOLEAN,
   steering : Seq(Text), followUp : Seq(Text), lastAssistant : Stops \cup {"none"},
   overflowRecoveryAttempted : BOOLEAN, retryAttempt : 0..MaxRetries,
   retryPromise : BOOLEAN, backoff : {"none", "sleeping", "aborted"}, timers : Nat,
   calls : [Text -> Places4Calls], pendingBash : Seq(Known),
   compactions : SUBSET Started, controller : {Nobody, Events} \cup Text,
   manual : {"none", "waiting", "summary", "aborted"}, cut : Nat,
   tree : {"none", "summary", "left"}, branch : Nat]
Uis ==
  [loop : {0} \cup Text, submitted : 0..MaxTexts, queued : Seq(Texts),
   flushed : Seq(Texts), editor : SUBSET Text, acts : Nat]
Worlds == [agent : Agents, session : Sessions, ui : Uis]

\* A prompt that awaits a compaction is the only one to, and nobody awaits a
\* compaction from inside an event while the handler of an event pauses.
RunnersWait(w) ==
  /\ \A c, d \in Running(w) : c.runner = d.runner => c = d
  /\ \A c \in Running(w) : c.runner \in Text => w.session.calls[c.runner] = "compacting"
  /\ Sleeping(w) => \A c \in Running(w) : c.runner # Events

\* Only what was submitted is prompted.
CallsSubmitted(w) == \A t \in Text : w.session.calls[t] # "none" => t <= w.ui.submitted

\* The interface keeps a text once, and none of those it keeps is being prompted; of
\* those it has sent last, only the first may be.
Listed(w, texts) ==
  /\ \A i \in DOMAIN texts : texts[i].text <= w.ui.submitted
  /\ \A i, j \in DOMAIN texts : texts[i].text = texts[j].text => i = j
TextsWait(w) ==
  /\ Listed(w, w.ui.queued) /\ Listed(w, w.ui.flushed)
  /\ \A i \in DOMAIN w.ui.queued : w.session.calls[w.ui.queued[i].text] = "none"
  /\ \A i \in DOMAIN w.ui.flushed : i > 1 => w.session.calls[w.ui.flushed[i].text] = "none"

\* A summary that is made has a place to go to.
SummariesLand(w) ==
  /\ w.session.manual = "summary" => w.session.cut # 0
  /\ w.session.tree = "summary" => w.session.branch <= Len(w.session.entries)

Orderly(w) ==
  w \in Worlds /\ RunnersWait(w) /\ CallsSubmitted(w) /\ TextsWait(w) /\ SummariesLand(w)

-----------------------------------------------------------------------------
(* Functions that go along a sequence.                                      *)

LEMMA LeastNumber ==
  ASSUME NEW T \in SUBSET Nat, T # {}
  PROVE  \E n \in T : \A m \in T : n <= m
<1>1. PICK n \in T : \A m \in T : ~(<<m, n>> \in OpToRel(<, Nat))
  BY NatLessThanWellFounded, WFMin
<1>2. \A m \in T : <<m, n>> \in Nat \X Nat
  OBVIOUS
<1>3. \A m \in T : ~(m < n)
  BY <1>1, <1>2 DEF OpToRel
<1> QED
  BY <1>3

\* What holds at first and is kept by every step holds at last.
LEMMA StepsReach ==
  ASSUME NEW n \in Nat, NEW S, NEW f, f[0] \in S,
         \A i \in 1..n : f[i - 1] \in S => f[i] \in S
  PROVE  \A i \in 0..n : f[i] \in S
<1> DEFINE Bad == {i \in 0..n : f[i] \notin S}
<1> SUFFICES ASSUME Bad # {} PROVE FALSE
  OBVIOUS
<1>1. Bad \in SUBSET Nat
  OBVIOUS
<1>2. PICK k \in Bad : \A m \in Bad : k <= m
  <2> HIDE DEF Bad
  <2> QED BY <1>1, LeastNumber
<1>3. k \in 1..n /\ k - 1 \in 0..n
  BY <1>2
<1>4. k - 1 \notin Bad
  BY <1>2, <1>3
<1> QED
  BY <1>2, <1>3, <1>4

\* The steps g from a base, one for each number.
Along(f, n, base, g) == f = [i \in 0..n |-> IF i = 0 THEN base ELSE g[<<i, f[i - 1]>>]]

LEMMA StepsExist ==
  ASSUME NEW n \in Nat, NEW S, NEW base \in S, NEW g,
         \A i \in 1..n, x \in S : g[<<i, x>>] \in S
  PROVE  \E f : Along(f, n, base, g) /\ \A i \in 0..n : f[i] \in S
<1> DEFINE Good(m) == \E f \in [0..m -> S] : Along(f, m, base, g)
           Bad == {m \in 0..n : ~Good(m)}
<1>1. Good(0)
  <2>1. [i \in 0..0 |-> base] \in [0..0 -> S] /\ Along([i \in 0..0 |-> base], 0, base, g)
    BY DEF Along
  <2> QED
    BY <2>1
<1>2. ASSUME NEW m \in 1..n, Good(m - 1)
      PROVE  Good(m)
  <2>1. PICK f \in [0..(m - 1) -> S] : Along(f, m - 1, base, g)
    BY <1>2
  <2> DEFINE h == [i \in 0..m |-> IF i = m THEN g[<<m, f[m - 1]>>] ELSE f[i]]
  <2>2. \A i \in 0..(m - 1) : h[i] = f[i] /\ f[i] = IF i = 0 THEN base ELSE g[<<i, f[i - 1]>>]
    BY <2>1 DEF Along
  <2>3. h[m] = g[<<m, h[m - 1]>>] /\ h[m] \in S
    <3>1. m - 1 \in 0..(m - 1) /\ f[m - 1] \in S
      BY <2>1
    <3> QED
      BY <2>2, <3>1
  <2>4. h \in [0..m -> S]
    BY <2>1, <2>3
  <2>5. \A i \in 0..m : h[i] = IF i = 0 THEN base ELSE g[<<i, h[i - 1]>>]
    <3> SUFFICES ASSUME NEW i \in 0..m
                 PROVE  h[i] = IF i = 0 THEN base ELSE g[<<i, h[i - 1]>>]
      OBVIOUS
    <3>1. CASE i = m
      BY <2>3, <3>1
    <3>2. CASE i = 0
      <4>1. 0 \in 0..(m - 1)
        OBVIOUS
      <4> QED
        BY <2>2, <3>2, <4>1
    <3>3. CASE i \in 1..(m - 1)
      <4>1. i \in 0..(m - 1) /\ i - 1 \in 0..(m - 1) /\ i # 0
        BY <3>3
      <4> HIDE DEF h
      <4> QED
        BY <2>2, <4>1
    <3> QED
      BY <3>1, <3>2, <3>3
  <2>6. DOMAIN h = 0..m
    OBVIOUS
  <2> HIDE DEF h
  <2>7. Along(h, m, base, g)
    BY <2>4, <2>5 DEF Along
  <2> QED
    BY <2>4, <2>7
<1>3. Bad = {}
  <2> SUFFICES ASSUME Bad # {} PROVE FALSE
    OBVIOUS
  <2>1. Bad \in SUBSET Nat
    OBVIOUS
  <2>2. PICK m \in Bad : \A k \in Bad : m <= k
    <3> HIDE DEF Bad
    <3> QED BY <2>1, LeastNumber
  <2>3. m \in 1..n /\ m - 1 \in 0..n
    <3> HIDE DEF Good
    <3> QED BY <1>1, <2>2
  <2>4. m - 1 \notin Bad
    <3> HIDE DEF Bad
    <3> QED BY <2>2, <2>3
  <2> HIDE DEF Good
  <2> QED
    BY <1>2, <2>2, <2>3, <2>4
<1>4. Good(n)
  <2> HIDE DEF Good
  <2> QED BY <1>3
<1> QED
  BY <1>4

-----------------------------------------------------------------------------
(* Contexts, cuts and queues keep their types.                              *)

\* The greatest of some positions.
LEMMA GreatestNumber ==
  ASSUME NEW n \in Nat, NEW T \in SUBSET (1..n), T # {}
  PROVE  Max(T) \in T /\ \A m \in T : Max(T) >= m
<1> DEFINE U == {n - m : m \in T}
<1>1. U \in SUBSET Nat /\ U # {}
  <2>1. \A m \in T : m \in 1..n
    OBVIOUS
  <2>2. \A m \in T : n - m \in Nat
    BY <2>1
  <2> QED
    BY <2>2
<1>2. PICK u \in U : \A k \in U : u <= k
  <2> HIDE DEF U
  <2> QED BY <1>1, LeastNumber
<1>3. PICK m \in T : u = n - m
  BY <1>2
<1>4. \A k \in T : m >= k
  <2> SUFFICES ASSUME NEW k \in T PROVE m >= k
    OBVIOUS
  <2>1. n - k \in U /\ k \in 1..n /\ m \in 1..n
    OBVIOUS
  <2>2. u <= n - k
    BY <1>2, <2>1
  <2> QED
    BY <1>3, <2>1, <2>2
<1> QED
  BY <1>3, <1>4 DEF Max

LEMMA LastCompactionIs ==
  ASSUME NEW T, NEW s \in Seq(T)
  PROVE  \/ LastCompaction(s) = 0
         \/ LastCompaction(s) \in 1..Len(s) /\ s[LastCompaction(s)].role = "compaction"
<1> DEFINE I == {i \in 1..Len(s) : s[i].role = "compaction"}
<1>1. LastCompaction(s) = IF I # {} THEN Max(I) ELSE 0
  BY DEF LastCompaction, SelectLastInSeq
<1>2. CASE I # {}
  <2>1. I \in SUBSET (1..Len(s)) /\ Len(s) \in Nat
    BY LenProperties
  <2>2. Max(I) \in I
    <3> HIDE DEF I
    <3> QED BY <1>2, <2>1, GreatestNumber
  <2> QED
    BY <1>1, <1>2, <2>2
<1> QED
  BY <1>1, <1>2

LEMMA WithoutCompactionsTyped ==
  ASSUME NEW T, NEW s \in Seq(T)
  PROVE  WithoutCompactions(s) \in Seq(T)
<1> DEFINE n == Len(s)
           g == [p \in (1..n) \X Seq(T) |->
                   IF s[p[1]].role # "compaction" THEN Append(p[2], s[p[1]]) ELSE p[2]]
           Goes(f) == f = [i \in 0..n |-> IF i = 0 THEN <<>>
                             ELSE IF s[i].role # "compaction" THEN Append(f[i - 1], s[i])
                             ELSE f[i - 1]]
           kept == CHOOSE f : Goes(f)
<1>1. n \in Nat /\ \A i \in 1..n : s[i] \in T
  BY LenProperties, ElementOfSeq
<1>2. \A i \in 1..n, x \in Seq(T) :
        /\ g[<<i, x>>] \in Seq(T)
        /\ g[<<i, x>>] = IF s[i].role # "compaction" THEN Append(x, s[i]) ELSE x
  BY <1>1, AppendProperties
<1>3. PICK f : Along(f, n, <<>>, g) /\ \A i \in 0..n : f[i] \in Seq(T)
  <2>1. <<>> \in Seq(T)
    OBVIOUS
  <2> HIDE DEF g, n
  <2> QED
    BY <1>1, <1>2, <2>1, StepsExist
<1>4. Goes(f)
  <2>1. \A i \in 1..n : g[<<i, f[i - 1]>>] = IF s[i].role # "compaction" THEN Append(f[i - 1], s[i]) ELSE f[i - 1]
    <3>1. \A i \in 1..n : f[i - 1] \in Seq(T)
      BY <1>1, <1>3
    <3> QED BY <1>2, <3>1
  <2>2. f = [i \in 0..n |-> IF i = 0 THEN <<>> ELSE g[<<i, f[i - 1]>>]]
    BY <1>3 DEF Along
  <2> HIDE DEF g, n
  <2>3. \A i \in 0..n : i # 0 => i \in 1..n
    BY <1>1
  <2> QED
    BY <2>1, <2>2, <2>3
<1>5. Goes(kept)
  <2> HIDE DEF Goes
  <2> QED BY <1>4, Zenon
<1>6. kept[0] = <<>> /\ \A i \in 1..n : kept[i] = IF s[i].role # "compaction" THEN Append(kept[i - 1], s[i]) ELSE kept[i - 1]
  <2> SUFFICES ASSUME NEW h, Goes(h)
               PROVE  h[0] = <<>> /\ \A i \in 1..n : h[i] = IF s[i].role # "compaction" THEN Append(h[i - 1], s[i]) ELSE h[i - 1]
    <3> HIDE DEF kept
    <3> QED BY <1>5
  <2>1. 0 \in 0..n /\ \A i \in 1..n : i \in 0..n /\ i # 0
    BY <1>1
  <2> HIDE DEF n
  <2> QED BY <2>1
<1>7. \A i \in 0..n : kept[i] \in Seq(T)
  <2>1. kept[0] \in Seq(T)
    <3> HIDE DEF kept
    <3> QED BY <1>6
  <2>2. \A i \in 1..n : kept[i - 1] \in Seq(T) => kept[i] \in Seq(T)
    <3> HIDE DEF kept
    <3> QED BY <1>1, <1>6, AppendProperties
  <2> HIDE DEF kept, n
  <2> QED
    BY <1>1, <2>1, <2>2, StepsReach
<1>8. WithoutCompactions(s) = kept[n]
  BY DEF WithoutCompactions
<1> QED
  BY <1>1, <1>7, <1>8

LEMMA SubSeqTyped ==
  ASSUME NEW T, NEW s \in Seq(T), NEW i \in Nat \ {0}, NEW j \in Int, j <= Len(s)
  PROVE  SubSeq(s, i, j) \in Seq(T)
<1>1. \A k \in i..j : s[k] \in T
  BY LenProperties, ElementOfSeq
<1> QED
  BY <1>1, SubSeqProperties

LEMMA ContextTyped ==
  ASSUME NEW s \in Seq(Known)
  PROVE  Context(s) \in Seq(Known)
<1> DEFINE c == LastCompaction(s)
           rest == SubSeq(s, s[c].id, c - 1) \o SubSeq(s, c + 1, Len(s))
<1>1. Len(s) \in Nat /\ \A i \in 1..Len(s) : s[i] \in Known
  BY LenProperties, ElementOfSeq
<1>2. CASE c = 0
  BY <1>2 DEF Context
<1>3. CASE c # 0
  <2>1. c \in 1..Len(s) /\ s[c].role = "compaction"
    BY <1>3, LastCompactionIs
  <2>2. s[c] \in Known /\ s[c].id \in Nat \ {0}
    BY <1>1, <2>1 DEF Known, Messages
  <2>3. SubSeq(s, s[c].id, c - 1) \in Seq(Known) /\ SubSeq(s, c + 1, Len(s)) \in Seq(Known)
    BY <1>1, <2>1, <2>2, SubSeqTyped
  <2>4. rest \in Seq(Known)
    BY <2>3, ConcatProperties
  <2>5. WithoutCompactions(rest) \in Seq(Known)
    <3> HIDE DEF rest
    <3> QED BY <2>4, WithoutCompactionsTyped
  <2>6. <<s[c]>> \in Seq(Known)
    BY <2>2
  <2>7. Context(s) = <<s[c]>> \o WithoutCompactions(rest)
    BY <1>3 DEF Context
  <2> HIDE DEF c, rest
  <2> QED
    BY <2>5, <2>6, <2>7, ConcatProperties
<1> QED
  BY <1>2, <1>3

LEMMA CutTyped ==
  ASSUME NEW s \in Seq(Known)
  PROVE  Cut(s) \subseteq Nat
<1> DEFINE c == LastCompaction(s)
           start == IF c = 0 THEN 1 ELSE s[c].id
<1>1. Len(s) \in Nat /\ \A i \in 1..Len(s) : s[i] \in Known
  BY LenProperties, ElementOfSeq
<1>2. start \in Nat
  <2>1. c = 0 \/ (c \in 1..Len(s))
    BY LastCompactionIs
  <2>2. c # 0 => s[c].id \in Nat
    BY <1>1, <2>1 DEF Known, Messages
  <2> QED BY <2>2
<1>3. CutPoints(s) \subseteq Nat
  <2>1. CutPoints(s) \subseteq start..Len(s)
    BY DEF CutPoints
  <2> QED BY <1>1, <1>2, <2>1
<1> QED
  BY <1>3 DEF Cut

LEMMA TrimTyped ==
  ASSUME NEW s \in Seq(Known)
  PROVE  TrimAnswer(s) \in Seq(Known)
<1>1. Len(s) \in Nat
  BY LenProperties
<1>2. Front(s) \in Seq(Known)
  BY <1>1, SubSeqTyped DEF Front
<1> QED
  BY <1>2 DEF TrimAnswer

LEMMA RemoveFirstTyped ==
  ASSUME NEW T, NEW s \in Seq(T), NEW t
  PROVE  RemoveFirst(s, t) \in Seq(T)
<1> DEFINE I == {i \in 1..Len(s) : s[i] = t}
           k == SelectInSeq(s, LAMBDA v : v = t)
<1>1. CASE I # {}
  <2>1. Len(s) \in Nat /\ I \in SUBSET Nat
    BY LenProperties
  <2>2. k = Min(I)
    BY <1>1 DEF SelectInSeq
  <2>3. Min(I) \in I
    <3>1. PICK m \in I : \A x \in I : m <= x
      <4> HIDE DEF I
      <4> QED BY <1>1, <2>1, LeastNumber
    <3> HIDE DEF I
    <3> QED BY <3>1 DEF Min
  <2>4. k \in 1..Len(s)
    BY <2>2, <2>3
  <2> HIDE DEF k
  <2>5. SubSeq(s, 1, k - 1) \in Seq(T) /\ SubSeq(s, k + 1, Len(s)) \in Seq(T)
    BY <2>1, <2>4, SubSeqTyped
  <2>6. RemoveFirst(s, t) = SubSeq(s, 1, k - 1) \o SubSeq(s, k + 1, Len(s))
    BY <1>1 DEF RemoveFirst, RemoveAt, k
  <2> QED
    BY <2>5, <2>6, ConcatProperties
<1> QED
  BY <1>1 DEF RemoveFirst

-----------------------------------------------------------------------------
(* What keeps a world in order: it starts no call and no compaction, and    *)
(* leaves alone the texts of the interface and what is yet to land.         *)

Rest(w) ==
  <<w.session.compactions, w.session.manual, w.session.cut, w.session.tree, w.session.branch,
    w.ui.submitted, w.ui.queued, w.ui.flushed>>

Keeps(w, v) ==
  /\ v \in Worlds /\ Rest(v) = Rest(w)
  /\ \A t \in Text : \/ v.session.calls[t] = w.session.calls[t]
                     \/ w.session.calls[t] \notin {"none", "compacting"} /\ v.session.calls[t] # "compacting"
  /\ Sleeping(v) => Sleeping(w)
  /\ Len(w.session.entries) <= Len(v.session.entries)

LEMMA TextsTyped ==
  ASSUME NEW q \in Seq(Texts)
  PROVE  \A i \in DOMAIN q : q[i].text \in Text
<1>1. \A i \in 1..Len(q) : q[i] \in Texts
  BY ElementOfSeq
<1>2. DOMAIN q = 1..Len(q)
  BY LenProperties
<1> QED
  BY <1>1, <1>2 DEF Texts

LEMMA KeepsOrder ==
  ASSUME NEW w, Orderly(w), NEW v, Keeps(w, v)
  PROVE  Orderly(v)
<1>1. /\ v.session.compactions = w.session.compactions /\ v.session.manual = w.session.manual
      /\ v.session.cut = w.session.cut /\ v.session.tree = w.session.tree
      /\ v.session.branch = w.session.branch
      /\ v.ui.submitted = w.ui.submitted /\ v.ui.queued = w.ui.queued /\ v.ui.flushed = w.ui.flushed
  BY DEF Keeps, Rest
<1>2. RunnersWait(v)
  BY <1>1 DEF Orderly, RunnersWait, Running, Keeps
<1>3. CallsSubmitted(v)
  BY <1>1 DEF Orderly, CallsSubmitted, Keeps
<1>4. \A i \in DOMAIN w.ui.queued : w.ui.queued[i].text \in Text
  BY TextsTyped DEF Orderly, Worlds, Uis
<1>5. \A i \in DOMAIN w.ui.flushed : w.ui.flushed[i].text \in Text
  BY TextsTyped DEF Orderly, Worlds, Uis
<1>6. Listed(v, v.ui.queued) /\ Listed(v, v.ui.flushed)
  BY <1>1 DEF Orderly, TextsWait, Listed
<1>7. TextsWait(v)
  BY <1>1, <1>4, <1>5, <1>6 DEF Orderly, TextsWait, Keeps
<1>8. w.session.branch \in Nat /\ Len(w.session.entries) \in Nat /\ Len(v.session.entries) \in Nat
  BY LenProperties DEF Orderly, Keeps, Worlds, Sessions
<1>9. SummariesLand(v)
  BY <1>1, <1>8 DEF Orderly, SummariesLand, Keeps
<1> QED
  BY <1>2, <1>3, <1>7, <1>9 DEF Orderly, Keeps

LEMMA KeepsTransitive ==
  ASSUME NEW w \in Worlds, NEW v, NEW u, Keeps(w, v), Keeps(v, u)
  PROVE  Keeps(w, u)
<1>1. Len(w.session.entries) \in Nat /\ Len(v.session.entries) \in Nat /\ Len(u.session.entries) \in Nat
  BY LenProperties DEF Keeps, Worlds, Sessions
<1> QED
  BY <1>1 DEF Keeps

LEMMA KeepsSame ==
  ASSUME NEW w \in Worlds, NEW v \in Worlds, Rest(v) = Rest(w),
         v.session.calls = w.session.calls, v.session.backoff = w.session.backoff,
         v.session.entries = w.session.entries
  PROVE  Keeps(w, v)
<1>1. Len(w.session.entries) \in Nat
  BY LenProperties DEF Worlds, Sessions
<1> QED
  BY <1>1 DEF Keeps, Sleeping

\* The fields of a world.
LEMMA Fields ==
  ASSUME NEW w \in Worlds
  PROVE  w.agent \in Agents /\ w.session \in Sessions /\ w.ui \in Uis
BY DEF Worlds

LEMMA AgentBecomes ==
  ASSUME NEW w \in Worlds, NEW a \in Agents
  PROVE  Keeps(w, [w EXCEPT !.agent = a])
<1> DEFINE v == [w EXCEPT !.agent = a]
<1>1. v \in Worlds /\ v.session = w.session /\ v.ui = w.ui
  BY DEF Worlds
<1> HIDE DEF v
<1>2. Keeps(w, v)
  BY <1>1, KeepsSame DEF Rest
<1> QED
  BY <1>2 DEF v

LEMMA ShowAllKeeps ==
  ASSUME NEW w \in Worlds, NEW ms \in Seq(Known)
  PROVE  Keeps(w, ShowAll(w, ms)) /\ ShowAll(w, ms).session.calls = w.session.calls
<1>1. w.agent.messages \o ms \in Seq(Known) /\ w.session.events \o ms \in Seq(Known)
  BY ConcatProperties DEF Worlds, Agents, Sessions
<1> DEFINE v == ShowAll(w, ms)
<1>2. /\ v \in Worlds /\ Rest(v) = Rest(w) /\ v.session.calls = w.session.calls
      /\ v.session.backoff = w.session.backoff /\ v.session.entries = w.session.entries
  BY <1>1 DEF ShowAll, Worlds, Agents, Sessions, Rest
<1> HIDE DEF v
<1>3. Keeps(w, v)
  BY <1>2, KeepsSame
<1> QED
  BY <1>2, <1>3 DEF v

LEMMA ShowKeeps ==
  ASSUME NEW w \in Worlds, NEW m \in Known
  PROVE  Keeps(w, Show(w, m))
<1>1. <<m>> \in Seq(Known)
  OBVIOUS
<1>2. Keeps(w, ShowAll(w, <<m>>))
  BY <1>1, ShowAllKeeps
<1> QED
  BY <1>2 DEF Show

LEMMA PollsKeep ==
  ASSUME NEW w \in Worlds
  PROVE  Keeps(w, PollSteering(w)) /\ Keeps(w, PollFollowUps(w))
<1>0. Keeps(w, w)
  BY KeepsSame
<1>1. ASSUME w.agent.steering # <<>> PROVE Keeps(w, PollSteering(w))
  <2> DEFINE v == [w EXCEPT !.agent.steering = Tail(@)]
             a == [w.agent EXCEPT !.steering = Tail(@)]
  <2>1. Head(w.agent.steering) \in Known /\ Tail(w.agent.steering) \in Seq(Known)
    BY <1>1, HeadTailProperties DEF Worlds, Agents
  <2>2. a \in Agents /\ v = [w EXCEPT !.agent = a]
    BY <2>1 DEF Worlds, Agents
  <2> HIDE DEF v, a
  <2>3. Keeps(w, v)
    BY <2>2, AgentBecomes
  <2>4. Keeps(v, Show(v, Head(w.agent.steering)))
    BY <2>1, <2>3, ShowKeeps DEF Keeps
  <2>5. PollSteering(w) = Show(v, Head(w.agent.steering))
    BY <1>1 DEF PollSteering, v
  <2> QED
    BY <2>3, <2>4, <2>5, KeepsTransitive
<1>2. ASSUME w.agent.followUp # <<>> PROVE Keeps(w, PollFollowUps(w))
  <2> DEFINE v == [w EXCEPT !.agent.followUp = Tail(@)]
             a == [w.agent EXCEPT !.followUp = Tail(@)]
  <2>1. Head(w.agent.followUp) \in Known /\ Tail(w.agent.followUp) \in Seq(Known)
    BY <1>2, HeadTailProperties DEF Worlds, Agents
  <2>2. a \in Agents /\ v = [w EXCEPT !.agent = a]
    BY <2>1 DEF Worlds, Agents
  <2> HIDE DEF v, a
  <2>3. Keeps(w, v)
    BY <2>2, AgentBecomes
  <2>4. Keeps(v, Show(v, Head(w.agent.followUp)))
    BY <2>1, <2>3, ShowKeeps DEF Keeps
  <2>5. PollFollowUps(w) = Show(v, Head(w.agent.followUp))
    BY <1>2 DEF PollFollowUps, v
  <2> QED
    BY <2>3, <2>4, <2>5, KeepsTransitive
<1>3. w.agent.steering = <<>> => PollSteering(w) = w
  BY DEF PollSteering
<1>4. w.agent.followUp = <<>> => PollFollowUps(w) = w
  BY DEF PollFollowUps
<1>5. Keeps(w, PollSteering(w))
  BY <1>0, <1>1, <1>3
<1>6. Keeps(w, PollFollowUps(w))
  BY <1>0, <1>2, <1>4
<1> QED
  BY <1>5, <1>6

LEMMA SessionBecomes ==
  ASSUME NEW w \in Worlds, NEW s \in Sessions,
         s.compactions = w.session.compactions, s.manual = w.session.manual,
         s.cut = w.session.cut, s.tree = w.session.tree, s.branch = w.session.branch,
         \A t \in Text : \/ s.calls[t] = w.session.calls[t]
                         \/ w.session.calls[t] \notin {"none", "compacting"} /\ s.calls[t] # "compacting",
         s.backoff # "none" => w.session.backoff # "none",
         Len(w.session.entries) <= Len(s.entries)
  PROVE  Keeps(w, [w EXCEPT !.session = s])
<1> DEFINE v == [w EXCEPT !.session = s]
<1>1. v \in Worlds /\ v.session = s /\ v.agent = w.agent /\ v.ui = w.ui
  BY DEF Worlds
<1> HIDE DEF v
<1>2. Keeps(w, v)
  BY <1>1 DEF Keeps, Rest, Sleeping
<1> QED
  BY <1>2 DEF v

LEMMA StartRunKeeps ==
  ASSUME NEW w \in Worlds, NEW ms \in Seq(Known)
  PROVE  Keeps(w, StartRun(w, ms))
<1> DEFINE v == [w EXCEPT !.agent.run = "request", !.agent.aborted = FALSE]
           a == [w.agent EXCEPT !.run = "request", !.aborted = FALSE]
           u == ShowAll(v, ms)
<1>1. a \in Agents /\ v = [w EXCEPT !.agent = a]
  BY DEF Worlds, Agents
<1>2. StartRun(w, ms) = PollSteering(u)
  BY DEF StartRun
<1> HIDE DEF v, a
<1>3. Keeps(w, v)
  BY <1>1, AgentBecomes
<1>4. v \in Worlds
  BY <1>3 DEF Keeps
<1>5. Keeps(v, u)
  BY <1>4, ShowAllKeeps
<1> HIDE DEF u
<1>6. u \in Worlds
  BY <1>5 DEF Keeps
<1>7. Keeps(u, PollSteering(u))
  BY <1>6, PollsKeep
<1>8. Keeps(w, u)
  BY <1>3, <1>5, KeepsTransitive
<1> QED
  BY <1>2, <1>7, <1>8, KeepsTransitive

\* Prompts under way that return.
LEMMA ReturnKeeps ==
  ASSUME NEW w \in Worlds, NEW calls,
         \A t \in calls \cap Text : w.session.calls[t] \notin {"none", "compacting"}
  PROVE  Keeps(w, Return(w, calls)) /\ Return(w, calls).agent = w.agent
         /\ \A t \in Text : Return(w, calls).session.calls[t] = IF t \in calls THEN "none" ELSE w.session.calls[t]
<1> DEFINE c == [t \in Text |-> IF t \in calls THEN "none" ELSE w.session.calls[t]]
           l == IF w.ui.loop \in calls THEN 0 ELSE w.ui.loop
           v == [w EXCEPT !.session.calls = c, !.ui.loop = l]
<1>1. Return(w, calls) = v
  BY DEF Return
<1>2. c \in [Text -> Places4Calls]
  BY DEF Worlds, Sessions, Places4Calls
<1>3. l \in {0} \cup Text
  BY DEF Worlds, Uis
<1> HIDE DEF c, l
<1>4. /\ v \in Worlds /\ Rest(v) = Rest(w) /\ v.session.calls = c /\ v.agent = w.agent
      /\ v.session.backoff = w.session.backoff /\ v.session.entries = w.session.entries
  BY <1>2, <1>3 DEF Worlds, Sessions, Uis, Rest
<1> HIDE DEF v
<1>5. \A t \in Text : c[t] = IF t \in calls THEN "none" ELSE w.session.calls[t]
  BY DEF c
<1>6. Len(w.session.entries) \in Nat
  BY LenProperties DEF Worlds, Sessions
<1>7. Keeps(w, v)
  BY <1>4, <1>5, <1>6 DEF Keeps, Sleeping
<1> QED
  BY <1>1, <1>4, <1>5, <1>7

\* Prompts under way that go on to wait for something else.
LEMMA MoveKeeps ==
  ASSUME NEW w \in Worlds, NEW calls, NEW at \in Places4Calls \ {"compacting"},
         \A t \in calls \cap Text : w.session.calls[t] \notin {"none", "compacting"}
  PROVE  Keeps(w, [w EXCEPT !.session.calls = [t \in Text |-> IF t \in calls THEN at ELSE w.session.calls[t]]])
<1> DEFINE c == [t \in Text |-> IF t \in calls THEN at ELSE w.session.calls[t]]
           s == [w.session EXCEPT !.calls = c]
           v == [w EXCEPT !.session.calls = c]
<1>1. c \in [Text -> Places4Calls]
  BY DEF Worlds, Sessions, Places4Calls
<1>2. \A t \in Text : c[t] = IF t \in calls THEN at ELSE w.session.calls[t]
  OBVIOUS
<1> HIDE DEF c
<1>3. s \in Sessions /\ v = [w EXCEPT !.session = s] /\ s.calls = c
  BY <1>1 DEF Worlds, Sessions
<1>4. /\ s.compactions = w.session.compactions /\ s.manual = w.session.manual
      /\ s.cut = w.session.cut /\ s.tree = w.session.tree /\ s.branch = w.session.branch
      /\ s.backoff = w.session.backoff /\ s.entries = w.session.entries
  BY DEF Worlds, Sessions
<1> HIDE DEF s, v
<1>5. Len(w.session.entries) \in Nat
  BY LenProperties DEF Worlds, Sessions
<1>6. \A t \in Text : \/ s.calls[t] = w.session.calls[t]
                      \/ w.session.calls[t] \notin {"none", "compacting"} /\ s.calls[t] # "compacting"
  BY <1>2, <1>3
<1>7. Keeps(w, [w EXCEPT !.session = s])
  BY <1>3, <1>4, <1>5, <1>6, SessionBecomes
<1>8. Keeps(w, v)
  BY <1>3, <1>7
<1> QED
  BY <1>8 DEF v, c

LEMMA CallsAtAre ==
  ASSUME NEW w \in Worlds, NEW pc \in {"running", "retrying", "settling", "starting"}
  PROVE  \A t \in CallsAt(w, pc) \cap Text : w.session.calls[t] = pc
BY DEF CallsAt

LEMMA AgentEndKnown == AgentEnd \in Known
<1> DEFINE m == [role |-> "agent_end", id |-> 0, stop |-> ""]
<1>1. m.role = "agent_end" /\ m \in Messages
  BY DEF Messages, Stops
<1>2. AgentEnd = m
  BY DEF AgentEnd, Msg
<1> QED
  BY <1>1, <1>2 DEF Known

LEMMA EndRunKeeps ==
  ASSUME NEW w \in Worlds, NEW last
  PROVE  Keeps(w, EndRun(w, last))
<1> DEFINE told == [w EXCEPT !.session.events = Append(@, AgentEnd)]
           heard == IF w.session.connected THEN createRetryPromiseForAgentEnd(told, last) ELSE w
           idle == [heard EXCEPT !.agent.run = "idle"]
           settling == CallsAt(w, "settling")
           running == CallsAt(w, "running")
           ended == Return(idle, settling)
           waits == [ended EXCEPT !.session.calls = [t \in Text |-> IF t \in running THEN "retrying" ELSE @[t]]]
<1>1. EndRun(w, last) = IF ended.session.retryPromise THEN waits ELSE Return(ended, running)
  BY DEF EndRun
<1>2. idle \in Worlds /\ Keeps(w, idle) /\ idle.session.calls = w.session.calls
  <2>1. AgentEnd \in Known
    BY AgentEndKnown
  <2>2. Append(w.session.events, AgentEnd) \in Seq(Known)
    BY <2>1, AppendProperties DEF Worlds, Sessions
  <2>3. told \in Worlds /\ Rest(told) = Rest(w) /\ told.session.calls = w.session.calls
        /\ told.session.backoff = w.session.backoff /\ told.session.entries = w.session.entries
    BY <2>2 DEF Worlds, Sessions, Rest
  <2> HIDE DEF told
  <2> DEFINE promised == [told EXCEPT !.session.retryPromise = TRUE]
  <2>p. promised \in Worlds /\ Rest(promised) = Rest(told) /\ promised.session.calls = told.session.calls
        /\ promised.session.backoff = told.session.backoff /\ promised.session.entries = told.session.entries
    BY <2>3 DEF Worlds, Sessions, Rest
  <2>h. heard \in {w, told, promised}
    BY DEF createRetryPromiseForAgentEnd
  <2> HIDE DEF promised, heard
  <2>4. heard \in Worlds /\ Rest(heard) = Rest(w) /\ heard.session.calls = w.session.calls
        /\ heard.session.backoff = w.session.backoff /\ heard.session.entries = w.session.entries
    BY <2>3, <2>p, <2>h
  <2>5. idle \in Worlds /\ idle.session = heard.session /\ idle.ui = heard.ui
    BY <2>4 DEF Worlds, Agents
  <2>6. Rest(idle) = Rest(w)
    BY <2>4, <2>5 DEF Rest
  <2> HIDE DEF idle
  <2>7. Keeps(w, idle)
    BY <2>4, <2>5, <2>6, KeepsSame
  <2> QED
    BY <2>4, <2>5, <2>7
<1> HIDE DEF idle, heard, told
<1>3. /\ \A t \in settling \cap Text : idle.session.calls[t] = "settling"
      /\ \A t \in running \cap Text : idle.session.calls[t] = "running"
  BY <1>2, CallsAtAre
<1> HIDE DEF settling, running
<1>4. Keeps(idle, ended) /\ \A t \in Text : ended.session.calls[t] = IF t \in settling THEN "none" ELSE idle.session.calls[t]
  BY <1>2, <1>3, ReturnKeeps
<1> HIDE DEF ended
<1>5. ended \in Worlds
  BY <1>4 DEF Keeps
<1>6. \A t \in running \cap Text : ended.session.calls[t] = "running"
  BY <1>3, <1>4
<1>7. Keeps(ended, waits)
  BY <1>5, <1>6, MoveKeeps DEF Places4Calls
<1>8. Keeps(ended, Return(ended, running))
  BY <1>5, <1>6, ReturnKeeps
<1> HIDE DEF waits
<1>9. Keeps(ended, EndRun(w, last))
  BY <1>1, <1>7, <1>8
<1>10. Keeps(w, ended)
  BY <1>2, <1>4, KeepsTransitive
<1> QED
  BY <1>9, <1>10, KeepsTransitive

LEMMA ResolveKeeps ==
  ASSUME NEW w \in Worlds
  PROVE  Keeps(w, resolveRetry(w)) /\ resolveRetry(w).session.backoff = w.session.backoff
         /\ resolveRetry(w).session.retryAttempt = w.session.retryAttempt
<1> DEFINE waiting == CallsAt(w, "retrying")
           resolved == [w EXCEPT !.session.retryPromise = FALSE]
           goes == [resolved EXCEPT !.session.calls = [t \in Text |-> IF t \in waiting THEN "settling" ELSE @[t]]]
<1>1. resolveRetry(w) = IF isStreaming(w) THEN goes ELSE Return(resolved, waiting)
  BY DEF resolveRetry
<1>2. /\ resolved \in Worlds /\ Rest(resolved) = Rest(w) /\ resolved.session.calls = w.session.calls
      /\ resolved.session.backoff = w.session.backoff /\ resolved.session.entries = w.session.entries
      /\ resolved.session.retryAttempt = w.session.retryAttempt
  BY DEF Worlds, Sessions, Rest
<1> HIDE DEF resolved
<1>3. Keeps(w, resolved)
  BY <1>2, KeepsSame
<1>4. \A t \in waiting \cap Text : resolved.session.calls[t] = "retrying"
  BY <1>2, CallsAtAre
<1> HIDE DEF waiting
<1>5. Keeps(resolved, goes)
  BY <1>2, <1>4, MoveKeeps DEF Places4Calls
<1>6. Keeps(resolved, Return(resolved, waiting))
  BY <1>2, <1>4, ReturnKeeps
<1>7. goes.session.backoff = w.session.backoff /\ goes.session.retryAttempt = w.session.retryAttempt
  BY <1>2 DEF Worlds, Sessions
<1>8. Return(resolved, waiting).session.backoff = w.session.backoff
      /\ Return(resolved, waiting).session.retryAttempt = w.session.retryAttempt
  BY <1>2 DEF Worlds, Sessions, Return
<1> HIDE DEF goes
<1>9. Keeps(resolved, resolveRetry(w))
  BY <1>1, <1>5, <1>6
<1>10. Keeps(w, resolveRetry(w))
  BY <1>3, <1>9, KeepsTransitive
<1> QED
  BY <1>1, <1>7, <1>8, <1>10

LEMMA AbortRetryKeeps ==
  ASSUME NEW w \in Worlds
  PROVE  Keeps(w, abortRetry(w))
<1> DEFINE b == IF w.session.backoff = "sleeping" THEN "aborted" ELSE w.session.backoff
           s == [w.session EXCEPT !.backoff = b]
           v == [w EXCEPT !.session.backoff = b]
<1>1. s \in Sessions /\ v = [w EXCEPT !.session = s] /\ abortRetry(w) = resolveRetry(v)
  BY DEF Worlds, Sessions, abortRetry
<1>2. /\ s.compactions = w.session.compactions /\ s.manual = w.session.manual
      /\ s.cut = w.session.cut /\ s.tree = w.session.tree /\ s.branch = w.session.branch
      /\ s.calls = w.session.calls /\ s.entries = w.session.entries
      /\ (s.backoff # "none" => w.session.backoff # "none")
  BY DEF Worlds, Sessions
<1> HIDE DEF s, v, b
<1>3. Len(w.session.entries) \in Nat
  BY LenProperties DEF Worlds, Sessions
<1>4. Keeps(w, v)
  BY <1>1, <1>2, <1>3, SessionBecomes
<1>5. Keeps(v, resolveRetry(v))
  BY <1>4, ResolveKeeps DEF Keeps
<1> QED
  BY <1>1, <1>4, <1>5, KeepsTransitive

-----------------------------------------------------------------------------
(* Queues, results of commands and timers.                                  *)

LEMMA Numbers == MaxTexts \in Nat /\ MaxRetries \in Nat /\ Text \subseteq Nat \ {0}
BY SessionAssumption DEF Text

LEMMA UserKnown ==
  ASSUME NEW t \in Text, NEW via \in {"steer", "followUp", "prompt"}
  PROVE  User(t, via) \in Known
<1> DEFINE m == [role |-> "user", id |-> t, stop |-> via]
<1>1. m.role = "user" /\ m \in Messages
  BY Numbers DEF Messages, Stops
<1>2. User(t, via) = m
  BY DEF User, Msg
<1> QED
  BY <1>1, <1>2 DEF Known

LEMMA QueueKeeps ==
  ASSUME NEW w \in Worlds, NEW q \in Texts
  PROVE  Keeps(w, Queue(w, q))
<1>1. q.text \in Text /\ User(q.text, "steer") \in Known /\ User(q.text, "followUp") \in Known
  BY UserKnown DEF Texts
<1>2. /\ Append(w.session.steering, q.text) \in Seq(Text)
      /\ Append(w.session.followUp, q.text) \in Seq(Text)
      /\ Append(w.agent.steering, User(q.text, "steer")) \in Seq(Known)
      /\ Append(w.agent.followUp, User(q.text, "followUp")) \in Seq(Known)
  BY <1>1, AppendProperties DEF Worlds, Sessions, Agents
<1> DEFINE v == queueSteer(w, q.text)
           u == queueFollowUp(w, q.text)
<1>3. /\ v \in Worlds /\ Rest(v) = Rest(w) /\ v.session.calls = w.session.calls
      /\ v.session.backoff = w.session.backoff /\ v.session.entries = w.session.entries
  BY <1>2 DEF queueSteer, Worlds, Sessions, Agents, Rest
<1>4. /\ u \in Worlds /\ Rest(u) = Rest(w) /\ u.session.calls = w.session.calls
      /\ u.session.backoff = w.session.backoff /\ u.session.entries = w.session.entries
  BY <1>2 DEF queueFollowUp, Worlds, Sessions, Agents, Rest
<1>5. Queue(w, q) \in {v, u}
  BY DEF Queue
<1> HIDE DEF v, u
<1>6. Keeps(w, v)
  BY <1>3, KeepsSame
<1>7. Keeps(w, u)
  BY <1>4, KeepsSame
<1> QED
  BY <1>5, <1>6, <1>7

\* What queueing one text keeps, queueing all keeps.
LEMMA QueueAllReaches ==
  ASSUME NEW S, NEW w \in S, NEW qs \in Seq(Texts),
         \A x \in S, q \in Texts : Queue(x, q) \in S
  PROVE  QueueAll(w, qs) \in S
<1> DEFINE n == Len(qs)
           g == [p \in (1..n) \X S |-> Queue(p[2], qs[p[1]])]
           Goes(f) == f = [i \in 0..n |-> IF i = 0 THEN w ELSE Queue(f[i - 1], qs[i])]
           queued == CHOOSE f : Goes(f)
<1>1. n \in Nat /\ \A i \in 1..n : qs[i] \in Texts
  BY LenProperties, ElementOfSeq
<1>2. \A i \in 1..n, x \in S : Queue(x, qs[i]) \in S
  BY <1>1
<1>3. \A i \in 1..n, x \in S : g[<<i, x>>] = Queue(x, qs[i]) /\ g[<<i, x>>] \in S
  <2>1. \A i \in 1..n, x \in S : g[<<i, x>>] = Queue(x, qs[i])
    OBVIOUS
  <2> HIDE DEF g
  <2> QED BY <1>2, <2>1
<1>4. w \in S
  OBVIOUS
<1>5. PICK f : Along(f, n, w, g) /\ \A i \in 0..n : f[i] \in S
  <2> HIDE DEF g, n
  <2> QED BY <1>1, <1>3, <1>4, StepsExist
<1>6. Goes(f)
  <2>1. \A i \in 1..n : g[<<i, f[i - 1]>>] = Queue(f[i - 1], qs[i])
    <3>1. \A i \in 1..n : f[i - 1] \in S
      BY <1>1, <1>5
    <3> HIDE DEF g
    <3> QED BY <1>3, <3>1
  <2>2. f = [i \in 0..n |-> IF i = 0 THEN w ELSE g[<<i, f[i - 1]>>]]
    BY <1>5 DEF Along
  <2> HIDE DEF g, n
  <2>3. \A i \in 0..n : i # 0 => i \in 1..n
    BY <1>1
  <2> QED
    BY <2>1, <2>2, <2>3
<1>7. Goes(queued)
  <2> HIDE DEF Goes
  <2> QED BY <1>6, Zenon
<1>8. queued[0] = w /\ \A i \in 1..n : queued[i] = Queue(queued[i - 1], qs[i])
  <2> SUFFICES ASSUME NEW h, Goes(h)
               PROVE  h[0] = w /\ \A i \in 1..n : h[i] = Queue(h[i - 1], qs[i])
    <3> HIDE DEF queued
    <3> QED BY <1>7
  <2>1. 0 \in 0..n /\ \A i \in 1..n : i \in 0..n /\ i # 0
    BY <1>1
  <2> HIDE DEF n
  <2> QED BY <2>1
<1>9. \A i \in 0..n : queued[i] \in S
  <2>1. queued[0] \in S
    <3> HIDE DEF queued
    <3> QED BY <1>4, <1>8
  <2>2. \A i \in 1..n : queued[i - 1] \in S => queued[i] \in S
    <3> HIDE DEF queued
    <3> QED BY <1>2, <1>8
  <2> HIDE DEF queued, n
  <2> QED
    BY <1>1, <2>1, <2>2, StepsReach
<1>10. QueueAll(w, qs) = queued[n]
  BY DEF QueueAll
<1> QED
  BY <1>1, <1>9, <1>10

LEMMA QueueAllKeeps ==
  ASSUME NEW w \in Worlds, NEW qs \in Seq(Texts)
  PROVE  Keeps(w, QueueAll(w, qs))
<1> DEFINE S == {v \in Worlds : Keeps(w, v)}
<1>1. w \in S
  BY KeepsSame
<1>2. \A x \in S, q \in Texts : Queue(x, q) \in S
  <2> SUFFICES ASSUME NEW x \in S, NEW q \in Texts PROVE Queue(x, q) \in S
    OBVIOUS
  <2>1. Keeps(x, Queue(x, q))
    BY QueueKeeps
  <2>2. Keeps(w, Queue(x, q)) /\ Queue(x, q) \in Worlds
    BY <2>1, KeepsTransitive DEF Keeps
  <2> QED
    BY <2>2
<1> HIDE DEF S
<1>3. QueueAll(w, qs) \in S
  BY <1>1, <1>2, QueueAllReaches
<1> QED
  BY <1>3 DEF S

LEMMA ClearQueueKeeps ==
  ASSUME NEW w \in Worlds
  PROVE  Keeps(w, clearQueue(w)) /\ clearQueue(w).ui = w.ui /\ clearQueue(w).session.calls = w.session.calls
<1> DEFINE v == clearQueue(w)
<1>0. <<>> \in Seq(Known) /\ <<>> \in Seq(Text)
  OBVIOUS
<1>1. /\ v \in Worlds /\ Rest(v) = Rest(w) /\ v.session.calls = w.session.calls
      /\ v.session.backoff = w.session.backoff /\ v.session.entries = w.session.entries
      /\ v.ui = w.ui
  BY <1>0 DEF clearQueue, Worlds, Sessions, Agents, Rest
<1> HIDE DEF v
<1>2. Keeps(w, v)
  BY <1>1, KeepsSame
<1> QED
  BY <1>1, <1>2 DEF v

LEMMA AddNowKeeps ==
  ASSUME NEW w \in Worlds, NEW ms \in Seq(Known)
  PROVE  Keeps(w, AddNow(w, ms))
<1> DEFINE v == AddNow(w, ms)
<1>1. /\ w.agent.messages \o ms \in Seq(Known) /\ w.session.entries \o ms \in Seq(Known)
      /\ Len(w.session.entries \o ms) = Len(w.session.entries) + Len(ms)
      /\ Len(ms) \in Nat /\ Len(w.session.entries) \in Nat
  BY ConcatProperties, LenProperties DEF Worlds, Agents, Sessions
<1>2. /\ v \in Worlds /\ Rest(v) = Rest(w) /\ v.session.calls = w.session.calls
      /\ v.session.backoff = w.session.backoff
      /\ v.session.entries = w.session.entries \o ms
  BY <1>1 DEF AddNow, Worlds, Agents, Sessions, Rest
<1> HIDE DEF v
<1>3. Keeps(w, v)
  BY <1>1, <1>2 DEF Keeps, Sleeping
<1> QED
  BY <1>3 DEF v

LEMMA FlushBashKeeps ==
  ASSUME NEW w \in Worlds
  PROVE  Keeps(w, flushPendingBashMessages(w))
<1> DEFINE v == AddNow(w, w.session.pendingBash)
           s == [v.session EXCEPT !.pendingBash = <<>>]
           u == [v EXCEPT !.session.pendingBash = <<>>]
<1>1. Keeps(w, v)
  BY AddNowKeeps DEF Worlds, Sessions
<1> HIDE DEF v
<1>2. v \in Worlds
  BY <1>1 DEF Keeps
<1>0. <<>> \in Seq(Known)
  OBVIOUS
<1>3. /\ u \in Worlds /\ Rest(u) = Rest(v) /\ u.session.calls = v.session.calls
      /\ u.session.backoff = v.session.backoff /\ u.session.entries = v.session.entries
  BY <1>0, <1>2 DEF Worlds, Sessions, Rest
<1>4. flushPendingBashMessages(w) = u
  BY DEF flushPendingBashMessages, v
<1> HIDE DEF u
<1>5. Keeps(v, u)
  BY <1>2, <1>3, KeepsSame
<1> QED
  BY <1>1, <1>4, <1>5, KeepsTransitive

LEMMA ContinueLaterKeeps ==
  ASSUME NEW w \in Worlds
  PROVE  Keeps(w, ContinueLater(w))
<1> DEFINE v == ContinueLater(w)
<1>0. w.session.timers + 1 \in Nat
  BY DEF Worlds, Sessions
<1>1. /\ v \in Worlds /\ Rest(v) = Rest(w) /\ v.session.calls = w.session.calls
      /\ v.session.backoff = w.session.backoff /\ v.session.entries = w.session.entries
  BY <1>0 DEF ContinueLater, Worlds, Sessions, Rest
<1> HIDE DEF v
<1>2. Keeps(w, v)
  BY <1>1, KeepsSame
<1> QED
  BY <1>2 DEF v

-----------------------------------------------------------------------------
(* What else a step may do to a world in order.                             *)

\* The texts of the interface change.
LEMMA UiBecomes ==
  ASSUME NEW w, Orderly(w), NEW u \in Uis, w.ui.submitted <= u.submitted,
         TextsWait([w EXCEPT !.ui = u])
  PROVE  Orderly([w EXCEPT !.ui = u])
<1> DEFINE v == [w EXCEPT !.ui = u]
<1>1. v \in Worlds /\ v.session = w.session /\ v.ui = u
  BY DEF Orderly, Worlds
<1>2. TextsWait(v)
  OBVIOUS
<1> HIDE DEF v
<1>3. RunnersWait(v) /\ SummariesLand(v)
  BY <1>1 DEF Orderly, RunnersWait, SummariesLand, Running, Sleeping
<1>4. CallsSubmitted(v)
  <2>1. u.submitted \in Nat /\ w.ui.submitted \in Nat /\ Text \subseteq Nat
    BY Numbers DEF Orderly, Worlds, Uis
  <2> QED
    BY <1>1, <2>1 DEF Orderly, CallsSubmitted
<1>5. Orderly(v)
  BY <1>1, <1>2, <1>3, <1>4 DEF Orderly
<1> QED
  BY <1>5 DEF v

\* A summary starts, lands or goes.
LEMMA SummaryBecomes ==
  ASSUME NEW w, Orderly(w), NEW s \in Sessions,
         s.compactions = w.session.compactions, s.calls = w.session.calls,
         s.backoff = w.session.backoff,
         s.manual = "summary" => s.cut # 0,
         s.tree = "summary" => s.branch <= Len(s.entries)
  PROVE  Orderly([w EXCEPT !.session = s])
<1> DEFINE v == [w EXCEPT !.session = s]
<1>1. v \in Worlds /\ v.session = s /\ v.ui = w.ui
  BY DEF Orderly, Worlds
<1> HIDE DEF v
<1>2. RunnersWait(v)
  BY <1>1 DEF Orderly, RunnersWait, Running, Sleeping
<1>3. CallsSubmitted(v) /\ TextsWait(v) /\ SummariesLand(v)
  BY <1>1 DEF Orderly, CallsSubmitted, TextsWait, SummariesLand, Listed
<1>4. Orderly(v)
  BY <1>1, <1>2, <1>3 DEF Orderly
<1> QED
  BY <1>4 DEF v

\* A text that may be prompted: nobody else has it.
Sendable(w, t) ==
  /\ w.session.calls[t] = "none" /\ t <= w.ui.submitted
  /\ \A i \in DOMAIN w.ui.queued : w.ui.queued[i].text # t
  /\ \A i \in DOMAIN w.ui.flushed : i > 1 => w.ui.flushed[i].text # t

\* A world in which an event's handler, or a prompt, may start a compaction.
Free(w, r) ==
  /\ Orderly(w)
  /\ r = Events => ~Sleeping(w) /\ \A c \in Running(w) : c.runner # Events
  /\ r \in Text => Sendable(w, r)

\* The same world with the compaction started, and the prompt not yet put to
\* wait for it.
Begun(w, r) ==
  /\ w \in Worlds /\ CallsSubmitted(w) /\ TextsWait(w) /\ SummariesLand(w)
  /\ \A c, d \in Running(w) : c.runner = d.runner => c = d
  /\ \A c \in Running(w) : c.runner \in Text \ {r} => w.session.calls[c.runner] = "compacting"
  /\ Sleeping(w) => \A c \in Running(w) : c.runner # Events
  /\ r \in Text => Sendable(w, r)

Called(w, t) ==
  [w EXCEPT !.session.calls[t] =
     IF \E c \in Running(w) : c.runner = t THEN "compacting" ELSE "starting"]

LEMMA EventsIsNoText == Events \notin Text
BY Numbers DEF Events

LEMMA FreeIsBegun ==
  ASSUME NEW w, NEW r, Free(w, r)
  PROVE  Begun(w, r)
BY DEF Free, Begun, Orderly, RunnersWait

LEMMA KeepsFree ==
  ASSUME NEW w, NEW r \in {Events} \cup Text, Free(w, r), NEW v, Keeps(w, v)
  PROVE  Free(v, r)
<1>1. Orderly(v)
  BY KeepsOrder DEF Free
<1>2. /\ v.session.compactions = w.session.compactions
      /\ v.ui.submitted = w.ui.submitted /\ v.ui.queued = w.ui.queued /\ v.ui.flushed = w.ui.flushed
      /\ Sleeping(v) => Sleeping(w)
  BY DEF Keeps, Rest
<1>3. r = Events => ~Sleeping(v) /\ \A c \in Running(v) : c.runner # Events
  BY <1>2 DEF Free, Running
<1>4. r \in Text => v.session.calls[r] = w.session.calls[r]
  BY DEF Keeps, Free, Sendable
<1>5. r \in Text => Sendable(v, r)
  BY <1>2, <1>4 DEF Free, Sendable
<1> QED
  BY <1>1, <1>3, <1>5 DEF Free

LEMMA ControllerKeeps ==
  ASSUME NEW w \in Worlds, NEW r \in {Nobody, Events} \cup Text
  PROVE  Keeps(w, [w EXCEPT !.session.controller = r])
<1> DEFINE v == [w EXCEPT !.session.controller = r]
<1>1. /\ v \in Worlds /\ Rest(v) = Rest(w) /\ v.session.calls = w.session.calls
      /\ v.session.backoff = w.session.backoff /\ v.session.entries = w.session.entries
  BY DEF Worlds, Sessions, Rest
<1> HIDE DEF v
<1>2. Keeps(w, v)
  BY <1>1, KeepsSame
<1> QED
  BY <1>2 DEF v

\* A compaction starts.
LEMMA StartBegins ==
  ASSUME NEW w, NEW r \in {Events} \cup Text, Free(w, r),
         NEW reason \in {"threshold", "overflow"}, NEW first \in Nat \ {0},
         NEW v, v = [[w EXCEPT !.session.controller = r] EXCEPT !.session.compactions = @ \cup
           {[runner |-> r, reason |-> reason, first |-> first, aborted |-> FALSE]}]
  PROVE  Begun(v, r)
<1> DEFINE c0 == [runner |-> r, reason |-> reason, first |-> first, aborted |-> FALSE]
<1>0. w \in Worlds
  BY DEF Free, Orderly
<1>1. c0 \in Started /\ c0.runner = r
  BY DEF Started
<1> HIDE DEF c0
<1>2. /\ v \in Worlds /\ v.session.compactions = w.session.compactions \cup {c0}
      /\ v.session.calls = w.session.calls /\ v.session.backoff = w.session.backoff
      /\ v.session.manual = w.session.manual /\ v.session.cut = w.session.cut
      /\ v.session.tree = w.session.tree /\ v.session.branch = w.session.branch
      /\ v.session.entries = w.session.entries /\ v.ui = w.ui
  BY <1>0, <1>1 DEF Worlds, Sessions, c0
<1>3. \A c \in Running(w) : c.runner # r
  <2>1. CASE r = Events
    BY <2>1 DEF Free
  <2>2. CASE r \in Text
    BY <2>2 DEF Free, Sendable, Orderly, RunnersWait
  <2> QED
    BY <2>1, <2>2
<1>4. \A c, d \in Running(v) : c.runner = d.runner => c = d
  BY <1>1, <1>2, <1>3 DEF Running, Free, Orderly, RunnersWait
<1>5. \A c \in Running(v) : c.runner \in Text \ {r} => v.session.calls[c.runner] = "compacting"
  BY <1>1, <1>2 DEF Running, Free, Orderly, RunnersWait
<1>6. Sleeping(v) => \A c \in Running(v) : c.runner # Events
  BY <1>1, <1>2, EventsIsNoText DEF Running, Free, Orderly, RunnersWait, Sleeping
<1>7. CallsSubmitted(v) /\ TextsWait(v) /\ SummariesLand(v)
  BY <1>2 DEF Free, Orderly, CallsSubmitted, TextsWait, SummariesLand, Listed
<1>8. r \in Text => Sendable(v, r)
  BY <1>2 DEF Free, Sendable
<1> QED
  BY <1>2, <1>4, <1>5, <1>6, <1>7, <1>8 DEF Begun

\* The prompt waits, or goes on.
LEMMA CallOrders ==
  ASSUME NEW w, NEW t \in Text, Begun(w, t)
  PROVE  Orderly(Called(w, t))
<1> DEFINE pc == IF \E c \in Running(w) : c.runner = t THEN "compacting" ELSE "starting"
           v == [w EXCEPT !.session.calls[t] = pc]
<1>0. w \in Worlds /\ pc \in Places4Calls
  BY DEF Begun, Places4Calls
<1>1. /\ v \in Worlds /\ v.session.compactions = w.session.compactions
      /\ v.session.backoff = w.session.backoff
      /\ v.session.manual = w.session.manual /\ v.session.cut = w.session.cut
      /\ v.session.tree = w.session.tree /\ v.session.branch = w.session.branch
      /\ v.session.entries = w.session.entries /\ v.ui = w.ui
  <2> HIDE DEF pc
  <2> QED BY <1>0 DEF Worlds, Sessions
<1>2. \A u \in Text : v.session.calls[u] = IF u = t THEN pc ELSE w.session.calls[u]
  <2> HIDE DEF pc
  <2> QED BY <1>0 DEF Worlds, Sessions
<1>v. Called(w, t) = v
  BY DEF Called
<1> HIDE DEF v
<1>3. RunnersWait(v)
  BY <1>1, <1>2 DEF Begun, RunnersWait, Running, Sleeping
<1>4. CallsSubmitted(v)
  BY <1>1, <1>2 DEF Begun, CallsSubmitted, Sendable
<1>5. \A i \in DOMAIN w.ui.queued : w.ui.queued[i].text \in Text
  BY <1>0, TextsTyped DEF Worlds, Uis
<1>6. \A i \in DOMAIN w.ui.flushed : w.ui.flushed[i].text \in Text
  BY <1>0, TextsTyped DEF Worlds, Uis
<1>7. Listed(v, v.ui.queued) /\ Listed(v, v.ui.flushed)
  BY <1>1 DEF Begun, TextsWait, Listed
<1>8. Sendable(w, t)
  BY DEF Begun
<1>9. TextsWait(v)
  BY <1>1, <1>2, <1>5, <1>6, <1>7, <1>8 DEF Begun, TextsWait, Sendable
<1>10. SummariesLand(v)
  BY <1>1 DEF Begun, SummariesLand
<1> QED
  BY <1>1, <1>v, <1>3, <1>4, <1>9, <1>10 DEF Orderly

-----------------------------------------------------------------------------
(* Checks, prompts and the texts kept during a compaction.                  *)

Checkings == [should : BOOLEAN, first : Nat]

\* Nothing but a compaction of r's has begun.
Begins(w, v, r) ==
  /\ v.session.calls = w.session.calls /\ v.ui = w.ui
  /\ v.session.backoff = w.session.backoff
  /\ Running(w) \subseteq Running(v)
  /\ \A c \in Running(v) : c \in Running(w) \/ c.runner = r

LEMMA BegunForEvent ==
  ASSUME NEW w, Begun(w, Events)
  PROVE  Orderly(w)
<1>1. Text \ {Events} = Text
  BY EventsIsNoText
<1> QED
  BY <1>1 DEF Begun, Orderly, RunnersWait

LEMMA PlainRun ==
  ASSUME NEW w, NEW r \in {Events} \cup Text, Free(w, r),
         NEW reason \in {"threshold", "overflow"}, NEW first \in Nat
  PROVE  LET v == CompactHearing(w, r, reason, first, LAMBDA x : x) IN
         Begun(v, r) /\ Begins(w, v, r)
<1> DEFINE v == CompactHearing(w, r, reason, first, LAMBDA x : x)
           a == [w EXCEPT !.session.controller = r]
           b == [a EXCEPT !.session.controller = Nobody]
           c == [a EXCEPT !.session.compactions = @ \cup
                  {[runner |-> r, reason |-> reason, first |-> first, aborted |-> FALSE]}]
<1>0. w \in Worlds
  BY DEF Free, Orderly
<1>1. v = IF first = 0 THEN b ELSE c
  BY DEF CompactHearing, runAutoCompaction
<1>2. a \in Worlds /\ Keeps(w, a)
  <2>1. Keeps(w, a)
    BY <1>0, ControllerKeeps
  <2> HIDE DEF a
  <2> QED BY <2>1 DEF Keeps
<1>3. Free(b, r)
  <2> HIDE DEF a, b
  <2>1. Keeps(a, b)
    BY <1>2, ControllerKeeps DEF b
  <2>2. Keeps(w, b)
    BY <1>0, <1>2, <2>1, KeepsTransitive
  <2> QED
    BY <2>2, KeepsFree
<1>4. ASSUME first # 0 PROVE Begun(c, r)
  <2>1. first \in Nat \ {0}
    BY <1>4
  <2> HIDE DEF c
  <2> QED
    BY <2>1, StartBegins DEF c, a
<1>5. Begun(v, r)
  <2> HIDE DEF v, b, c
  <2>1. Begun(b, r)
    BY <1>3, FreeIsBegun
  <2> QED
    BY <1>1, <1>4, <2>1
<1>6. Begins(w, b, r)
  BY <1>0 DEF Begins, Worlds, Sessions, Running
<1>7. Begins(w, c, r)
  <2> DEFINE c0 == [runner |-> r, reason |-> reason, first |-> first, aborted |-> FALSE]
  <2>1. c0.runner = r
    OBVIOUS
  <2>2. /\ c.session.compactions = w.session.compactions \cup {c0} /\ c.ui = w.ui
        /\ c.session.calls = w.session.calls /\ c.session.backoff = w.session.backoff
    BY <1>0 DEF Worlds, Sessions
  <2> HIDE DEF c, c0
  <2> QED
    BY <2>1, <2>2 DEF Begins, Running
<1>8. Begins(w, v, r)
  <2> HIDE DEF v, b, c
  <2> QED BY <1>1, <1>6, <1>7
<1> HIDE DEF v
<1> QED
  BY <1>5, <1>8 DEF v

\* What a check does to the transcript before it recovers from an overflow.
Recovered(w) ==
  [w EXCEPT !.session.overflowRecoveryAttempted = TRUE, !.agent.messages = TrimAnswer(@)]

LEMMA RecoveredKeeps ==
  ASSUME NEW w \in Worlds, NEW r
  PROVE  Keeps(w, Recovered(w)) /\ Begins(w, Recovered(w), r)
<1> DEFINE v == Recovered(w)
<1>0. TrimAnswer(w.agent.messages) \in Seq(Known)
  BY TrimTyped DEF Worlds, Agents
<1>1. /\ v \in Worlds /\ Rest(v) = Rest(w) /\ v.session.calls = w.session.calls
      /\ v.session.backoff = w.session.backoff /\ v.session.entries = w.session.entries
      /\ v.ui = w.ui /\ v.session.compactions = w.session.compactions
  BY <1>0 DEF Recovered, Worlds, Sessions, Agents, Rest
<1> HIDE DEF v
<1>2. Keeps(w, v)
  BY <1>1, KeepsSame
<1>3. Begins(w, v, r)
  BY <1>1 DEF Begins, Running
<1> QED
  BY <1>2, <1>3 DEF v

LEMMA PlainCheck ==
  ASSUME NEW w, NEW r \in {Events} \cup Text, Free(w, r), NEW stop, NEW check \in Checkings
  PROVE  LET v == CheckHearing(w, stop, r, check, LAMBDA x : x) IN
         Begun(v, r) /\ Begins(w, v, r)
<1> DEFINE v == CheckHearing(w, stop, r, check, LAMBDA x : x)
           a == CompactHearing(Recovered(w), r, "overflow", check.first, LAMBDA x : x)
           b == CompactHearing(w, r, "threshold", check.first, LAMBDA x : x)
<1>0. w \in Worlds /\ check.first \in Nat
  BY DEF Free, Orderly, Checkings
<1>1. v \in {w, a, b}
  BY DEF CheckHearing, Recovered
<1>2. Begun(w, r) /\ Begins(w, w, r)
  BY FreeIsBegun DEF Begins
<1>3. Begun(b, r) /\ Begins(w, b, r)
  BY <1>0, PlainRun
<1>4. Free(Recovered(w), r) /\ Begins(w, Recovered(w), r)
  <2>1. Keeps(w, Recovered(w))
    BY <1>0, RecoveredKeeps
  <2>2. Begins(w, Recovered(w), r)
    BY <1>0, RecoveredKeeps
  <2> QED
    BY <2>1, <2>2, KeepsFree
<1>5. Begun(a, r) /\ Begins(Recovered(w), a, r)
  BY <1>0, <1>4, PlainRun
<1> HIDE DEF v, a, b
<1>6. Begins(w, a, r)
  BY <1>4, <1>5 DEF Begins
<1>7. Begun(v, r) /\ Begins(w, v, r)
  BY <1>1, <1>2, <1>3, <1>5, <1>6
<1> QED
  BY <1>7 DEF v

\* A prompt that sends none of the texts kept during a compaction.
LEMMA PlainPrompt ==
  ASSUME NEW w, NEW t \in Text, Free(w, t), NEW check \in Checkings
  PROVE  LET v == PromptHearing(w, t, check, LAMBDA x : x) IN
         /\ Orderly(v) /\ v.ui = w.ui
         /\ \A u \in Text \ {t} : v.session.calls[u] = w.session.calls[u]
         /\ Sleeping(v) => Sleeping(w)
         /\ Running(w) \subseteq Running(v)
         /\ \A c \in Running(v) : c \in Running(w) \/ c.runner = t
<1> DEFINE v == PromptHearing(w, t, check, LAMBDA x : x)
           f == flushPendingBashMessages(w)
           last == SelectLastInSeq(f.agent.messages, IsAnswer)
           d == CheckHearing(f, f.agent.messages[last].stop, t, check, LAMBDA x : x)
           e == IF last = 0 \/ "precheck" \notin Uses THEN f ELSE d
<1>0. w \in Worlds
  BY DEF Free, Orderly
<1>1. v = Called(e, t)
  BY DEF PromptHearing, Called
<1>2. Keeps(w, f) /\ Free(f, t)
  BY <1>0, FlushBashKeeps, KeepsFree
<1>3. Begun(d, t) /\ Begins(f, d, t)
  <2> HIDE DEF f, last
  <2> QED BY <1>2, PlainCheck
<1>4. Begun(f, t) /\ Begins(f, f, t)
  <2> HIDE DEF f
  <2> QED BY <1>2, FreeIsBegun DEF Begins
<1>5. e \in {f, d}
  OBVIOUS
<1>6. /\ f.session.compactions = w.session.compactions /\ f.session.calls = w.session.calls
      /\ f.ui = w.ui /\ f.session.backoff = w.session.backoff
  BY <1>0 DEF flushPendingBashMessages, AddNow, Worlds, Sessions
<1> HIDE DEF v, e, d, f
<1>7. Begun(e, t) /\ Begins(f, e, t)
  BY <1>3, <1>4, <1>5
<1>8. Orderly(v)
  BY <1>1, <1>7, CallOrders
<1>9. /\ v.session.compactions = e.session.compactions /\ v.ui = e.ui
      /\ v.session.backoff = e.session.backoff
      /\ \A u \in Text \ {t} : v.session.calls[u] = e.session.calls[u]
  <2>1. e \in Worlds
    BY <1>7 DEF Begun
  <2> QED
    BY <1>1, <2>1 DEF Called, Worlds, Sessions
<1>10. /\ Orderly(v) /\ v.ui = w.ui
       /\ \A u \in Text \ {t} : v.session.calls[u] = w.session.calls[u]
       /\ Sleeping(v) => Sleeping(w)
       /\ Running(w) \subseteq Running(v)
       /\ \A c \in Running(v) : c \in Running(w) \/ c.runner = t
  BY <1>6, <1>7, <1>8, <1>9 DEF Begins, Running, Sleeping
<1> QED
  BY <1>10 DEF v

\* The texts kept during a compaction are sent or queued.
LEMMA FlushOrders ==
  ASSUME NEW w, Orderly(w), NEW willRetry, NEW check \in Checkings
  PROVE  LET v == flushCompactionQueue(w, willRetry, check) IN
         /\ Orderly(v) /\ Running(w) \subseteq Running(v)
         /\ \A r \in {Events} \cup Text : Free(w, r) => Free(v, r)
<1> DEFINE v == flushCompactionQueue(w, willRetry, check)
           queued == w.ui.queued
           emptied == [w EXCEPT !.ui.queued = <<>>]
           e == [w.ui EXCEPT !.queued = <<>>]
           sending == [emptied EXCEPT !.ui.flushed = queued]
           s == [w.ui EXCEPT !.queued = <<>>, !.flushed = queued]
           h == Head(queued).text
           p == PromptHearing(sending, h, check, LAMBDA x : x)
           Good(u) == /\ Orderly(u) /\ Running(w) \subseteq Running(u)
                      /\ \A r \in {Events} \cup Text : Free(w, r) => Free(u, r)
<1>0. w \in Worlds /\ queued \in Seq(Texts) /\ <<>> \in Seq(Texts)
  BY DEF Orderly, Worlds, Uis
<1>1. v = IF queued = <<>> THEN w
          ELSE IF willRetry THEN QueueAll(emptied, queued) ELSE QueueAll(p, Tail(queued))
  BY DEF flushCompactionQueue
<1>2. ASSUME NEW u, Good(u), NEW qs \in Seq(Texts)
      PROVE  Good(QueueAll(u, qs))
  <2>1. u \in Worlds
    BY <1>2 DEF Orderly
  <2>2. Keeps(u, QueueAll(u, qs))
    BY <2>1, QueueAllKeeps
  <2> DEFINE x == QueueAll(u, qs)
  <2>3. Keeps(u, x)
    BY <2>2
  <2> HIDE DEF x
  <2>4. Orderly(x)
    BY <1>2, <2>3, KeepsOrder
  <2>5. x.session.compactions = u.session.compactions
    BY <2>3 DEF Keeps, Rest
  <2>6. \A r \in {Events} \cup Text : Free(u, r) => Free(x, r)
    BY <2>3, KeepsFree
  <2>7. Good(x)
    BY <1>2, <2>4, <2>5, <2>6 DEF Running
  <2> QED
    BY <2>7 DEF x
<1>3. Good(w)
  OBVIOUS
<1>4. e \in Uis /\ emptied = [w EXCEPT !.ui = e] /\ e.queued = <<>> /\ e.flushed = w.ui.flushed
      /\ e.submitted = w.ui.submitted
  BY <1>0 DEF Worlds, Uis
<1>5. s \in Uis /\ sending = [w EXCEPT !.ui = s] /\ s.queued = <<>> /\ s.flushed = queued
      /\ s.submitted = w.ui.submitted
  BY <1>0 DEF Worlds, Uis
<1>n. w.ui.submitted \in Nat
  BY <1>0 DEF Worlds, Uis
<1>6. Good(emptied)
  <2>1. /\ emptied.session = w.session /\ emptied.ui = e
    BY <1>0, <1>4 DEF Worlds
  <2> HIDE DEF emptied, e
  <2>2. TextsWait(emptied)
    BY <1>4, <2>1 DEF TextsWait, Listed, Orderly
  <2>3. Orderly(emptied)
    BY <1>4, <1>n, <2>2, UiBecomes
  <2>4. ASSUME NEW r \in {Events} \cup Text, Free(w, r) PROVE Free(emptied, r)
    BY <1>4, <2>1, <2>3, <2>4 DEF Free, Sendable, Sleeping, Running
  <2>5. Running(w) \subseteq Running(emptied)
    BY <2>1 DEF Running
  <2> QED
    BY <2>3, <2>4, <2>5
<1>7. ASSUME queued # <<>> PROVE Good(p)
  <2>1. h \in Text /\ h = queued[1].text /\ 1 \in DOMAIN queued
    <3>1. Len(queued) \in Nat /\ Len(queued) # 0 /\ DOMAIN queued = 1..Len(queued)
      BY <1>0, <1>7, EmptySeq, LenProperties
    <3>2. Head(queued) = queued[1] /\ queued[1] \in Texts
      BY <1>0, <3>1, ElementOfSeq
    <3> QED
      BY <3>1, <3>2 DEF Texts
  <2>2. sending.session = w.session /\ sending.ui = s
    BY <1>0, <1>5 DEF Worlds
  <2>o. /\ Listed(w, queued) /\ \A i \in DOMAIN queued : w.session.calls[queued[i].text] = "none"
    BY DEF Orderly, TextsWait
  <2> HIDE DEF sending, s, h, queued
  <2>3. TextsWait(sending)
    BY <1>5, <2>2, <2>o DEF TextsWait, Listed
  <2>4. Orderly(sending)
    BY <1>5, <1>n, <2>3, UiBecomes
  <2>i. \A i \in DOMAIN queued : i > 1 => i # 1
    BY <1>0, LenProperties
  <2>5. Sendable(sending, h)
    BY <1>5, <2>1, <2>2, <2>o, <2>i DEF Sendable, Listed
  <2>e. h # Events
    BY <2>1, EventsIsNoText
  <2>6. Free(sending, h)
    BY <2>4, <2>5, <2>e DEF Free
  <2>7. /\ Orderly(p) /\ p.ui = sending.ui
        /\ \A u \in Text \ {h} : p.session.calls[u] = sending.session.calls[u]
        /\ Sleeping(p) => Sleeping(sending)
        /\ Running(sending) \subseteq Running(p)
        /\ \A c \in Running(p) : c \in Running(sending) \/ c.runner = h
    BY <2>1, <2>6, PlainPrompt
  <2> HIDE DEF p
  <2>8. ASSUME NEW r \in {Events} \cup Text, Free(w, r) PROVE Free(p, r)
    <3>1. r = Events => ~Sleeping(p) /\ \A c \in Running(p) : c.runner # Events
      BY <2>2, <2>7, <2>8, <2>e DEF Free, Sleeping, Running
    <3>2. ASSUME r \in Text PROVE Sendable(p, r)
      <4>1. Sendable(w, r)
        BY <2>8, <3>2 DEF Free
      <4>2. \A i \in DOMAIN queued : queued[i].text # r
        BY <4>1 DEF Sendable, queued
      <4>3. h # r
        BY <2>1, <4>2
      <4>4. p.session.calls[r] = "none"
        BY <2>2, <2>7, <3>2, <4>1, <4>3 DEF Sendable
      <4> QED
        BY <1>5, <2>2, <2>7, <4>1, <4>2, <4>4 DEF Sendable
    <3> QED
      BY <2>7, <3>1, <3>2 DEF Free
  <2>9. Running(w) \subseteq Running(p)
    BY <2>2, <2>7 DEF Running
  <2> QED
    BY <2>7, <2>8, <2>9
<1>8. queued # <<>> => Tail(queued) \in Seq(Texts)
  BY <1>0, HeadTailProperties
<1> HIDE DEF Good, v, p, emptied, queued
<1>9. Good(v)
  BY <1>0, <1>1, <1>2, <1>3, <1>6, <1>7, <1>8
<1> QED
  BY <1>9 DEF Good, v

\* A check behind which the texts kept are sent.
LEMMA CheckBegins ==
  ASSUME NEW w, NEW r \in {Events} \cup Text, Free(w, r), NEW stop, NEW check \in Checkings,
         NEW later \in Checkings
  PROVE  Begun(checkCompaction(w, stop, r, check, later), r)
<1> DEFINE v == checkCompaction(w, stop, r, check, later)
           Flushed(u) == flushCompactionQueue(u, FALSE, later)
           Run(u, reason) == CompactHearing(u, r, reason, check.first, LAMBDA x : flushCompactionQueue(x, FALSE, later))
<1>0. w \in Worlds /\ check.first \in Nat
  BY DEF Free, Orderly, Checkings
<1>1. v \in {w, Flushed(w), Run(Recovered(w), "overflow"), Run(w, "threshold")}
  BY DEF checkCompaction, CheckHearing, Recovered
<1>2. ASSUME NEW u, Free(u, r) PROVE Free(Flushed(u), r)
  BY <1>2, FlushOrders DEF Free
<1>3. ASSUME NEW u, Free(u, r), NEW reason \in {"threshold", "overflow"}
      PROVE  Begun(Run(u, reason), r)
  <2> DEFINE a == [u EXCEPT !.session.controller = r]
             b == [Flushed(a) EXCEPT !.session.controller = Nobody]
             c == [a EXCEPT !.session.compactions = @ \cup
                    {[runner |-> r, reason |-> reason, first |-> check.first, aborted |-> FALSE]}]
  <2>0. u \in Worlds
    BY <1>3 DEF Free, Orderly
  <2>1. Run(u, reason) = IF check.first = 0 THEN b ELSE c
    BY DEF CompactHearing, runAutoCompaction
  <2>2. Free(a, r)
    <3>1. Keeps(u, a)
      BY <2>0, ControllerKeeps
    <3> HIDE DEF a
    <3> QED
      BY <1>3, <3>1, KeepsFree
  <2>3. Free(Flushed(a), r)
    <3> HIDE DEF a, Flushed
    <3> QED BY <1>2, <2>2
  <2>4. Free(b, r)
    <3> HIDE DEF Flushed, a
    <3>1. Flushed(a) \in Worlds
      BY <2>3 DEF Free, Orderly
    <3>2. Keeps(Flushed(a), b)
      BY <3>1, ControllerKeeps
    <3> HIDE DEF b
    <3> QED
      BY <2>3, <3>2, KeepsFree
  <2>5. ASSUME check.first # 0 PROVE Begun(c, r)
    <3>1. check.first \in Nat \ {0}
      BY <1>0, <2>5
    <3> HIDE DEF c
    <3> QED
      BY <1>3, <3>1, StartBegins DEF c, a
  <2> HIDE DEF Run, b, c
  <2>6. Begun(b, r)
    BY <2>4, FreeIsBegun
  <2> QED
    BY <2>1, <2>5, <2>6
<1>4. Free(Recovered(w), r)
  BY <1>0, RecoveredKeeps, KeepsFree
<1> HIDE DEF v, Flushed, Run
<1>5. Begun(w, r) /\ Begun(Flushed(w), r)
  BY <1>2, FreeIsBegun
<1>6. Begun(Run(Recovered(w), "overflow"), r) /\ Begun(Run(w, "threshold"), r)
  BY <1>3, <1>4
<1>7. Begun(v, r)
  BY <1>1, <1>5, <1>6
<1> QED
  BY <1>7 DEF v

\* A prompt of the user's.
LEMMA PromptOrders ==
  ASSUME NEW w, NEW t \in Text, Free(w, t), NEW check \in Checkings
  PROVE  Orderly(prompt(w, t, check))
<1> DEFINE v == prompt(w, t, check)
           f == flushPendingBashMessages(w)
           last == SelectLastInSeq(f.agent.messages, IsAnswer)
           d == checkCompaction(f, f.agent.messages[last].stop, t, check, NoCheck)
           e == IF last = 0 \/ "precheck" \notin Uses THEN f ELSE d
<1>0. w \in Worlds /\ NoCheck \in Checkings
  BY DEF Free, Orderly, NoCheck, Checkings
<1>1. v = Called(e, t)
  BY DEF prompt, PromptHearing, checkCompaction, Called
<1>2. Free(f, t)
  BY <1>0, FlushBashKeeps, KeepsFree
<1>3. Begun(d, t) /\ Begun(f, t)
  <2> HIDE DEF f, last
  <2> QED BY <1>0, <1>2, CheckBegins, FreeIsBegun
<1> HIDE DEF v, d, f
<1>4. Begun(e, t)
  BY <1>3
<1> HIDE DEF e
<1>5. Orderly(v)
  BY <1>1, <1>4, CallOrders
<1> QED
  BY <1>5 DEF v

-----------------------------------------------------------------------------
(* The end of a compaction, and what an abort gives back.                   *)

LEMMA CompactionKnown ==
  ASSUME NEW first \in Nat \ {0}
  PROVE  Compaction(first) \in Known
<1> DEFINE m == [role |-> "compaction", id |-> first, stop |-> ""]
<1>1. m.role = "compaction" /\ m.id # 0 /\ m \in Messages
  BY DEF Messages, Stops
<1>2. Compaction(first) = m
  BY DEF Compaction, Msg
<1> QED
  BY <1>1, <1>2 DEF Known

\* The world of a path and its context.
LEMMA SavedKeeps ==
  ASSUME NEW w \in Worlds, NEW m \in Known,
         NEW entries, entries = Append(w.session.entries, m)
  PROVE  Keeps(w, [w EXCEPT !.session.entries = entries, !.agent.messages = Context(entries)])
<1> DEFINE v == [w EXCEPT !.session.entries = entries, !.agent.messages = Context(entries)]
<1>1. entries \in Seq(Known) /\ Len(entries) = Len(w.session.entries) + 1
      /\ Len(w.session.entries) \in Nat
  BY AppendProperties, LenProperties DEF Worlds, Sessions
<1>2. Context(entries) \in Seq(Known)
  BY <1>1, ContextTyped
<1>3. /\ v \in Worlds /\ Rest(v) = Rest(w) /\ v.session.calls = w.session.calls
      /\ v.session.backoff = w.session.backoff /\ v.session.entries = entries
  BY <1>1, <1>2 DEF Worlds, Sessions, Agents, Rest
<1> HIDE DEF v
<1>4. Keeps(w, v)
  BY <1>1, <1>3 DEF Keeps, Sleeping
<1> QED
  BY <1>4 DEF v

LEMMA MessagesKeep ==
  ASSUME NEW w \in Worlds, NEW ms \in Seq(Known)
  PROVE  Keeps(w, [w EXCEPT !.agent.messages = ms])
<1> DEFINE a == [w.agent EXCEPT !.messages = ms]
           v == [w EXCEPT !.agent.messages = ms]
<1>1. a \in Agents /\ v = [w EXCEPT !.agent = a]
  BY DEF Worlds, Agents
<1> HIDE DEF v, a
<1>2. Keeps(w, v)
  BY <1>1, AgentBecomes
<1> QED
  BY <1>2 DEF v

LEMMA CompactedOrders ==
  ASSUME NEW w, Orderly(w), NEW c \in Running(w)
  PROVE  Orderly(Compacted(w, c)) /\ Running(w) \subseteq Running(Compacted(w, c))
<1> DEFINE entries == Append(w.session.entries, Compaction(c.first))
           saved == [w EXCEPT !.session.entries = entries, !.agent.messages = Context(entries)]
           willRetry == c.reason = "overflow"
           sent == flushCompactionQueue(saved, willRetry, NoCheck)
           front == [sent EXCEPT !.agent.messages = Front(@)]
           v == Compacted(w, c)
<1>1. v \in {sent, ContinueLater(sent), ContinueLater(front)}
  BY DEF Compacted
<1>2. w \in Worlds /\ c.first \in Nat \ {0} /\ NoCheck \in Checkings
  BY DEF Orderly, Worlds, Sessions, Running, Started, NoCheck, Checkings
<1>3. Keeps(w, saved)
  BY <1>2, CompactionKnown, SavedKeeps
<1> HIDE DEF saved, v, willRetry
<1>4. Orderly(saved) /\ Running(saved) = Running(w)
  BY <1>3, KeepsOrder DEF Keeps, Rest, Running
<1>5. Orderly(sent) /\ Running(w) \subseteq Running(sent)
  BY <1>2, <1>4, FlushOrders
<1> HIDE DEF sent
<1>6. sent \in Worlds
  BY <1>5 DEF Orderly
<1>7. Keeps(sent, front)
  <2>1. sent.agent.messages \in Seq(Known) /\ Len(sent.agent.messages) \in Nat
    BY <1>6, LenProperties DEF Worlds, Agents
  <2>2. Front(sent.agent.messages) \in Seq(Known)
    BY <2>1, SubSeqTyped DEF Front
  <2>3. front = [sent EXCEPT !.agent.messages = Front(sent.agent.messages)]
    OBVIOUS
  <2> HIDE DEF front
  <2> QED BY <1>6, <2>2, <2>3, MessagesKeep
<1> HIDE DEF front
<1>8. front \in Worlds
  BY <1>7 DEF Keeps
<1>9. Keeps(sent, sent) /\ Keeps(sent, ContinueLater(sent)) /\ Keeps(sent, ContinueLater(front))
  BY <1>6, <1>7, <1>8, KeepsSame, ContinueLaterKeeps, KeepsTransitive
<1>10. Keeps(sent, v)
  BY <1>1, <1>9
<1>11. Orderly(v)
  BY <1>5, <1>10, KeepsOrder
<1>12. Running(v) = Running(sent)
  BY <1>10 DEF Keeps, Rest, Running
<1> QED
  BY <1>5, <1>11, <1>12 DEF v

LEMMA FinishedOrders ==
  ASSUME NEW w, Orderly(w), NEW c \in Running(w)
  PROVE  Orderly(Finished(w, c))
<1> DEFINE over == [w EXCEPT !.session.compactions = @ \ {c}, !.session.controller = Nobody]
           r == c.runner
           calls == [w.session.calls EXCEPT ![r] = "starting"]
           on == [over EXCEPT !.session.calls[r] = "starting"]
           v == IF r = Events THEN over ELSE on
<1>0. w \in Worlds /\ c \in Started /\ r \in {Events} \cup Text /\ Running(w) \subseteq Started
  BY DEF Orderly, Worlds, Sessions, Running, Started
<1>1. /\ over \in Worlds /\ over.session.compactions = Running(w) \ {c}
      /\ over.session.calls = w.session.calls /\ over.session.backoff = w.session.backoff
      /\ over.session.manual = w.session.manual /\ over.session.cut = w.session.cut
      /\ over.session.tree = w.session.tree /\ over.session.branch = w.session.branch
      /\ over.session.entries = w.session.entries /\ over.ui = w.ui
  <2>1. Running(w) \ {c} \in SUBSET Started
    BY <1>0
  <2> QED
    BY <1>0, <2>1 DEF Worlds, Sessions, Running
<1>2. Finished(w, c) = v
  BY DEF Finished
<1> HIDE DEF over
<1>3. RunnersWait(over) /\ SummariesLand(over) /\ CallsSubmitted(over) /\ TextsWait(over)
  BY <1>1 DEF Orderly, RunnersWait, Running, Sleeping, SummariesLand, CallsSubmitted, TextsWait, Listed
<1>4. Orderly(over)
  BY <1>1, <1>3 DEF Orderly
<1>5. ASSUME r # Events PROVE Orderly(on)
  <2>0. r \in Text /\ w.session.calls[r] = "compacting"
    BY <1>0, <1>5 DEF Orderly, RunnersWait
  <2>1. /\ on \in Worlds /\ on.session.compactions = over.session.compactions
        /\ on.session.calls = calls /\ on.session.backoff = over.session.backoff
        /\ on.session.manual = over.session.manual /\ on.session.cut = over.session.cut
        /\ on.session.tree = over.session.tree /\ on.session.branch = over.session.branch
        /\ on.session.entries = over.session.entries /\ on.ui = over.ui
    <3>1. calls \in [Text -> Places4Calls]
      BY <1>0 DEF Worlds, Sessions, Places4Calls
    <3>2. on = [over EXCEPT !.session.calls = calls]
      BY <1>1 DEF Worlds, Sessions
    <3> HIDE DEF calls, on
    <3> QED
      BY <1>1, <3>1, <3>2 DEF Worlds, Sessions
  <2>2. \A u \in Text : calls[u] = IF u = r THEN "starting" ELSE w.session.calls[u]
    BY <1>0 DEF Worlds, Sessions
  <2> HIDE DEF on, calls, r
  <2>3. \A d \in Running(on) : d \in Running(w) /\ d # c
    BY <1>1, <2>1 DEF Running
  <2>4. \A d \in Running(on) : d.runner # r
    BY <2>3 DEF Orderly, RunnersWait, r
  <2>5. RunnersWait(on)
    <3>1. \A d \in Running(on) : d.runner \in Text => on.session.calls[d.runner] = "compacting"
      BY <2>1, <2>2, <2>3, <2>4 DEF Orderly, RunnersWait
    <3> QED
      BY <1>1, <2>1, <2>3, <3>1 DEF Orderly, RunnersWait, Sleeping
  <2>6. CallsSubmitted(on)
    BY <1>1, <2>0, <2>1, <2>2 DEF Orderly, CallsSubmitted
  <2>7. /\ \A i \in DOMAIN w.ui.queued : w.ui.queued[i].text \in Text
        /\ \A i \in DOMAIN w.ui.flushed : w.ui.flushed[i].text \in Text
    BY <1>0, TextsTyped DEF Worlds, Uis
  <2>8. Listed(on, on.ui.queued) /\ Listed(on, on.ui.flushed)
    BY <1>1, <2>1 DEF Orderly, TextsWait, Listed
  <2>9. TextsWait(on)
    BY <1>1, <2>0, <2>1, <2>2, <2>7, <2>8 DEF Orderly, TextsWait
  <2>10. SummariesLand(on)
    BY <1>1, <2>1 DEF Orderly, SummariesLand
  <2> QED
    BY <2>1, <2>5, <2>6, <2>9, <2>10 DEF Orderly
<1> HIDE DEF on, r
<1>6. Orderly(v)
  BY <1>4, <1>5
<1> QED
  BY <1>2, <1>6

LEMMA ManualEndOrders ==
  ASSUME NEW w, Orderly(w), NEW check \in Checkings
  PROVE  Orderly(ManualEnds(w, check))
<1> DEFINE u == flushCompactionQueue(w, FALSE, check)
           s == [u.session EXCEPT !.manual = "none", !.cut = 0, !.connected = TRUE]
           v == [u EXCEPT !.session.manual = "none", !.session.cut = 0, !.session.connected = TRUE]
<1>1. Orderly(u)
  BY FlushOrders
<1>2. ManualEnds(w, check) = v
  BY DEF ManualEnds
<1> HIDE DEF u
<1>3. /\ s \in Sessions /\ v = [u EXCEPT !.session = s]
      /\ s.compactions = u.session.compactions /\ s.calls = u.session.calls
      /\ s.backoff = u.session.backoff /\ s.manual # "summary"
      /\ s.tree = u.session.tree /\ s.branch = u.session.branch /\ s.entries = u.session.entries
  BY <1>1 DEF Orderly, Worlds, Sessions
<1>4. s.tree = "summary" => s.branch <= Len(s.entries)
  BY <1>1, <1>3 DEF Orderly, SummariesLand
<1> HIDE DEF s, v
<1>5. Orderly(v)
  BY <1>1, <1>3, <1>4, SummaryBecomes
<1> QED
  BY <1>2, <1>5

LEMMA EditorBecomes ==
  ASSUME NEW u \in Uis, NEW more \in SUBSET Text,
         NEW e, e = [u EXCEPT !.queued = <<>>, !.editor = more]
  PROVE  /\ e \in Uis /\ e.submitted = u.submitted /\ e.flushed = u.flushed
         /\ e.queued = <<>> /\ u.submitted \in Nat
<1>1. <<>> \in Seq(Texts)
  OBVIOUS
<1>2. e \in Uis
  BY <1>1 DEF Uis
<1> QED
  BY <1>2 DEF Uis

LEMMA RestoredOrders ==
  ASSUME NEW w, Orderly(w)
  PROVE  Orderly(Restored(w))
<1> DEFINE u == clearQueue(w)
           more == w.ui.editor \cup ToSet(w.session.steering) \cup ToSet(w.session.followUp)
                     \cup {w.ui.queued[i].text : i \in DOMAIN w.ui.queued}
           e == [u.ui EXCEPT !.queued = <<>>, !.editor = more]
           v == [u EXCEPT !.ui.queued = <<>>, !.ui.editor = more]
<1>0. w \in Worlds
  BY DEF Orderly
<1>1. Keeps(w, u) /\ u.ui = w.ui /\ u.session.calls = w.session.calls
  BY <1>0, ClearQueueKeeps
<1>2. more \in SUBSET Text
  <2>1. /\ \A i \in 1..Len(w.session.steering) : w.session.steering[i] \in Text
        /\ \A i \in 1..Len(w.session.followUp) : w.session.followUp[i] \in Text
        /\ DOMAIN w.session.steering = 1..Len(w.session.steering)
        /\ DOMAIN w.session.followUp = 1..Len(w.session.followUp)
    BY <1>0, ElementOfSeq, LenProperties DEF Worlds, Sessions
  <2>2. \A i \in DOMAIN w.ui.queued : w.ui.queued[i].text \in Text
    BY <1>0, TextsTyped DEF Worlds, Uis
  <2>3. w.ui.editor \subseteq Text
    BY <1>0 DEF Worlds, Uis
  <2> QED
    BY <2>1, <2>2, <2>3 DEF ToSet
<1>3. Restored(w) = v
  <2>1. u.ui.editor = w.ui.editor
    BY <1>1
  <2> QED BY <1>1, <2>1 DEF Restored
<1> HIDE DEF more, u
<1>4. Orderly(u)
  BY <1>1, KeepsOrder
<1>5. <<>> \in Seq(Texts)
  OBVIOUS
<1>6. /\ e \in Uis /\ v = [u EXCEPT !.ui = e] /\ e.submitted = u.ui.submitted
      /\ e.flushed = u.ui.flushed /\ e.queued = <<>> /\ v.session = u.session /\ v.ui = e
      /\ u.ui.submitted \in Nat
  <2>1. u \in Worlds /\ u.ui \in Uis
    BY <1>4 DEF Orderly, Worlds
  <2>2. /\ e \in Uis /\ e.submitted = u.ui.submitted /\ e.flushed = u.ui.flushed
        /\ e.queued = <<>> /\ u.ui.submitted \in Nat
    <3> HIDE DEF e
    <3> QED
      BY <1>2, <2>1, EditorBecomes DEF e
  <2>3. v = [u EXCEPT !.ui = e]
    BY <2>1 DEF Worlds, Uis
  <2> HIDE DEF e, v
  <2> QED
    BY <2>1, <2>2, <2>3 DEF Worlds
<1> HIDE DEF e, v
<1>7. TextsWait(v)
  BY <1>4, <1>6 DEF Orderly, TextsWait, Listed
<1>8. Orderly(v)
  BY <1>4, <1>6, <1>7, UiBecomes
<1> QED
  BY <1>3, <1>8

-----------------------------------------------------------------------------
(* The steps.                                                               *)

LEMMA Reaches ==
  ASSUME NEW w, Orderly(w), Becomes(w)
  PROVE  Orderly(World')
<1>1. w = [agent |-> w.agent, session |-> w.session, ui |-> w.ui]
  BY DEF Orderly, Worlds
<1>2. World' = w
  BY <1>1 DEF Becomes, World
<1> QED
  BY <1>2

LEMMA ReachesKept ==
  ASSUME Orderly(World), NEW w, Keeps(World, w), Becomes(w)
  PROVE  Orderly(World')
<1>1. Orderly(w)
  BY KeepsOrder
<1> QED
  BY <1>1, Reaches

LEMMA WorldFields == World.agent = agent /\ World.session = session /\ World.ui = ui
BY DEF World

LEMMA ChecksTyped ==
  ASSUME Orderly(World)
  PROVE  Checks \subseteq Checkings /\ EventChecks \subseteq Checkings
<1>0. World \in Worlds
  BY DEF Orderly
<1>1. Keeps(World, flushPendingBashMessages(World))
  BY <1>0, FlushBashKeeps
<1>2. flushPendingBashMessages(World).session.entries \in Seq(Known)
  BY <1>1 DEF Keeps, Worlds, Sessions
<1>3. session.entries \in Seq(Known)
  BY <1>0, WorldFields DEF Worlds, Sessions
<1>4. /\ Cut(flushPendingBashMessages(World).session.entries) \subseteq Nat
      /\ Cut(session.entries) \subseteq Nat
  BY <1>2, <1>3, CutTyped
<1>5. Growth \subseteq BOOLEAN
  BY DEF Growth
<1> QED
  BY <1>4, <1>5 DEF Checks, EventChecks, Checkings

LEMMA SubmitOrders ==
  ASSUME Orderly(World), Submit
  PROVE  Orderly(World')
<1> DEFINE t == ui.submitted + 1
           w == [World EXCEPT !.ui.submitted = t]
           e == [ui EXCEPT !.submitted = t]
<1>1. PICK mode \in {"steer"} \cup (Uses \cap {"followUp"}), check \in Checks :
        \/ Becomes([w EXCEPT !.ui.queued = Append(@, [text |-> t, mode |-> mode])])
        \/ Becomes(Queue(w, [text |-> t, mode |-> mode]))
        \/ Becomes(prompt([w EXCEPT !.ui.loop = t], t, check))
        \/ Becomes(w)
        \/ Becomes(prompt(w, t, check))
  BY DEF Submit
<1> DEFINE q == [text |-> t, mode |-> mode]
<1>2. /\ ui \in Uis /\ ui.submitted < MaxTexts /\ ui.submitted \in Nat /\ t \in Text
      /\ World \in Worlds /\ check \in Checkings /\ t \in 0..MaxTexts
  <2>1. ui.submitted < MaxTexts
    BY DEF Submit
  <2>2. World \in Worlds
    BY DEF Orderly
  <2>3. ui \in Uis
    BY <2>2 DEF World, Worlds
  <2>4. ui.submitted \in 0..MaxTexts
    BY <2>3 DEF Uis
  <2> QED
    BY <2>1, <2>2, <2>3, <2>4, Numbers, ChecksTyped DEF Text
<1>3. q \in Texts /\ q.text = t
  BY <1>2 DEF Texts
<1>4. e \in Uis /\ e.submitted = t /\ e.queued = ui.queued /\ e.flushed = ui.flushed
  BY <1>2 DEF Uis
<1>5. w = [World EXCEPT !.ui = e] /\ w.ui = e /\ w.session = session /\ w \in Worlds
  BY <1>2, <1>4 DEF World, Worlds
<1> HIDE DEF w, e, q
<1>6. /\ Listed(World, ui.queued) /\ Listed(World, ui.flushed)
      /\ \A i \in DOMAIN ui.queued : session.calls[ui.queued[i].text] = "none"
      /\ \A i \in DOMAIN ui.flushed : i > 1 => session.calls[ui.flushed[i].text] = "none"
  BY WorldFields DEF Orderly, TextsWait
<1>7. /\ \A i \in DOMAIN ui.queued : ui.queued[i].text \in Text /\ ui.queued[i].text <= ui.submitted
      /\ \A i \in DOMAIN ui.flushed : ui.flushed[i].text \in Text /\ ui.flushed[i].text <= ui.submitted
  BY <1>2, <1>6, TextsTyped, WorldFields DEF Uis, Listed
<1> HIDE DEF t
<1>t. t = ui.submitted + 1
  BY DEF t
<1>8. \A u \in Text : u <= ui.submitted => u <= t /\ u # t
  BY <1>2, <1>t, Numbers
<1>9. session.calls[t] = "none"
  <2>1. ~(t <= ui.submitted)
    BY <1>2, <1>t
  <2> QED
    BY <1>2, <2>1, WorldFields DEF Orderly, CallsSubmitted
<1>10. Orderly(w)
  <2>1. TextsWait(w)
    BY <1>4, <1>5, <1>6, <1>7, <1>8 DEF TextsWait, Listed
  <2>2. ui.submitted <= t
    BY <1>2, <1>t
  <2> QED
    BY <1>4, <1>5, <2>1, <2>2, UiBecomes, WorldFields
<1>11. Free(w, t)
  <2>1. Sendable(w, t)
    BY <1>2, <1>4, <1>5, <1>7, <1>8, <1>9 DEF Sendable
  <2> QED
    BY <1>2, <1>10, <2>1, EventsIsNoText DEF Free
<1>12. ASSUME Becomes([w EXCEPT !.ui.queued = Append(@, q)])
       PROVE  Orderly(World')
  <2> DEFINE v == [w EXCEPT !.ui.queued = Append(@, q)]
             qs == Append(ui.queued, q)
             x == [e EXCEPT !.queued = qs]
  <2>1. /\ qs \in Seq(Texts) /\ DOMAIN qs = (DOMAIN ui.queued) \cup {Len(ui.queued) + 1}
        /\ qs[Len(ui.queued) + 1] = q
        /\ \A i \in DOMAIN ui.queued : qs[i] = ui.queued[i]
    <3>1. ui.queued \in Seq(Texts)
      BY <1>2 DEF Uis
    <3>2. qs \in Seq(Texts) /\ Len(qs) = Len(ui.queued) + 1 /\ Len(ui.queued) \in Nat
          /\ DOMAIN qs = 1..(Len(ui.queued) + 1) /\ DOMAIN ui.queued = 1..Len(ui.queued)
      BY <1>3, <3>1, AppendProperties, LenProperties
    <3>3. qs[Len(ui.queued) + 1] = q /\ \A i \in 1..Len(ui.queued) : qs[i] = ui.queued[i]
      BY <1>3, <3>1, AppendProperties
    <3> HIDE DEF qs
    <3> QED
      BY <3>2, <3>3
  <2> HIDE DEF qs
  <2>2. x \in Uis /\ x.submitted = t /\ x.queued = qs /\ x.flushed = ui.flushed
    BY <1>4, <2>1 DEF Uis
  <2>3. v = [w EXCEPT !.ui = x]
    <3>1. v = [w EXCEPT !.ui.queued = qs]
      BY <1>4, <1>5 DEF qs
    <3> HIDE DEF v
    <3> QED
      BY <1>5, <3>1 DEF Worlds
  <2>4. v.ui = x /\ v.session = session
    BY <1>5, <2>3 DEF Worlds
  <2> HIDE DEF v, x
  <2>5. Listed(v, qs)
    <3>1. \A i \in DOMAIN qs : qs[i].text <= t
      <4>1. t \in Int /\ t <= t
        BY <1>2, Numbers
      <4>2. \A i \in DOMAIN ui.queued : qs[i].text <= t
        BY <1>7, <1>8, <2>1
      <4> QED
        BY <1>3, <2>1, <4>1, <4>2
    <3>2. \A i, j \in DOMAIN qs : qs[i].text = qs[j].text => i = j
      BY <1>3, <1>6, <1>7, <1>8, <2>1 DEF Listed
    <3> QED
      BY <2>2, <2>4, <3>1, <3>2 DEF Listed
  <2>6. Listed(v, v.ui.flushed)
    BY <1>6, <1>7, <1>8, <2>2, <2>4 DEF Listed
  <2>7. \A i \in DOMAIN qs : session.calls[qs[i].text] = "none"
    BY <1>3, <1>6, <1>9, <2>1
  <2>8. TextsWait(v)
    BY <1>6, <2>2, <2>4, <2>5, <2>6, <2>7 DEF TextsWait
  <2>9. Orderly(v)
    <3>1. w.ui.submitted <= x.submitted
      BY <1>2, <1>4, <1>5, <2>2, Numbers
    <3> QED
      BY <1>10, <2>2, <2>3, <2>8, <3>1, UiBecomes
  <2> QED
    BY <1>12, <2>9, Reaches DEF v
<1>13. ASSUME Becomes(Queue(w, q)) PROVE Orderly(World')
  <2>1. Keeps(w, Queue(w, q))
    BY <1>3, <1>5, QueueKeeps
  <2>2. Orderly(Queue(w, q))
    BY <1>10, <2>1, KeepsOrder
  <2> QED
    BY <1>13, <2>2, Reaches
<1>14. ASSUME Becomes(prompt([w EXCEPT !.ui.loop = t], t, check))
       PROVE  Orderly(World')
  <2> DEFINE v == [w EXCEPT !.ui.loop = t]
  <2>1. /\ v \in Worlds /\ Rest(v) = Rest(w) /\ v.session.calls = w.session.calls
        /\ v.session.backoff = w.session.backoff /\ v.session.entries = w.session.entries
    BY <1>2, <1>5 DEF Worlds, Uis, Rest
  <2>2. Keeps(w, v)
    <3> HIDE DEF v
    <3> QED BY <1>5, <2>1, KeepsSame
  <2>3. Free(v, t)
    <3> HIDE DEF v
    <3> QED BY <1>2, <1>11, <2>2, KeepsFree
  <2> HIDE DEF v
  <2>4. Orderly(prompt(v, t, check))
    BY <1>2, <2>3, PromptOrders
  <2>5. Becomes(prompt(v, t, check))
    BY <1>14 DEF v
  <2> QED
    BY <2>4, <2>5, Reaches
<1>15. ASSUME Becomes(prompt(w, t, check))
       PROVE  Orderly(World')
  <2>1. Orderly(prompt(w, t, check))
    BY <1>2, <1>11, PromptOrders
  <2> QED
    BY <1>15, <2>1, Reaches
<1>16. ASSUME Becomes(w) PROVE Orderly(World')
  BY <1>10, <1>16, Reaches
<1> QED
  BY <1>1, <1>12, <1>13, <1>14, <1>15, <1>16 DEF q, t

LEMMA StartPromptOrders ==
  ASSUME Orderly(World), NEW t \in Text, StartPrompt(t)
  PROVE  Orderly(World')
<1> DEFINE w == [World EXCEPT !.session.calls[t] = "running"]
           ms == <<User(t, "prompt")>>
           thrown == Return(World, {t})
           cleared == clearQueue(thrown)
           back == [cleared EXCEPT !.ui.queued = ui.flushed]
<1>0. World \in Worlds /\ session.calls[t] = "starting"
  BY DEF Orderly, StartPrompt
<1>1. \/ Becomes(StartRun(w, ms))
      \/ ui.flushed # <<>> /\ Head(ui.flushed).text = t /\ Becomes(back)
      \/ Becomes(thrown)
  BY DEF StartPrompt
<1>2. ASSUME Becomes(StartRun(w, ms)) PROVE Orderly(World')
  <2>1. Keeps(World, w)
    <3> DEFINE s == [session EXCEPT !.calls = [@ EXCEPT ![t] = "running"]]
    <3>1. session \in Sessions
      BY <1>0 DEF World, Worlds
    <3>2. s.calls \in [Text -> Places4Calls] /\ s \in Sessions
      BY <3>1 DEF Sessions, Places4Calls
    <3>3. /\ s.compactions = session.compactions /\ s.manual = session.manual
          /\ s.cut = session.cut /\ s.tree = session.tree /\ s.branch = session.branch
          /\ s.backoff = session.backoff /\ s.entries = session.entries
          /\ \A u \in Text : s.calls[u] = IF u = t THEN "running" ELSE session.calls[u]
      BY <3>1 DEF Sessions
    <3>4. w = [World EXCEPT !.session = s]
      BY <3>1 DEF World, Sessions
    <3>5. Len(session.entries) \in Nat
      BY <3>1, LenProperties DEF Sessions
    <3> HIDE DEF s, w
    <3> QED
      BY <1>0, <3>2, <3>3, <3>4, <3>5, SessionBecomes, WorldFields
  <2>2. ms \in Seq(Known)
    BY UserKnown
  <2> HIDE DEF w, ms
  <2>3. Keeps(w, StartRun(w, ms))
    BY <2>1, <2>2, StartRunKeeps DEF Keeps
  <2>4. Keeps(World, StartRun(w, ms))
    BY <1>0, <2>1, <2>3, KeepsTransitive
  <2> QED
    BY <1>2, <2>4, ReachesKept
<1>3. /\ Keeps(World, thrown)
      /\ \A u \in Text : thrown.session.calls[u] = IF u = t THEN "none" ELSE session.calls[u]
  BY <1>0, WorldFields, ReturnKeeps
<1>4. ASSUME Becomes(thrown) PROVE Orderly(World')
  BY <1>3, <1>4, ReachesKept
<1>5. ASSUME ui.flushed # <<>>, Head(ui.flushed).text = t, Becomes(back) PROVE Orderly(World')
  <2> HIDE DEF thrown
  <2>1. thrown \in Worlds
    BY <1>3 DEF Keeps
  <2>2. Keeps(thrown, cleared) /\ cleared.session.calls = thrown.session.calls
    BY <2>1, ClearQueueKeeps
  <2> HIDE DEF cleared
  <2>3. Keeps(World, cleared)
    BY <1>0, <1>3, <2>2, KeepsTransitive
  <2>4. Orderly(cleared) /\ cleared \in Worlds
    BY <2>3, KeepsOrder DEF Keeps
  <2>5. cleared.ui.flushed = ui.flushed /\ cleared.ui.submitted = ui.submitted
    BY <2>3, WorldFields DEF Keeps, Rest
  <2>6. ui.flushed \in Seq(Texts)
    BY <1>0 DEF World, Worlds, Uis
  <2> DEFINE e == [cleared.ui EXCEPT !.queued = ui.flushed]
  <2>7. /\ e \in Uis /\ back = [cleared EXCEPT !.ui = e] /\ e.queued = ui.flushed
        /\ e.flushed = ui.flushed /\ e.submitted = ui.submitted
    BY <2>4, <2>5, <2>6 DEF Worlds, Uis
  <2>8. back.session = cleared.session /\ back.ui = e
    BY <2>4, <2>7 DEF Worlds
  <2> HIDE DEF back, e
  <2>9. /\ 1 \in DOMAIN ui.flushed /\ ui.flushed[1].text = t
        /\ \A i \in DOMAIN ui.flushed : i = 1 \/ i > 1
        /\ \A i \in DOMAIN ui.flushed : ui.flushed[i].text \in Text
    <3>1. Len(ui.flushed) \in Nat /\ Len(ui.flushed) # 0 /\ DOMAIN ui.flushed = 1..Len(ui.flushed)
      BY <1>5, <2>6, EmptySeq, LenProperties
    <3>2. Head(ui.flushed) = ui.flushed[1]
      BY <2>6, <3>1
    <3>3. \A i \in DOMAIN ui.flushed : ui.flushed[i].text \in Text
      BY <2>6, TextsTyped
    <3> QED
      BY <1>5, <3>1, <3>2, <3>3
  <2>10. \A i \in DOMAIN ui.flushed : cleared.session.calls[ui.flushed[i].text] = "none"
    <3> SUFFICES ASSUME NEW i \in DOMAIN ui.flushed
                 PROVE  cleared.session.calls[ui.flushed[i].text] = "none"
      OBVIOUS
    <3>1. CASE i = 1
      BY <1>3, <2>2, <2>9, <3>1
    <3>2. CASE i > 1
      BY <2>4, <2>5, <3>2 DEF Orderly, TextsWait
    <3> QED
      BY <2>9, <3>1, <3>2
  <2>11. TextsWait(back)
    BY <2>4, <2>5, <2>7, <2>8, <2>10 DEF Orderly, TextsWait, Listed
  <2>12. ui.submitted \in Nat
    BY <1>0 DEF World, Worlds, Uis
  <2>13. Orderly(back)
    BY <2>4, <2>5, <2>7, <2>11, <2>12, UiBecomes
  <2> QED
    BY <1>5, <2>13, Reaches
<1> QED
  BY <1>1, <1>2, <1>4, <1>5

LEMMA AnswerKnown ==
  ASSUME NEW stop \in {"stop", "toolUse", "error", "overflow", "aborted", "fatal"}
  PROVE  Answer(stop) \in Known
<1> DEFINE m == [role |-> "assistant", id |-> 0, stop |-> stop]
<1>1. m.role = "assistant" /\ m \in Messages
  BY DEF Messages, Stops
<1>2. Answer(stop) = m
  BY DEF Answer, Msg
<1> QED
  BY <1>1, <1>2 DEF Known

LEMMA OthersKnown ==
  /\ ToolResult \in Known /\ BashResult \in Known /\ Custom \in Known /\ BranchSummary \in Known
<1> SUFFICES ASSUME NEW role \in {"toolResult", "bash", "custom", "branchSummary"}
             PROVE  Msg(role, 0, "") \in Known
  BY DEF ToolResult, BashResult, Custom, BranchSummary
<1> DEFINE m == [role |-> role, id |-> 0, stop |-> ""]
<1>1. m.role # "compaction" /\ m \in Messages
  BY DEF Messages, Stops
<1>2. Msg(role, 0, "") = m
  BY DEF Msg
<1> QED
  BY <1>1, <1>2 DEF Known

LEMMA AgentAnswersOrders ==
  ASSUME Orderly(World), AgentAnswers
  PROVE  Orderly(World')
<1>0. World \in Worlds
  BY DEF Orderly
<1> DEFINE shows(stop) == [Show(World, Answer(stop)) EXCEPT
                            !.agent.answers = IF stop \in Outcomes THEN @ + 1 ELSE @]
<1>1. PICK stop \in IF agent.aborted THEN {"aborted"}
                    ELSE {"stop"} \cup (IF agent.answers < MaxAnswers THEN Outcomes ELSE {}) :
        Becomes(
             CASE stop = "toolUse" -> [shows(stop) EXCEPT !.agent.run = "tools"]
               [] stop \in {"error", "overflow", "aborted"} -> EndRun(shows(stop), stop)
               [] stop = "stop" ->
                    IF agent.steering # <<>> THEN PollSteering(shows(stop))
                    ELSE IF agent.followUp # <<>> THEN PollFollowUps(shows(stop))
                    ELSE EndRun(shows(stop), stop))
  BY DEF AgentAnswers
<1> DEFINE u == Show(World, Answer(stop))
           v == [u EXCEPT !.agent.answers = IF stop \in Outcomes THEN @ + 1 ELSE @]
           x == [v EXCEPT !.agent.run = "tools"]
<1>2. stop \in {"stop", "toolUse", "error", "overflow", "aborted"}
  BY SessionAssumption
<1>3. Becomes(x) \/ Becomes(EndRun(v, stop)) \/ Becomes(PollSteering(v)) \/ Becomes(PollFollowUps(v))
  <2> HIDE DEF v, x
  <2>1. /\ stop = "toolUse" => Becomes(x)
        /\ stop \in {"error", "overflow", "aborted"} => Becomes(EndRun(v, stop))
        /\ stop = "stop" => Becomes(IF agent.steering # <<>> THEN PollSteering(v)
                                    ELSE IF agent.followUp # <<>> THEN PollFollowUps(v)
                                    ELSE EndRun(v, stop))
    BY <1>1 DEF v, x
  <2>2. stop = "stop" => Becomes(PollSteering(v)) \/ Becomes(PollFollowUps(v)) \/ Becomes(EndRun(v, stop))
    BY <2>1
  <2> QED
    BY <1>2, <2>1, <2>2
<1>4. Keeps(World, u)
  BY <1>0, <1>2, AnswerKnown, ShowKeeps
<1> HIDE DEF u
<1>5. u \in Worlds
  BY <1>4 DEF Keeps
<1>6. Keeps(u, v)
  <2> DEFINE n == IF stop \in Outcomes THEN u.agent.answers + 1 ELSE u.agent.answers
             a == [u.agent EXCEPT !.answers = n]
  <2>1. n \in Nat
    BY <1>5 DEF Worlds, Agents
  <2> HIDE DEF n
  <2>2. a \in Agents
    BY <1>5, <2>1 DEF Worlds, Agents
  <2>3. v = [u EXCEPT !.agent = a]
    BY <1>5 DEF Worlds, Agents, n
  <2> HIDE DEF v, a
  <2> QED BY <1>5, <2>2, <2>3, AgentBecomes
<1> HIDE DEF v
<1>7. v \in Worlds /\ Keeps(World, v)
  BY <1>0, <1>4, <1>6, KeepsTransitive DEF Keeps
<1>8. Keeps(v, x)
  <2> DEFINE a == [v.agent EXCEPT !.run = "tools"]
  <2>1. a \in Agents /\ x = [v EXCEPT !.agent = a]
    BY <1>7 DEF Worlds, Agents
  <2> HIDE DEF x, a
  <2> QED BY <1>7, <2>1, AgentBecomes
<1>9. Keeps(v, EndRun(v, stop)) /\ Keeps(v, PollSteering(v)) /\ Keeps(v, PollFollowUps(v))
  BY <1>7, EndRunKeeps, PollsKeep
<1> HIDE DEF x
<1>10. \A y : Keeps(v, y) => Keeps(World, y)
  BY <1>0, <1>7, KeepsTransitive
<1>11. \A y : Keeps(v, y) /\ Becomes(y) => Orderly(World')
  BY <1>10, ReachesKept
<1> QED
  BY <1>3, <1>8, <1>9, <1>11

LEMMA ToolsFinishOrders ==
  ASSUME Orderly(World), ToolsFinish
  PROVE  Orderly(World')
<1> DEFINE u == Show(World, ToolResult)
           a == [u.agent EXCEPT !.run = "request"]
           v == [u EXCEPT !.agent.run = "request"]
<1>0. World \in Worlds
  BY DEF Orderly
<1>1. Becomes(PollSteering(v))
  BY DEF ToolsFinish
<1>2. Keeps(World, u)
  BY <1>0, OthersKnown, ShowKeeps
<1> HIDE DEF u
<1>3. u \in Worlds
  BY <1>2 DEF Keeps
<1>4. a \in Agents /\ v = [u EXCEPT !.agent = a]
  BY <1>3 DEF Worlds, Agents
<1> HIDE DEF v, a
<1>5. Keeps(u, v)
  BY <1>3, <1>4, AgentBecomes
<1>6. Keeps(v, PollSteering(v)) /\ Keeps(World, v)
  BY <1>0, <1>2, <1>5, PollsKeep, KeepsTransitive DEF Keeps
<1>7. Keeps(World, PollSteering(v))
  BY <1>0, <1>6, KeepsTransitive
<1> QED
  BY <1>1, <1>7, ReachesKept

LEMMA RunFailsOrders ==
  ASSUME Orderly(World), RunFails
  PROVE  Orderly(World')
<1>0. World \in Worlds
  BY DEF Orderly
<1>1. PICK stop \in IF agent.aborted THEN {"fatal"} ELSE {"error", "fatal"} :
        Becomes(EndRun([World EXCEPT !.agent.messages = Append(@, Answer(stop)),
                                     !.agent.answers = @ + 1], stop))
  BY DEF RunFails
<1> DEFINE ms == Append(agent.messages, Answer(stop))
           a == [agent EXCEPT !.messages = ms, !.answers = @ + 1]
           v == [World EXCEPT !.agent.messages = Append(@, Answer(stop)), !.agent.answers = @ + 1]
<1>2. stop \in {"error", "fatal"}
  OBVIOUS
<1>3. agent \in Agents
  BY <1>0 DEF World, Worlds
<1>4. ms \in Seq(Known)
  BY <1>2, <1>3, AnswerKnown, AppendProperties DEF Agents
<1>5. v = [World EXCEPT !.agent = a]
  BY <1>3 DEF World, Agents
<1>n. agent.answers + 1 \in Nat
  BY <1>3 DEF Agents
<1> HIDE DEF v, ms
<1>6. a \in Agents
  BY <1>3, <1>4, <1>n DEF Agents
<1> HIDE DEF a
<1>7. Keeps(World, v)
  BY <1>0, <1>5, <1>6, AgentBecomes
<1>8. Keeps(v, EndRun(v, stop))
  BY <1>7, EndRunKeeps DEF Keeps
<1>9. Keeps(World, EndRun(v, stop))
  BY <1>0, <1>7, <1>8, KeepsTransitive
<1> QED
  BY <1>1, <1>9, ReachesKept DEF v

LEMMA ContinueFiresOrders ==
  ASSUME Orderly(World), ContinueFires
  PROVE  Orderly(World')
<1> DEFINE w == [World EXCEPT !.session.timers = @ - 1]
           b == [w EXCEPT !.agent.run = "request", !.agent.aborted = FALSE]
           f == [w EXCEPT !.agent.followUp = Tail(@)]
           first == <<Head(agent.followUp)>>
<1>0. World \in Worlds
  BY DEF Orderly
<1>1. /\ session.timers > 0
      /\ \/ Becomes(w) \/ Becomes(StartRun(w, <<>>)) \/ Becomes(PollSteering(b))
         \/ agent.followUp # <<>> /\ Becomes(StartRun(f, first))
  BY DEF ContinueFires
<1>2. agent \in Agents /\ session \in Sessions
  BY <1>0 DEF World, Worlds
<1>3. Keeps(World, w) /\ w.agent = agent
  <2>1. session.timers - 1 \in Nat
    BY <1>1, <1>2 DEF Sessions
  <2> DEFINE s == [session EXCEPT !.timers = session.timers - 1]
  <2>2. /\ s \in Sessions
        /\ s.compactions = session.compactions /\ s.manual = session.manual
        /\ s.cut = session.cut /\ s.tree = session.tree /\ s.branch = session.branch
        /\ s.backoff = session.backoff /\ s.entries = session.entries /\ s.calls = session.calls
    BY <1>2, <2>1 DEF Sessions
  <2>3. w = [World EXCEPT !.session = s]
    BY <1>2 DEF World, Sessions
  <2>4. Len(session.entries) \in Nat
    BY <1>2, LenProperties DEF Sessions
  <2>5. w.agent = agent
    BY DEF World
  <2> HIDE DEF s, w
  <2>6. Keeps(World, w)
    BY <1>0, <2>2, <2>3, <2>4, SessionBecomes, WorldFields
  <2> QED
    BY <2>5, <2>6
<1> HIDE DEF w
<1>4. w \in Worlds
  BY <1>3 DEF Keeps
<1>5. Keeps(w, b)
  <2> DEFINE a == [agent EXCEPT !.run = "request", !.aborted = FALSE]
  <2>1. a \in Agents /\ b = [w EXCEPT !.agent = a]
    BY <1>2, <1>3, <1>4 DEF Worlds, Agents
  <2> HIDE DEF a, b
  <2> QED BY <1>4, <2>1, AgentBecomes
<1>6. ASSUME agent.followUp # <<>> PROVE Keeps(w, f) /\ first \in Seq(Known)
  <2> DEFINE a == [agent EXCEPT !.followUp = Tail(@)]
  <2>1. Head(agent.followUp) \in Known /\ Tail(agent.followUp) \in Seq(Known)
    BY <1>2, <1>6, HeadTailProperties DEF Agents
  <2>2. a \in Agents
    BY <1>2, <2>1 DEF Agents
  <2>3. f = [w EXCEPT !.agent = a]
    BY <1>2, <1>3, <1>4 DEF Worlds, Agents
  <2>4. first \in Seq(Known)
    BY <2>1
  <2> HIDE DEF a, f
  <2>5. Keeps(w, f)
    BY <1>4, <2>2, <2>3, AgentBecomes
  <2> QED BY <2>4, <2>5
<1>7. \A y : Keeps(w, y) => Keeps(World, y)
  BY <1>0, <1>3, KeepsTransitive
<1>8. \A y : Keeps(w, y) /\ Becomes(y) => Orderly(World')
  BY <1>7, ReachesKept
<1>9. Keeps(w, w)
  BY <1>4, KeepsSame
<1>10. Keeps(w, StartRun(w, <<>>))
  <2>1. <<>> \in Seq(Known)
    OBVIOUS
  <2> QED BY <1>4, <2>1, StartRunKeeps
<1> HIDE DEF b, f, first
<1>11. Keeps(w, PollSteering(b))
  <2>1. Keeps(b, PollSteering(b))
    BY <1>5, PollsKeep DEF Keeps
  <2> QED BY <1>4, <1>5, <2>1, KeepsTransitive
<1>12. ASSUME agent.followUp # <<>> PROVE Keeps(w, StartRun(f, first))
  <2>1. Keeps(f, StartRun(f, first))
    BY <1>6, <1>12, StartRunKeeps DEF Keeps
  <2> QED BY <1>4, <1>6, <1>12, <2>1, KeepsTransitive
<1> QED
  BY <1>1, <1>8, <1>9, <1>10, <1>11, <1>12

LEMMA HandleMessageOrders ==
  ASSUME Orderly(World), HandleMessage
  PROVE  Orderly(World')
<1> DEFINE m == Head(session.events)
           s == [session EXCEPT !.events = Tail(@), !.entries = Append(@, m)]
           s1 == [s EXCEPT !.overflowRecoveryAttempted = FALSE]
           s2 == [s EXCEPT !.lastAssistant = m.stop]
           s3 == [s EXCEPT !.lastAssistant = m.stop, !.retryAttempt = 0,
                           !.overflowRecoveryAttempted = FALSE]
           Same(u) ==
             /\ u \in Sessions
             /\ u.compactions = session.compactions /\ u.manual = session.manual
             /\ u.cut = session.cut /\ u.tree = session.tree /\ u.branch = session.branch
             /\ u.backoff = session.backoff /\ u.calls = session.calls
             /\ Len(session.entries) <= Len(u.entries)
<1>0. World \in Worlds
  BY DEF Orderly
<1>1. session.events # <<>> /\ agent' = agent /\ ui' = ui
  BY DEF HandleMessage
<1>2. session' \in {s, Delivered(s1, m.id), s2, s3}
  <2>1. session' = CASE m.role = "user" -> Delivered(s1, m.id)
                     [] IsAnswer(m) /\ Failed(m) -> s2
                     [] IsAnswer(m) /\ ~Failed(m) -> s3
                     [] OTHER -> s
    BY DEF HandleMessage
  <2> HIDE DEF s, s1, s2, s3, m
  <2> QED BY <2>1
<1>3. session \in Sessions
  BY <1>0 DEF World, Worlds
<1>4. m \in Known /\ m.stop \in Stops /\ Tail(session.events) \in Seq(Known)
      /\ Append(session.entries, m) \in Seq(Known)
      /\ Len(Append(session.entries, m)) = Len(session.entries) + 1 /\ Len(session.entries) \in Nat
  <2>1. m \in Known /\ Tail(session.events) \in Seq(Known)
    BY <1>1, <1>3, HeadTailProperties DEF Sessions
  <2>2. m.stop \in Stops
    BY <2>1 DEF Known, Messages
  <2>3. session.entries \in Seq(Known)
    BY <1>3 DEF Sessions
  <2> HIDE DEF m
  <2> QED
    BY <2>1, <2>2, <2>3, AppendProperties, LenProperties
<1>5. Same(s)
  <2> DEFINE es == Append(session.entries, m)
             ts == Tail(session.events)
  <2>1. s = [session EXCEPT !.events = ts, !.entries = es]
    OBVIOUS
  <2>2. es \in Seq(Known) /\ ts \in Seq(Known) /\ Len(session.entries) <= Len(es)
    BY <1>4
  <2> HIDE DEF s, es, ts
  <2> QED
    BY <1>3, <2>1, <2>2 DEF Sessions
<1> HIDE DEF s, m
<1>6. Same(s2)
  BY <1>4, <1>5 DEF Sessions
<1>7. Same(s3)
  <2>1. 0 \in 0..MaxRetries
    BY Numbers
  <2> QED BY <1>4, <1>5, <2>1 DEF Sessions
<1>8. Same(s1)
  BY <1>5 DEF Sessions
<1> HIDE DEF s1, s2, s3
<1>9. Same(Delivered(s1, m.id))
  <2> DEFINE x == RemoveFirst(s1.steering, m.id)
             y == RemoveFirst(s1.followUp, m.id)
             u == [s1 EXCEPT !.steering = x]
             v == [s1 EXCEPT !.followUp = y]
  <2>1. x \in Seq(Text) /\ y \in Seq(Text)
    BY <1>8, RemoveFirstTyped DEF Sessions
  <2>2. Delivered(s1, m.id) \in {u, v}
    BY DEF Delivered
  <2> HIDE DEF x, y
  <2>3. Same(u)
    BY <1>8, <2>1 DEF Sessions
  <2>4. Same(v)
    BY <1>8, <2>1 DEF Sessions
  <2> HIDE DEF u, v, Same
  <2> QED BY <2>2, <2>3, <2>4
<1>10. Same(session')
  <2> HIDE DEF Same
  <2> QED BY <1>2, <1>5, <1>6, <1>7, <1>9
<1> DEFINE w == [World EXCEPT !.session = session']
<1>11. Keeps(World, w)
  BY <1>0, <1>10, SessionBecomes, WorldFields
<1>12. World' = w
  BY <1>1 DEF World
<1> HIDE DEF w
<1> QED
  BY <1>11, <1>12, KeepsOrder

\* A session whose event may start a compaction.
LEMMA EventFree ==
  ASSUME NEW w, Orderly(w), ~Sleeping(w), \A c \in Running(w) : c.runner # Events
  PROVE  Free(w, Events)
BY EventsIsNoText DEF Free

LEMMA CheckOrders ==
  ASSUME NEW w, Free(w, Events), NEW stop, NEW check \in Checkings, NEW later \in Checkings
  PROVE  Orderly(checkCompaction(w, stop, Events, check, later))
BY CheckBegins, BegunForEvent

LEMMA HandleAgentEndOrders ==
  ASSUME Orderly(World), HandleAgentEnd
  PROVE  Orderly(World')
<1> DEFINE last == session.lastAssistant
           w == [World EXCEPT !.session.events = Tail(@), !.session.lastAssistant = "none"]
           over == [w EXCEPT !.session.retryAttempt = 0]
           u == IF last = "error" THEN over ELSE w
           paused == handleRetryableError(w)
<1>0. World \in Worlds
  BY DEF Orderly
<1>1. PICK check \in EventChecks, later \in Checks :
        \/ Becomes(w)
        \/ MayRetry(World) /\ Becomes(paused)
        \/ Becomes(checkCompaction(resolveRetry(u), last, Events, check, later))
  BY DEF HandleAgentEnd
<1>2. session.events # <<>> /\ ~Blocked(World)
  BY DEF HandleAgentEnd
<1>3. check \in Checkings /\ later \in Checkings
  BY ChecksTyped
<1>4. session \in Sessions
  BY <1>0 DEF World, Worlds
<1>5. /\ Keeps(World, w) /\ w \in Worlds
      /\ w.session.retryAttempt = session.retryAttempt
  <2> DEFINE ts == Tail(session.events)
             s == [session EXCEPT !.events = ts, !.lastAssistant = "none"]
  <2>1. ts \in Seq(Known)
    BY <1>2, <1>4, HeadTailProperties DEF Sessions
  <2>2. w = [World EXCEPT !.session = s]
    BY <1>4 DEF World, Sessions
  <2> HIDE DEF ts
  <2>3. /\ s \in Sessions
        /\ s.compactions = session.compactions /\ s.manual = session.manual
        /\ s.cut = session.cut /\ s.tree = session.tree /\ s.branch = session.branch
        /\ s.backoff = session.backoff /\ s.entries = session.entries /\ s.calls = session.calls
        /\ s.retryAttempt = session.retryAttempt
    BY <1>4, <2>1 DEF Sessions
  <2>4. Len(session.entries) \in Nat
    BY <1>4, LenProperties DEF Sessions
  <2> HIDE DEF s, w
  <2>5. Keeps(World, w)
    BY <1>0, <2>2, <2>3, <2>4, SessionBecomes, WorldFields
  <2>6. w.session.retryAttempt = session.retryAttempt
    BY <1>0, <2>2, <2>3 DEF Worlds
  <2> QED
    BY <2>5, <2>6 DEF Keeps
<1> HIDE DEF w
<1>6. Free(World, Events)
  BY <1>2, EventFree DEF Blocked
<1>7. Free(w, Events)
  BY <1>5, <1>6, KeepsFree
<1>8. ASSUME Becomes(w) PROVE Orderly(World')
  BY <1>5, <1>8, ReachesKept
<1>9. ASSUME MayRetry(World), Becomes(paused) PROVE Orderly(World')
  <2>1. w.session.retryAttempt + 1 \in 0..MaxRetries
    <3>1. session.retryAttempt \in 0..MaxRetries /\ session.retryAttempt < MaxRetries
      BY <1>4, <1>9, WorldFields DEF MayRetry, Sessions
    <3> QED
      BY <1>5, <3>1, Numbers
  <2>2. TrimAnswer(w.agent.messages) \in Seq(Known)
    BY <1>5, TrimTyped DEF Worlds, Agents
  <2> DEFINE ms == TrimAnswer(w.agent.messages)
             n == w.session.retryAttempt + 1
             p == [w EXCEPT !.session.retryAttempt = n, !.session.retryPromise = TRUE,
                            !.agent.messages = ms, !.session.backoff = "sleeping"]
  <2>3. p = paused
    BY DEF handleRetryableError
  <2> HIDE DEF ms, n, paused
  <2>4. /\ p \in Worlds /\ Rest(p) = Rest(w) /\ p.ui = w.ui /\ p.session.calls = w.session.calls
        /\ p.session.compactions = w.session.compactions
        /\ p.session.entries = w.session.entries
    <3>1. ms \in Seq(Known) /\ n \in 0..MaxRetries
      BY <2>1, <2>2 DEF ms, n
    <3> QED
      BY <1>5, <3>1 DEF Worlds, Agents, Sessions, Rest
  <2> HIDE DEF p
  <2>5. RunnersWait(p)
    BY <1>7, <2>4 DEF Free, Orderly, RunnersWait, Running
  <2>6. CallsSubmitted(p) /\ TextsWait(p) /\ SummariesLand(p)
    <3>1. /\ p.session.manual = w.session.manual /\ p.session.cut = w.session.cut
          /\ p.session.tree = w.session.tree /\ p.session.branch = w.session.branch
      BY <2>4 DEF Rest
    <3> QED
      BY <1>7, <2>4, <3>1 DEF Free, Orderly, CallsSubmitted, TextsWait, Listed, SummariesLand
  <2>7. Orderly(p)
    BY <2>4, <2>5, <2>6 DEF Orderly
  <2> QED
    BY <1>9, <2>3, <2>7, Reaches
<1>10. ASSUME Becomes(checkCompaction(resolveRetry(u), last, Events, check, later))
       PROVE  Orderly(World')
  <2>1. Keeps(w, over)
    <3>1. 0 \in 0..MaxRetries
      BY Numbers
    <3>2. /\ over \in Worlds /\ Rest(over) = Rest(w) /\ over.session.calls = w.session.calls
          /\ over.session.backoff = w.session.backoff /\ over.session.entries = w.session.entries
      BY <1>5, <3>1 DEF Worlds, Sessions, Rest
    <3> HIDE DEF over
    <3> QED BY <1>5, <3>2, KeepsSame
  <2>2. Free(over, Events)
    <3> HIDE DEF over
    <3> QED BY <1>7, <2>1, KeepsFree
  <2> HIDE DEF over
  <2>3. Free(u, Events)
    BY <1>7, <2>2
  <2> HIDE DEF u
  <2>4. Keeps(u, resolveRetry(u))
    BY <2>3, ResolveKeeps DEF Free, Orderly
  <2>5. Free(resolveRetry(u), Events)
    BY <2>3, <2>4, KeepsFree
  <2>6. Orderly(checkCompaction(resolveRetry(u), last, Events, check, later))
    BY <1>3, <2>5, CheckOrders
  <2> QED
    BY <1>10, <2>6, Reaches
<1> QED
  BY <1>1, <1>8, <1>9, <1>10

LEMMA BackoffElapsesOrders ==
  ASSUME Orderly(World), BackoffElapses
  PROVE  Orderly(World')
<1> DEFINE v == [World EXCEPT !.session.backoff = "none"]
<1>0. World \in Worlds
  BY DEF Orderly
<1>1. /\ v \in Worlds /\ Rest(v) = Rest(World) /\ v.session.calls = World.session.calls
      /\ v.session.backoff = "none" /\ v.session.entries = World.session.entries
  BY <1>0 DEF Worlds, Sessions, Rest
<1>2. Becomes(ContinueLater(v))
  BY DEF BackoffElapses
<1> HIDE DEF v
<1>3. Len(World.session.entries) \in Nat
  BY <1>0, LenProperties DEF Worlds, Sessions
<1>4. Keeps(World, v)
  BY <1>1, <1>3 DEF Keeps, Sleeping
<1>5. Keeps(v, ContinueLater(v))
  BY <1>1, ContinueLaterKeeps
<1>6. Keeps(World, ContinueLater(v))
  BY <1>0, <1>4, <1>5, KeepsTransitive
<1> QED
  BY <1>2, <1>6, ReachesKept

LEMMA BackoffAbortedOrders ==
  ASSUME Orderly(World), BackoffAborted
  PROVE  Orderly(World')
<1> DEFINE w == [World EXCEPT !.session.backoff = "none", !.session.retryAttempt = 0]
<1>0. World \in Worlds
  BY DEF Orderly
<1>1. PICK check \in EventChecks, later \in Checks :
        Becomes(checkCompaction(resolveRetry(w), "error", Events, check, later))
  BY DEF BackoffAborted
<1>2. check \in Checkings /\ later \in Checkings
  BY ChecksTyped
<1>3. /\ w \in Worlds /\ Rest(w) = Rest(World) /\ w.session.calls = World.session.calls
      /\ w.session.backoff = "none" /\ w.session.entries = World.session.entries
      /\ w.session.compactions = World.session.compactions
  <2>1. 0 \in 0..MaxRetries
    BY Numbers
  <2> QED
    BY <1>0, <2>1 DEF Worlds, Sessions, Rest
<1> HIDE DEF w
<1>4. Len(World.session.entries) \in Nat
  BY <1>0, LenProperties DEF Worlds, Sessions
<1>5. Keeps(World, w)
  BY <1>3, <1>4 DEF Keeps, Sleeping
<1>6. \A c \in Running(w) : c.runner # Events
  <2>1. Sleeping(World)
    BY WorldFields DEF BackoffAborted, Sleeping
  <2> QED
    BY <1>3, <2>1 DEF Orderly, RunnersWait, Running
<1>7. Free(w, Events)
  BY <1>3, <1>5, <1>6, KeepsOrder, EventFree DEF Sleeping
<1>8. Free(resolveRetry(w), Events)
  <2>1. Keeps(w, resolveRetry(w))
    BY <1>3, ResolveKeeps
  <2> QED BY <1>7, <2>1, KeepsFree
<1>9. Orderly(checkCompaction(resolveRetry(w), "error", Events, check, later))
  BY <1>2, <1>8, CheckOrders
<1> QED
  BY <1>1, <1>9, Reaches

LEMMA CompactionEndsOrders ==
  ASSUME Orderly(World), NEW c \in session.compactions,
         CompactionSucceeds(c) \/ CompactionFails(c)
  PROVE  Orderly(World')
<1>0. c \in Running(World)
  BY WorldFields DEF Running
<1>1. CASE CompactionSucceeds(c)
  <2>1. Becomes(Finished(Compacted(World, c), c))
    BY <1>1 DEF CompactionSucceeds
  <2>2. Orderly(Finished(Compacted(World, c), c))
    BY <1>0, CompactedOrders, FinishedOrders
  <2> QED
    BY <2>1, <2>2, Reaches
<1>2. CASE CompactionFails(c)
  <2>1. PICK check \in Checks : Becomes(Finished(flushCompactionQueue(World, FALSE, check), c))
    BY <1>2 DEF CompactionFails
  <2>2. check \in Checkings
    BY ChecksTyped
  <2> DEFINE v == flushCompactionQueue(World, FALSE, check)
  <2>3. Orderly(v) /\ Running(World) \subseteq Running(v)
    BY <2>2, FlushOrders
  <2> HIDE DEF v
  <2>4. Orderly(Finished(v, c))
    BY <1>0, <2>3, FinishedOrders
  <2> QED
    BY <2>1, <2>4, Reaches DEF v
<1> QED
  BY <1>1, <1>2

\* The agent is told to stop.
LEMMA AbortedKeeps ==
  ASSUME NEW w \in Worlds, NEW b \in BOOLEAN
  PROVE  Keeps(w, [w EXCEPT !.agent.aborted = b])
<1> DEFINE a == [w.agent EXCEPT !.aborted = b]
           v == [w EXCEPT !.agent.aborted = b]
<1>1. a \in Agents /\ v = [w EXCEPT !.agent = a]
  BY DEF Worlds, Agents
<1> HIDE DEF v, a
<1>2. Keeps(w, v)
  BY <1>1, AgentBecomes
<1> QED
  BY <1>2 DEF v

LEMMA DequeueOrders ==
  ASSUME Orderly(World), Dequeue
  PROVE  Orderly(World')
BY RestoredOrders, Reaches DEF Dequeue

LEMMA EscapeRunOrders ==
  ASSUME Orderly(World), EscapeRun
  PROVE  Orderly(World')
<1> DEFINE w == Restored(World)
           v == [w EXCEPT !.agent.aborted = TRUE]
<1>1. Becomes(v)
  BY DEF EscapeRun
<1>2. Orderly(w)
  BY RestoredOrders
<1> HIDE DEF w
<1>3. Keeps(w, v)
  BY <1>2, AbortedKeeps DEF Orderly
<1> HIDE DEF v
<1>4. Orderly(v)
  BY <1>2, <1>3, KeepsOrder
<1> QED
  BY <1>1, <1>4, Reaches

LEMMA EscapeRetryOrders ==
  ASSUME Orderly(World), EscapeRetry
  PROVE  Orderly(World')
<1>1. Keeps(World, abortRetry(World))
  BY AbortRetryKeeps DEF Orderly
<1> QED
  BY <1>1, ReachesKept DEF EscapeRetry

LEMMA AbortOrders ==
  ASSUME Orderly(World), Abort
  PROVE  Orderly(World')
<1> DEFINE w == abortRetry(World)
           b == agent.run # "idle"
           v == [w EXCEPT !.agent.aborted = b]
<1>0. World \in Worlds /\ b \in BOOLEAN
  BY DEF Orderly
<1>1. Becomes(v)
  BY DEF Abort
<1>2. Keeps(World, w)
  BY <1>0, AbortRetryKeeps
<1> HIDE DEF w, b
<1>3. Keeps(w, v)
  BY <1>0, <1>2, AbortedKeeps DEF Keeps
<1> HIDE DEF v
<1>4. Keeps(World, v)
  BY <1>0, <1>2, <1>3, KeepsTransitive
<1> QED
  BY <1>1, <1>4, ReachesKept

LEMMA EscapeCompactionOrders ==
  ASSUME Orderly(World), EscapeCompaction
  PROVE  Orderly(World')
<1> DEFINE stops(c) == IF c.runner = session.controller THEN [c EXCEPT !.aborted = TRUE] ELSE c
           cs == {stops(c) : c \in session.compactions}
           m == IF session.manual = "summary" THEN "aborted" ELSE session.manual
           s == [session EXCEPT !.compactions = cs, !.manual = m]
           v == [World EXCEPT !.session = s]
<1>0. World \in Worlds
  BY DEF Orderly
<1>1. session \in Sessions
  BY <1>0 DEF World, Worlds
<1>2. Becomes(v)
  <2>1. Becomes([World EXCEPT
       !.session.compactions =
         {IF c.runner = session.controller THEN [c EXCEPT !.aborted = TRUE] ELSE c : c \in @},
       !.session.manual = IF @ = "summary" THEN "aborted" ELSE @])
    BY DEF EscapeCompaction
  <2>2. [World EXCEPT
       !.session.compactions =
         {IF c.runner = session.controller THEN [c EXCEPT !.aborted = TRUE] ELSE c : c \in @},
       !.session.manual = IF @ = "summary" THEN "aborted" ELSE @] = v
    BY <1>1 DEF World, Sessions
  <2> QED
    BY <2>1, <2>2
<1>3. \A c \in session.compactions : stops(c) \in Started /\ stops(c).runner = c.runner
  <2>1. \A c \in session.compactions : c \in Started
    BY <1>1 DEF Sessions
  <2> QED
    BY <2>1 DEF Started
<1>4. cs \in SUBSET Started
  <2> HIDE DEF stops
  <2> QED BY <1>3
<1>5. /\ s \in Sessions /\ s.compactions = cs /\ s.calls = session.calls
      /\ s.backoff = session.backoff /\ s.entries = session.entries
      /\ s.manual = "summary" => session.manual = "summary"
      /\ s.cut = session.cut /\ s.tree = session.tree /\ s.branch = session.branch
  <2>1. m \in {"none", "waiting", "summary", "aborted"} /\ m # "summary"
    BY <1>1 DEF Sessions
  <2> HIDE DEF cs, m
  <2> QED
    BY <1>1, <1>4, <2>1 DEF Sessions
<1> HIDE DEF s
<1>6. v \in Worlds /\ v.session = s /\ v.ui = ui
  BY <1>0, <1>5 DEF World, Worlds
<1> HIDE DEF v
<1>7. \A d \in Running(v) : \E c \in session.compactions : d = stops(c) /\ d.runner = c.runner
  <2> HIDE DEF stops
  <2>1. Running(v) = cs
    BY <1>5, <1>6 DEF Running
  <2> QED
    BY <1>3, <2>1
<1>8. RunnersWait(v)
  <2> HIDE DEF stops, cs
  <2>1. /\ \A c, d \in session.compactions : c.runner = d.runner => c = d
        /\ \A c \in session.compactions : c.runner \in Text => session.calls[c.runner] = "compacting"
        /\ session.backoff # "none" => \A c \in session.compactions : c.runner # Events
    BY WorldFields DEF Orderly, RunnersWait, Running, Sleeping
  <2>2. \A c, d \in Running(v) : c.runner = d.runner => c = d
    BY <1>7, <2>1
  <2> QED
    BY <1>5, <1>6, <1>7, <2>1, <2>2 DEF RunnersWait, Sleeping
<1>9. CallsSubmitted(v) /\ TextsWait(v) /\ SummariesLand(v)
  BY <1>5, <1>6, WorldFields DEF Orderly, CallsSubmitted, TextsWait, Listed, SummariesLand
<1>10. Orderly(v)
  BY <1>6, <1>8, <1>9 DEF Orderly
<1> QED
  BY <1>2, <1>10, Reaches

LEMMA ActedKeeps ==
  ASSUME NEW w \in Worlds
  PROVE  Keeps(w, Acted(w))
<1> DEFINE v == Acted(w)
<1>0. w.ui.acts + 1 \in Nat
  BY DEF Worlds, Uis
<1>1. /\ v \in Worlds /\ Rest(v) = Rest(w) /\ v.session = w.session
  BY <1>0 DEF Acted, Worlds, Uis, Rest
<1> HIDE DEF v
<1>2. Keeps(w, v)
  BY <1>1, KeepsSame
<1> QED
  BY <1>2 DEF v

LEMMA ReachesActed ==
  ASSUME Orderly(World), NEW w, Keeps(World, w), Becomes(Acted(w))
  PROVE  Orderly(World')
<1>1. Keeps(w, Acted(w))
  BY ActedKeeps DEF Keeps
<1>2. Keeps(World, Acted(w))
  BY <1>1, KeepsTransitive DEF Orderly
<1> QED
  BY <1>2, ReachesKept

LEMMA ReachesActedOrder ==
  ASSUME NEW w, Orderly(w), Becomes(Acted(w))
  PROVE  Orderly(World')
<1>1. Keeps(w, Acted(w))
  BY ActedKeeps DEF Orderly
<1>2. Orderly(Acted(w))
  BY <1>1, KeepsOrder
<1> QED
  BY <1>2, Reaches

LEMMA BashEndsOrders ==
  ASSUME Orderly(World), BashEnds
  PROVE  Orderly(World')
<1> DEFINE ms == Append(session.pendingBash, BashResult)
           v == [World EXCEPT !.session.pendingBash = ms]
<1>0. World \in Worlds
  BY DEF Orderly
<1>1. Keeps(World, AddNow(World, <<BashResult>>))
  <2>1. <<BashResult>> \in Seq(Known)
    BY OthersKnown
  <2> QED BY <1>0, <2>1, AddNowKeeps
<1>2. Keeps(World, v)
  <2>1. ms \in Seq(Known)
    BY <1>0, OthersKnown, AppendProperties DEF World, Worlds, Sessions
  <2> HIDE DEF ms
  <2>2. /\ v \in Worlds /\ Rest(v) = Rest(World) /\ v.session.calls = World.session.calls
        /\ v.session.backoff = World.session.backoff /\ v.session.entries = World.session.entries
    BY <1>0, <2>1 DEF Worlds, Sessions, Rest
  <2> HIDE DEF v
  <2> QED BY <1>0, <2>2, KeepsSame
<1>3. recordBashResult(World) \in {v, AddNow(World, <<BashResult>>)}
  BY WorldFields DEF recordBashResult
<1>4. Keeps(World, recordBashResult(World))
  <2> HIDE DEF v
  <2> QED BY <1>1, <1>2, <1>3
<1> QED
  BY <1>4, ReachesActed DEF BashEnds

LEMMA SendCustomMessageOrders ==
  ASSUME Orderly(World), SendCustomMessage
  PROVE  Orderly(World')
<1> DEFINE ms == Append(agent.steering, Custom)
           a == [agent EXCEPT !.steering = ms]
           v == [World EXCEPT !.agent = a]
           one == <<Custom>>
<1>0. World \in Worlds /\ one \in Seq(Known)
  BY OthersKnown DEF Orderly
<1>1. Becomes(Acted([World EXCEPT !.agent.steering = Append(@, Custom)]))
      \/ Becomes(Acted(StartRun(World, one))) \/ Becomes(Acted(AddNow(World, one)))
  BY DEF SendCustomMessage
<1>2. agent \in Agents
  BY <1>0 DEF World, Worlds
<1>3. v = [World EXCEPT !.agent.steering = Append(@, Custom)]
  BY <1>2 DEF World, Agents
<1>4. Keeps(World, v)
  <2>1. ms \in Seq(Known)
    BY <1>2, OthersKnown, AppendProperties DEF Agents
  <2> HIDE DEF ms
  <2>2. a \in Agents
    BY <1>2, <2>1 DEF Agents
  <2> HIDE DEF a
  <2> QED BY <1>0, <2>2, AgentBecomes
<1> HIDE DEF v, one
<1>5. Keeps(World, StartRun(World, one)) /\ Keeps(World, AddNow(World, one))
  BY <1>0, StartRunKeeps, AddNowKeeps
<1> QED
  BY <1>1, <1>3, <1>4, <1>5, ReachesActed

LEMMA CompactOrders ==
  ASSUME Orderly(World), Compact
  PROVE  Orderly(World')
<1> DEFINE w == abortRetry(World)
           b == agent.run # "idle"
           s == [w.session EXCEPT !.connected = FALSE, !.manual = "waiting"]
           u == [w EXCEPT !.session = s]
           v == [u EXCEPT !.agent.aborted = b]
           x == [w EXCEPT !.session.connected = FALSE, !.session.manual = "waiting",
                          !.agent.aborted = b]
<1>0. World \in Worlds /\ b \in BOOLEAN
  BY DEF Orderly
<1>1. Becomes(Acted(x))
  BY DEF Compact
<1>2. Keeps(World, w)
  BY <1>0, AbortRetryKeeps
<1> HIDE DEF w, b
<1>3. Orderly(w) /\ w \in Worlds
  BY <1>2, KeepsOrder DEF Keeps
<1>4. /\ s \in Sessions /\ s.compactions = w.session.compactions /\ s.calls = w.session.calls
      /\ s.backoff = w.session.backoff /\ s.entries = w.session.entries
      /\ s.tree = w.session.tree /\ s.branch = w.session.branch /\ s.manual # "summary"
  BY <1>3 DEF Worlds, Sessions
<1>5. x = v
  BY <1>3 DEF Worlds, Sessions
<1>6. s.tree = "summary" => s.branch <= Len(s.entries)
  BY <1>3, <1>4 DEF Orderly, SummariesLand
<1> HIDE DEF s, x
<1>7. Orderly(u)
  BY <1>3, <1>4, <1>6, SummaryBecomes
<1> HIDE DEF u
<1>8. Keeps(u, v)
  BY <1>0, <1>7, AbortedKeeps DEF Orderly
<1> HIDE DEF v
<1>9. Orderly(v)
  BY <1>7, <1>8, KeepsOrder
<1> QED
  BY <1>1, <1>5, <1>9, ReachesActedOrder

LEMMA CompactPreparesOrders ==
  ASSUME Orderly(World), CompactPrepares
  PROVE  Orderly(World')
<1>0. World \in Worlds
  BY DEF Orderly
<1>1. PICK first \in Cut(session.entries), check \in Checks :
        Becomes(IF first = 0 THEN ManualEnds(World, check)
                ELSE [World EXCEPT !.session.manual = "summary", !.session.cut = first])
  BY DEF CompactPrepares
<1>2. first \in Nat /\ check \in Checkings
  BY <1>0, CutTyped, ChecksTyped DEF World, Worlds, Sessions
<1> DEFINE s == [session EXCEPT !.manual = "summary", !.cut = first]
           v == [World EXCEPT !.session = s]
<1>3. session \in Sessions
  BY <1>0 DEF World, Worlds
<1>4. /\ s \in Sessions /\ s.compactions = session.compactions /\ s.calls = session.calls
      /\ s.backoff = session.backoff /\ s.entries = session.entries
      /\ s.tree = session.tree /\ s.branch = session.branch /\ s.cut = first
  BY <1>2, <1>3 DEF Sessions
<1>5. [World EXCEPT !.session.manual = "summary", !.session.cut = first] = v
  BY <1>3 DEF World, Sessions
<1>6. s.tree = "summary" => s.branch <= Len(s.entries)
  BY <1>4, WorldFields DEF Orderly, SummariesLand
<1> HIDE DEF s
<1>7. first # 0 => Orderly(v)
  BY <1>4, <1>6, SummaryBecomes, WorldFields
<1> HIDE DEF v
<1>8. CASE first = 0
  BY <1>1, <1>2, <1>8, ManualEndOrders, Reaches
<1>9. CASE first # 0
  BY <1>1, <1>5, <1>7, <1>9, Reaches
<1> QED
  BY <1>8, <1>9

LEMMA CompactSucceedsOrders ==
  ASSUME Orderly(World), CompactSucceeds
  PROVE  Orderly(World')
<1> DEFINE entries == Append(session.entries, Compaction(session.cut))
           v == [World EXCEPT !.session.entries = entries, !.agent.messages = Context(entries)]
<1>0. World \in Worlds /\ NoCheck \in Checkings
  BY DEF Orderly, NoCheck, Checkings
<1>1. Becomes(ManualEnds(v, NoCheck)) /\ session.manual = "summary"
  BY DEF CompactSucceeds
<1>2. session.cut \in Nat \ {0}
  BY <1>0, <1>1, WorldFields DEF Orderly, SummariesLand, Worlds, Sessions
<1>3. Compaction(session.cut) \in Known
  BY <1>2, CompactionKnown
<1>4. entries = Append(World.session.entries, Compaction(session.cut))
  BY WorldFields
<1> HIDE DEF entries
<1>5. Keeps(World, v)
  BY <1>0, <1>3, <1>4, SavedKeeps
<1> HIDE DEF v
<1>6. Orderly(v)
  BY <1>5, KeepsOrder
<1> QED
  BY <1>0, <1>1, <1>6, ManualEndOrders, Reaches

LEMMA CompactFailsOrders ==
  ASSUME Orderly(World), CompactFails
  PROVE  Orderly(World')
<1>1. PICK check \in Checks : Becomes(ManualEnds(World, check))
  BY DEF CompactFails
<1>2. check \in Checkings
  BY ChecksTyped
<1> QED
  BY <1>1, <1>2, ManualEndOrders, Reaches

\* The path a navigation leads to.
LEMMA MovedOrders ==
  ASSUME NEW w, Orderly(w), NEW path \in Seq(Known), NEW branch \in Nat
  PROVE  Orderly([MoveTo(w, path) EXCEPT !.session.tree = "none", !.session.branch = branch])
<1> DEFINE u == [w EXCEPT !.agent.messages = Context(path)]
           s == [w.session EXCEPT !.entries = path, !.tree = "none", !.branch = branch]
           v == [u EXCEPT !.session = s]
           x == [MoveTo(w, path) EXCEPT !.session.tree = "none", !.session.branch = branch]
<1>0. w \in Worlds /\ Context(path) \in Seq(Known)
  BY ContextTyped DEF Orderly
<1>1. Keeps(w, u) /\ u.session = w.session
  BY <1>0, MessagesKeep
<1>2. x = v
  BY <1>0 DEF MoveTo, Worlds, Sessions
<1> HIDE DEF u
<1>3. Orderly(u)
  BY <1>1, KeepsOrder
<1>4. /\ s \in Sessions /\ s.compactions = w.session.compactions /\ s.calls = w.session.calls
      /\ s.backoff = w.session.backoff /\ s.tree # "summary"
      /\ s.manual = w.session.manual /\ s.cut = w.session.cut
  BY <1>0 DEF Worlds, Sessions
<1>5. s.manual = "summary" => s.cut # 0
  BY <1>4 DEF Orderly, SummariesLand
<1> HIDE DEF s, x
<1>6. Orderly(v)
  BY <1>1, <1>3, <1>4, <1>5, SummaryBecomes
<1> QED
  BY <1>2, <1>6 DEF x

LEMMA NavigateOrders ==
  ASSUME Orderly(World), Navigate
  PROVE  Orderly(World')
<1>0. World \in Worlds
  BY DEF Orderly
<1>1. PICK n \in Targets \ {Len(session.entries)} :
       \/ Becomes(Acted([MoveTo(World, SubSeq(session.entries, 1, n)) EXCEPT !.session.tree = "none"]))
       \/ Becomes(Acted([World EXCEPT !.session.tree = "summary", !.session.branch = n]))
  BY DEF Navigate
<1>2. session \in Sessions
  BY <1>0 DEF World, Worlds
<1>3. n \in Nat /\ n <= Len(session.entries) /\ Len(session.entries) \in Nat
  <2>1. DOMAIN session.entries = 1..Len(session.entries) /\ Len(session.entries) \in Nat
    BY <1>2, LenProperties DEF Sessions
  <2> QED
    BY <2>1 DEF Targets
<1>4. ASSUME Becomes(Acted([MoveTo(World, SubSeq(session.entries, 1, n)) EXCEPT !.session.tree = "none"]))
      PROVE  Orderly(World')
  <2> DEFINE path == SubSeq(session.entries, 1, n)
             v == [MoveTo(World, path) EXCEPT !.session.tree = "none"]
             x == [MoveTo(World, path) EXCEPT !.session.tree = "none", !.session.branch = session.branch]
  <2>1. path \in Seq(Known) /\ session.branch \in Nat
    BY <1>2, <1>3, SubSeqTyped DEF Sessions
  <2> HIDE DEF path
  <2>2. v = x
    <3> DEFINE s == [session EXCEPT !.entries = path, !.tree = "none"]
               b == [s EXCEPT !.branch = session.branch]
               u == [World EXCEPT !.agent.messages = Context(path)]
    <3>1. s \in Sessions /\ s.branch = session.branch
      BY <1>2, <2>1 DEF Sessions
    <3>2. v = [u EXCEPT !.session = s] /\ x = [u EXCEPT !.session = b]
      BY <1>2 DEF MoveTo, World, Sessions
    <3> HIDE DEF s, u, v, x
    <3>3. b = s
      BY <3>1 DEF Sessions
    <3> HIDE DEF b
    <3> QED
      BY <3>2, <3>3
  <2>3. Orderly(x)
    BY <2>1, MovedOrders
  <2> HIDE DEF v, x
  <2>4. Orderly(v)
    BY <2>2, <2>3
  <2> QED
    BY <1>4, <2>4, ReachesActedOrder DEF v, path
<1>5. ASSUME Becomes(Acted([World EXCEPT !.session.tree = "summary", !.session.branch = n]))
      PROVE  Orderly(World')
  <2> DEFINE s == [session EXCEPT !.tree = "summary", !.branch = n]
             v == [World EXCEPT !.session = s]
  <2>1. /\ s \in Sessions /\ s.compactions = session.compactions /\ s.calls = session.calls
        /\ s.backoff = session.backoff /\ s.entries = session.entries
        /\ s.manual = session.manual /\ s.cut = session.cut /\ s.branch = n
    BY <1>2, <1>3 DEF Sessions
  <2>2. [World EXCEPT !.session.tree = "summary", !.session.branch = n] = v
    BY <1>2 DEF World, Sessions
  <2>3. s.manual = "summary" => s.cut # 0
    BY <2>1, WorldFields DEF Orderly, SummariesLand
  <2> HIDE DEF s
  <2>4. Orderly(v)
    BY <1>3, <2>1, <2>3, SummaryBecomes, WorldFields
  <2> HIDE DEF v
  <2> QED
    BY <1>5, <2>2, <2>4, ReachesActedOrder
<1> QED
  BY <1>1, <1>4, <1>5

LEMMA NavigateEndsOrders ==
  ASSUME Orderly(World), NavigateSucceeds \/ NavigateAborts \/ NavigateCancelled
  PROVE  Orderly(World')
<1>0. World \in Worlds
  BY DEF Orderly
<1>2. session \in Sessions
  BY <1>0 DEF World, Worlds
<1>3. CASE NavigateSucceeds
  <2> DEFINE path == Append(SubSeq(session.entries, 1, session.branch), BranchSummary)
             v == [MoveTo(World, path) EXCEPT !.session.tree = "none", !.session.branch = 0]
  <2>1. Becomes(v) /\ session.tree = "summary"
    BY <1>3 DEF NavigateSucceeds
  <2>2. session.branch \in Nat /\ session.branch <= Len(session.entries)
    BY <1>2, <2>1, WorldFields DEF Orderly, SummariesLand, Sessions
  <2>3. SubSeq(session.entries, 1, session.branch) \in Seq(Known)
    BY <1>2, <2>2, SubSeqTyped DEF Sessions
  <2>4. path \in Seq(Known)
    BY <2>3, OthersKnown, AppendProperties
  <2> HIDE DEF path
  <2>5. Orderly(v)
    BY <2>4, MovedOrders
  <2> QED
    BY <2>1, <2>5, Reaches
<1>4. ASSUME NEW at \in {"none", "left"},
             Becomes([World EXCEPT !.session.tree = at, !.session.branch = 0])
      PROVE  Orderly(World')
  <2> DEFINE s == [session EXCEPT !.tree = at, !.branch = 0]
             v == [World EXCEPT !.session = s]
  <2>1. /\ s \in Sessions /\ s.compactions = session.compactions /\ s.calls = session.calls
        /\ s.backoff = session.backoff /\ s.tree # "summary"
        /\ s.manual = session.manual /\ s.cut = session.cut
    BY <1>2 DEF Sessions
  <2>2. [World EXCEPT !.session.tree = at, !.session.branch = 0] = v
    BY <1>2 DEF World, Sessions
  <2>3. s.manual = "summary" => s.cut # 0
    BY <2>1, WorldFields DEF Orderly, SummariesLand
  <2> HIDE DEF s
  <2>4. Orderly(v)
    BY <2>1, <2>3, SummaryBecomes, WorldFields
  <2> HIDE DEF v
  <2> QED
    BY <1>4, <2>2, <2>4, Reaches
<1>5. CASE NavigateAborts
  BY <1>4, <1>5 DEF NavigateAborts
<1>6. CASE NavigateCancelled
  BY <1>4, <1>6 DEF NavigateCancelled
<1> QED
  BY <1>3, <1>5, <1>6

-----------------------------------------------------------------------------
(* The theorem.                                                             *)

LEMMA InitOrders ==
  ASSUME Init
  PROVE  Orderly(World)
<1>1. agent \in Agents
  BY DEF Init, Agents
<1>2. session \in Sessions
  <2>1. 0 \in 0..MaxRetries /\ [t \in Text |-> "none"] \in [Text -> Places4Calls]
    BY Numbers DEF Places4Calls
  <2> QED
    BY <2>1 DEF Init, Sessions
<1>3. ui \in Uis
  <2>1. 0 \in 0..MaxTexts
    BY Numbers
  <2> QED
    BY <2>1 DEF Init, Uis
<1>4. World \in Worlds
  BY <1>1, <1>2, <1>3 DEF World, Worlds
<1>5. RunnersWait(World) /\ SummariesLand(World)
  BY WorldFields DEF Init, RunnersWait, Running, Sleeping, SummariesLand
<1>6. CallsSubmitted(World)
  BY WorldFields DEF Init, CallsSubmitted
<1>7. TextsWait(World)
  BY WorldFields DEF Init, TextsWait, Listed
<1> QED
  BY <1>4, <1>5, <1>6, <1>7 DEF Orderly

LEMMA NextOrders ==
  ASSUME Orderly(World), [Next]_vars
  PROVE  Orderly(World')
<1>1. CASE Progress
  BY <1>1, StartPromptOrders, AgentAnswersOrders, ToolsFinishOrders, RunFailsOrders,
     ContinueFiresOrders, HandleMessageOrders, HandleAgentEndOrders, BackoffElapsesOrders,
     BackoffAbortedOrders, CompactionEndsOrders, CompactPreparesOrders, CompactSucceedsOrders,
     CompactFailsOrders, NavigateEndsOrders DEF Progress
<1>2. CASE Next /\ ~Progress
  BY <1>2, SubmitOrders, DequeueOrders, EscapeRunOrders, EscapeRetryOrders,
     EscapeCompactionOrders, AbortOrders, BashEndsOrders, SendCustomMessageOrders,
     CompactOrders, NavigateOrders DEF Next
<1>3. CASE UNCHANGED vars
  <2>1. World' = World
    BY <1>3 DEF vars, World
  <2> QED
    BY <2>1
<1> QED
  BY <1>1, <1>2, <1>3

LEMMA KnownAreMessages == Seq(Known) \subseteq Seq(Messages)
BY DEF Known

LEMMA OrderIsTyped ==
  ASSUME Orderly(World)
  PROVE  TypeOK
<1>1. agent \in Agents /\ session \in Sessions /\ ui \in Uis
  BY WorldFields DEF Orderly, Worlds
<1>2. \A c, d \in session.compactions : c.runner = d.runner => c = d
  BY WorldFields DEF Orderly, RunnersWait, Running
<1> QED
  BY <1>1, <1>2, KnownAreMessages DEF TypeOK, Agents, Sessions, Uis, Started, Places4Calls

\* In every state a prompt that awaits a compaction is the only one to, an event's
\* handler does not pause while a compaction it awaits runs, a text the interface
\* keeps is kept once and is not being prompted, and a summary under way has a
\* place to go to: what prompt, runAutoCompaction, handleRetryableError,
\* flushCompactionQueue and navigateTree take for granted when they go on.
THEOREM OrderTheorem == Spec => []Orderly(World)
<1>1. Init => Orderly(World)
  BY InitOrders
<1>2. Orderly(World) /\ [Next]_vars => Orderly(World)'
  <2> SUFFICES ASSUME Orderly(World), [Next]_vars PROVE Orderly(World')
    OBVIOUS
  <2> QED
    BY NextOrders
<1> QED
  BY <1>1, <1>2, PTL DEF Spec

\* In every state every field of the session and of its interface has its type, a
\* retry counter never exceeds its setting, and one summary at a time runs for a
\* prompt or for the handler of an event (checkCompaction, prompt and
\* handleRetryableError start one only where none is under way).
THEOREM TypeTheorem == Spec => []TypeOK
<1>1. Orderly(World) => TypeOK
  BY OrderIsTyped
<1> QED
  BY <1>1, OrderTheorem, PTL

-----------------------------------------------------------------------------
(* Who has the turn. Either the session waits - in a pause, for a summary - *)
(* or something goes on: a run, its events, a prompt that starts one, a     *)
(* timer that does. It holds when events are handled at once and nobody     *)
(* starts a run, a manual compaction or a navigation in between.            *)

Undisturbed ==
  /\ ~Lag
  /\ Uses \cap {"overlap", "early", "midrun", "precheck"} = {}
  /\ Uses \cap {"compact", "tree"} # {} => Client = "interactive" /\ ("custom" \in Uses => MaxActs <= 1)

Asks(w) == {t \in Text : w.session.calls[t] = "starting"}
Waiting(w) ==
  \/ w.session.backoff # "none" \/ w.session.compactions # {}
  \/ w.session.manual # "none" \/ w.session.tree = "summary"
Going(w) ==
  \/ w.agent.run # "idle" \/ w.session.events # <<>>
  \/ Asks(w) # {} \/ w.session.timers # 0

\* It waits for one thing at a time, and for what the user may ask for.
OneWait(w) ==
  /\ w.session.backoff # "none" =>
       w.session.compactions = {} /\ w.session.manual = "none" /\ w.session.tree # "summary"
  /\ w.session.compactions # {} => w.session.manual = "none" /\ w.session.tree # "summary"
  /\ w.session.manual # "none" => w.session.tree # "summary"
  /\ w.session.connected <=> w.session.manual = "none"
Asked(w) ==
  /\ w.session.manual # "none" => w.ui.acts >= 1 /\ "compact" \in Uses
  /\ w.session.tree = "summary" => w.ui.acts >= 1 /\ "tree" \in Uses
  /\ \A c \in w.session.compactions : c.runner = Events

\* One prompt at a time starts a run, when the last one is through; the end of a
\* run is the last that is heard of it.
OnePrompt(w) ==
  /\ \A t, u \in Asks(w) : t = u
  /\ Asks(w) # {} => w.agent.run = "idle" /\ w.session.events = <<>>
  /\ \A i \in 1..Len(w.session.events) : w.session.events[i].role = "agent_end" =>
       i = Len(w.session.events) /\ w.agent.run = "idle" /\ w.session.timers = 0

Turns(w) == ~(Waiting(w) /\ Going(w)) /\ OneWait(w) /\ Asked(w) /\ OnePrompt(w)

-----------------------------------------------------------------------------
(* Calls and results. In the transcript and on the path a result follows    *)
(* its call, and what is heard of a run goes on where the path ends.        *)

CutAt(s, n) == n \in 1..Len(s) /\ s[n].role \notin {"toolResult", "compaction"}
EndsInCall(s) == s # <<>> /\ s[Len(s)].role = "assistant" /\ s[Len(s)].stop = "toolUse"

Queueable == {m \in Known : m.role \in {"user", "custom"}}
BashMessages == {m \in Known : m.role = "bash"}
Queues(w) ==
  /\ w.agent.steering \in Seq(Queueable) /\ w.agent.followUp \in Seq(Queueable)
  /\ w.session.pendingBash \in Seq(BashMessages)

\* A compaction keeps a path from a message that is no result.
KeptFromCut(s) ==
  \A i \in 1..Len(s) : s[i].role = "compaction" => s[i].id < i /\ CutAt(s, s[i].id)
Cutting(w) ==
  /\ \A c \in w.session.compactions : CutAt(w.session.entries, c.first)
  /\ w.session.manual = "summary" => CutAt(w.session.entries, w.session.cut)

Path(w) ==
  /\ ResultFollowsCall(w.session.entries) /\ KeptFromCut(w.session.entries)
  /\ ResultFollowsCall(w.agent.messages)
Heard(w) ==
  /\ \A i \in 1..Len(w.session.events) :
       /\ w.session.events[i].role # "compaction"
       /\ w.session.events[i].role = "toolResult" => i = 1 /\ EndsInCall(w.session.entries)
  /\ w.agent.run = "tools" =>
       /\ EndsInCall(w.agent.messages)
       /\ EndsInCall(IF w.session.events = <<>> THEN w.session.entries ELSE w.session.events)

Followed(w) == Path(w) /\ Heard(w) /\ Cutting(w) /\ Queues(w)

Steady(w) == Turns(w) /\ Followed(w)

-----------------------------------------------------------------------------
(* What changes none of this.                                               *)

Scene(w) ==
  <<w.agent.run, w.session.backoff, w.session.timers, w.session.compactions, w.session.manual,
    w.session.cut, w.session.tree, w.session.connected, w.session.events, w.ui.acts>>
Talk(w) == <<w.agent.messages, w.session.entries, w.session.pendingBash>>

Passes(w, v) ==
  Scene(v) = Scene(w) /\ Talk(v) = Talk(w) /\ Asks(v) = Asks(w) /\ (Queues(w) => Queues(v))

LEMMA PassesSteady ==
  ASSUME NEW w, NEW v, Steady(w), Passes(w, v)
  PROVE  Steady(v)
<1>1. /\ v.agent.run = w.agent.run /\ v.session.backoff = w.session.backoff
      /\ v.session.timers = w.session.timers /\ v.session.compactions = w.session.compactions
      /\ v.session.manual = w.session.manual /\ v.session.cut = w.session.cut
      /\ v.session.tree = w.session.tree /\ v.session.connected = w.session.connected
      /\ v.session.events = w.session.events /\ v.ui.acts = w.ui.acts
      /\ v.agent.messages = w.agent.messages /\ v.session.entries = w.session.entries
      /\ Asks(v) = Asks(w) /\ Queues(v)
  BY DEF Passes, Scene, Talk, Steady, Followed
<1>2. Turns(v)
  BY <1>1 DEF Steady, Turns, Waiting, Going, OneWait, Asked, OnePrompt
<1>3. Followed(v)
  BY <1>1 DEF Steady, Followed, Path, Heard, Cutting
<1> QED
  BY <1>2, <1>3 DEF Steady

LEMMA PassesTransitive ==
  ASSUME NEW w, NEW v, NEW u, Passes(w, v), Passes(v, u)
  PROVE  Passes(w, u)
BY DEF Passes

\* A step that becomes a world has its fields.
LEMMA ReachesSteady ==
  ASSUME NEW w, Steady(w), Becomes(w)
  PROVE  Steady(World')
<1>1. World'.agent = w.agent /\ World'.session = w.session /\ World'.ui = w.ui
  BY DEF Becomes, World
<1>2. Passes(w, World')
  BY <1>1 DEF Passes, Scene, Talk, Asks, Queues
<1> QED
  BY <1>2, PassesSteady

LEMMA UserQueueable ==
  ASSUME NEW t \in Text, NEW via \in {"steer", "followUp", "prompt"}
  PROVE  User(t, via) \in Queueable
<1>1. User(t, via) \in Known
  BY UserKnown
<1>2. User(t, via).role = "user"
  BY DEF User, Msg
<1> QED
  BY <1>1, <1>2 DEF Queueable

LEMMA PassesRefl == ASSUME NEW w PROVE Passes(w, w)
BY DEF Passes

LEMMA QueuePasses ==
  ASSUME NEW w \in Worlds, NEW q \in Texts
  PROVE  Passes(w, Queue(w, q))
<1>1. q.text \in Text /\ User(q.text, "steer") \in Queueable /\ User(q.text, "followUp") \in Queueable
  BY UserQueueable DEF Texts
<1> DEFINE v == queueSteer(w, q.text)
           u == queueFollowUp(w, q.text)
           x == Append(w.agent.steering, User(q.text, "steer"))
           y == Append(w.agent.followUp, User(q.text, "followUp"))
<1>2. /\ w.agent.steering \in Seq(Queueable) => x \in Seq(Queueable)
      /\ w.agent.followUp \in Seq(Queueable) => y \in Seq(Queueable)
  BY <1>1, AppendProperties
<1>3. /\ Scene(v) = Scene(w) /\ Talk(v) = Talk(w) /\ v.session.calls = w.session.calls
      /\ v.session.pendingBash = w.session.pendingBash
      /\ v.agent.steering = x /\ v.agent.followUp = w.agent.followUp
  BY DEF queueSteer, Worlds, Sessions, Agents, Scene, Talk
<1>4. /\ Scene(u) = Scene(w) /\ Talk(u) = Talk(w) /\ u.session.calls = w.session.calls
      /\ u.session.pendingBash = w.session.pendingBash
      /\ u.agent.steering = w.agent.steering /\ u.agent.followUp = y
  BY DEF queueFollowUp, Worlds, Sessions, Agents, Scene, Talk
<1>5. Queue(w, q) \in {v, u}
  BY DEF Queue
<1> HIDE DEF v, u, x, y
<1>6. Passes(w, v) /\ Passes(w, u)
  BY <1>2, <1>3, <1>4 DEF Passes, Asks, Queues
<1> QED
  BY <1>5, <1>6

LEMMA QueueAllPasses ==
  ASSUME NEW w \in Worlds, NEW qs \in Seq(Texts)
  PROVE  Passes(w, QueueAll(w, qs))
<1> DEFINE S == {v \in Worlds : Passes(w, v)}
<1>1. w \in S
  BY PassesRefl
<1>2. \A x \in S, q \in Texts : Queue(x, q) \in S
  <2> SUFFICES ASSUME NEW x \in S, NEW q \in Texts PROVE Queue(x, q) \in S
    OBVIOUS
  <2>1. Passes(w, Queue(x, q))
    BY QueuePasses, PassesTransitive
  <2>2. Queue(x, q) \in Worlds
    BY QueueKeeps DEF Keeps
  <2> QED
    BY <2>1, <2>2
<1> HIDE DEF S
<1>3. QueueAll(w, qs) \in S
  BY <1>1, <1>2, QueueAllReaches
<1> QED
  BY <1>3 DEF S

LEMMA ClearQueuePasses ==
  ASSUME NEW w \in Worlds
  PROVE  Passes(w, clearQueue(w))
<1> DEFINE v == clearQueue(w)
<1>1. /\ Scene(v) = Scene(w) /\ Talk(v) = Talk(w) /\ v.session.calls = w.session.calls
      /\ v.session.pendingBash = w.session.pendingBash
      /\ v.agent.steering = <<>> /\ v.agent.followUp = <<>>
  BY DEF clearQueue, Worlds, Sessions, Agents, Scene, Talk
<1>2. <<>> \in Seq(Queueable)
  OBVIOUS
<1> HIDE DEF v
<1>3. Passes(w, v)
  BY <1>1, <1>2 DEF Passes, Asks, Queues
<1> QED
  BY <1>3 DEF v

\* Calls that do not start a run may go where they do not either.
LEMMA ReturnPasses ==
  ASSUME NEW w \in Worlds, NEW calls, \A t \in calls \cap Text : w.session.calls[t] # "starting"
  PROVE  Passes(w, Return(w, calls))
<1> DEFINE v == Return(w, calls)
<1>1. /\ Scene(v) = Scene(w) /\ Talk(v) = Talk(w) /\ v.agent = w.agent
      /\ v.session.pendingBash = w.session.pendingBash
      /\ \A t \in Text : v.session.calls[t] = IF t \in calls THEN "none" ELSE w.session.calls[t]
  BY DEF Return, Worlds, Sessions, Uis, Scene, Talk
<1> HIDE DEF v
<1>2. Passes(w, v)
  BY <1>1 DEF Passes, Asks, Queues
<1> QED
  BY <1>2 DEF v

LEMMA MovePasses ==
  ASSUME NEW w \in Worlds, NEW calls, NEW at \in Places4Calls \ {"starting"},
         \A t \in calls \cap Text : w.session.calls[t] # "starting"
  PROVE  Passes(w, [w EXCEPT !.session.calls = [t \in Text |-> IF t \in calls THEN at ELSE w.session.calls[t]]])
<1> DEFINE v == [w EXCEPT !.session.calls = [t \in Text |-> IF t \in calls THEN at ELSE w.session.calls[t]]]
<1>1. /\ Scene(v) = Scene(w) /\ Talk(v) = Talk(w) /\ v.agent = w.agent
      /\ v.session.pendingBash = w.session.pendingBash
      /\ \A t \in Text : v.session.calls[t] = IF t \in calls THEN at ELSE w.session.calls[t]
  BY DEF Worlds, Sessions, Scene, Talk
<1> HIDE DEF v
<1>2. Passes(w, v)
  BY <1>1 DEF Passes, Asks, Queues
<1> QED
  BY <1>2 DEF v

LEMMA ResolvePasses ==
  ASSUME NEW w \in Worlds
  PROVE  Passes(w, resolveRetry(w))
<1> DEFINE waiting == CallsAt(w, "retrying")
           resolved == [w EXCEPT !.session.retryPromise = FALSE]
           goes == [resolved EXCEPT !.session.calls = [t \in Text |-> IF t \in waiting THEN "settling" ELSE @[t]]]
<1>1. resolveRetry(w) = IF isStreaming(w) THEN goes ELSE Return(resolved, waiting)
  BY DEF resolveRetry
<1>2. /\ resolved \in Worlds /\ Scene(resolved) = Scene(w) /\ Talk(resolved) = Talk(w)
      /\ resolved.agent = w.agent /\ resolved.session.calls = w.session.calls
      /\ resolved.session.pendingBash = w.session.pendingBash
  BY DEF Worlds, Sessions, Scene, Talk
<1> HIDE DEF resolved
<1>3. Passes(w, resolved)
  BY <1>2 DEF Passes, Asks, Queues
<1>4. \A t \in waiting \cap Text : resolved.session.calls[t] # "starting"
  BY <1>2, CallsAtAre
<1> HIDE DEF waiting
<1>5. Passes(resolved, goes)
  BY <1>2, <1>4, MovePasses DEF Places4Calls
<1>6. Passes(resolved, Return(resolved, waiting))
  BY <1>2, <1>4, ReturnPasses
<1> HIDE DEF goes
<1>7. Passes(resolved, resolveRetry(w))
  BY <1>1, <1>5, <1>6
<1> QED
  BY <1>3, <1>7, PassesTransitive

LEMMA ControllerPasses ==
  ASSUME NEW w \in Worlds, NEW r
  PROVE  Passes(w, [w EXCEPT !.session.controller = r])
<1> DEFINE v == [w EXCEPT !.session.controller = r]
<1>1. /\ Scene(v) = Scene(w) /\ Talk(v) = Talk(w) /\ v.agent = w.agent
      /\ v.session.pendingBash = w.session.pendingBash /\ v.session.calls = w.session.calls
  BY DEF Worlds, Sessions, Scene, Talk
<1> HIDE DEF v
<1>2. Passes(w, v)
  BY <1>1 DEF Passes, Asks, Queues
<1> QED
  BY <1>2 DEF v

-----------------------------------------------------------------------------
(* Results in sequences that are put together and taken apart.              *)

\* Messages that may follow a sequence: a result only first, and behind a call.
Continues(s, ms) ==
  \A i \in 1..Len(ms) : ms[i].role = "toolResult" => i = 1 /\ EndsInCall(s)

LEMMA ResultsAre ==
  ASSUME NEW T, NEW s \in Seq(T)
  PROVE  ResultFollowsCall(s) <=>
           \A i \in 1..Len(s) : s[i].role = "toolResult" =>
             i > 1 /\ s[i - 1].role = "assistant" /\ s[i - 1].stop = "toolUse"
<1>1. DOMAIN s = 1..Len(s)
  BY LenProperties
<1> QED
  BY <1>1 DEF ResultFollowsCall

LEMMA ResultsConcat ==
  ASSUME NEW T, NEW s \in Seq(T), NEW ms \in Seq(T), ResultFollowsCall(s), Continues(s, ms)
  PROVE  ResultFollowsCall(s \o ms)
<1> DEFINE r == s \o ms
<1>1. Len(s) \in Nat /\ Len(ms) \in Nat /\ r \in Seq(T) /\ Len(r) = Len(s) + Len(ms)
  BY LenProperties, ConcatProperties
<1>2. /\ \A i \in 1..Len(s) : r[i] = s[i]
      /\ \A i \in (Len(s) + 1)..(Len(s) + Len(ms)) : r[i] = ms[i - Len(s)]
  BY <1>1, ConcatProperties
<1> HIDE DEF r
<1>3. \A i \in 1..Len(s) : s[i].role = "toolResult" =>
        i > 1 /\ s[i - 1].role = "assistant" /\ s[i - 1].stop = "toolUse"
  BY ResultsAre
<1>4. SUFFICES ASSUME NEW i \in 1..Len(r), r[i].role = "toolResult"
               PROVE  i > 1 /\ r[i - 1].role = "assistant" /\ r[i - 1].stop = "toolUse"
  BY <1>1, ResultsAre DEF r
<1>5. CASE i \in 1..Len(s)
  <2>1. i > 1 /\ s[i - 1].role = "assistant" /\ s[i - 1].stop = "toolUse"
    BY <1>2, <1>3, <1>4, <1>5
  <2>2. i - 1 \in 1..Len(s)
    BY <1>1, <1>5, <2>1
  <2> QED
    BY <1>2, <2>1, <2>2
<1>6. CASE i \in (Len(s) + 1)..(Len(s) + Len(ms))
  <2>1. i - Len(s) \in 1..Len(ms) /\ ms[i - Len(s)].role = "toolResult"
    BY <1>1, <1>2, <1>4, <1>6
  <2>2. i - Len(s) = 1 /\ EndsInCall(s)
    BY <2>1 DEF Continues
  <2>3. Len(s) # 0
    BY <2>2, EmptySeq DEF EndsInCall
  <2>4. i - 1 = Len(s) /\ Len(s) \in 1..Len(s)
    BY <1>1, <1>6, <2>2, <2>3
  <2> QED
    BY <1>1, <1>2, <2>2, <2>4 DEF EndsInCall
<1> QED
  BY <1>1, <1>4, <1>5, <1>6

LEMMA EndsConcat ==
  ASSUME NEW T, NEW s \in Seq(T), NEW ms \in Seq(T), EndsInCall(ms)
  PROVE  EndsInCall(s \o ms)
<1> DEFINE r == s \o ms
<1>1. Len(s) \in Nat /\ Len(ms) \in Nat /\ r \in Seq(T) /\ Len(r) = Len(s) + Len(ms)
  BY LenProperties, ConcatProperties
<1>2. Len(ms) # 0
  BY EmptySeq DEF EndsInCall
<1>3. r[Len(s) + Len(ms)] = ms[Len(ms)]
  <2>1. Len(s) + Len(ms) \in (Len(s) + 1)..(Len(s) + Len(ms)) /\ Len(s) + Len(ms) - Len(s) = Len(ms)
    BY <1>1, <1>2
  <2> QED
    BY <2>1, ConcatProperties
<1>4. r # <<>>
  BY <1>1, <1>2, EmptySeq
<1> QED
  BY <1>1, <1>3, <1>4 DEF EndsInCall

LEMMA ContinuesOne ==
  ASSUME NEW s, NEW m \in Known, m.role = "toolResult" => EndsInCall(s)
  PROVE  Continues(s, <<m>>)
BY DEF Continues

\* Messages of which none is a result.
LEMMA ContinuesPlain ==
  ASSUME NEW s, NEW ms, \A i \in 1..Len(ms) : ms[i].role # "toolResult"
  PROVE  Continues(s, ms)
BY DEF Continues

LEMMA QueueableElements ==
  ASSUME NEW ms \in Seq(Queueable)
  PROVE  /\ ms \in Seq(Known)
         /\ \A i \in 1..Len(ms) : ms[i] \in Queueable /\ ms[i].role \in {"user", "custom"}
<1>1. \A i \in 1..Len(ms) : ms[i] \in Queueable
  BY ElementOfSeq
<1>2. Queueable \subseteq Known
  BY DEF Queueable
<1>3. ms \in Seq(Known)
  BY <1>2
<1> QED
  BY <1>1, <1>3 DEF Queueable

LEMMA SubSeqResults ==
  ASSUME NEW T, NEW s \in Seq(T), NEW n \in 0..Len(s), ResultFollowsCall(s)
  PROVE  ResultFollowsCall(SubSeq(s, 1, n))
<1>1. Len(s) \in Nat
  BY LenProperties
<1>2. \A i \in 1..n : s[i] \in T
  BY <1>1, ElementOfSeq
<1>3. /\ SubSeq(s, 1, n) \in Seq(T)
      /\ Len(SubSeq(s, 1, n)) = n
      /\ \A i \in 1..n : SubSeq(s, 1, n)[i] = s[i]
  <2>1. 1 \in Int /\ n \in Int
    BY <1>1
  <2>2. /\ SubSeq(s, 1, n) \in Seq(T)
        /\ Len(SubSeq(s, 1, n)) = IF 1 <= n THEN n - 1 + 1 ELSE 0
        /\ \A i \in 1..(n - 1 + 1) : SubSeq(s, 1, n)[i] = s[1 + i - 1]
    BY <1>2, <2>1, SubSeqProperties
  <2> QED
    BY <1>1, <2>2
<1> DEFINE r == SubSeq(s, 1, n)
<1>4. r \in Seq(T) /\ Len(r) = n /\ \A i \in 1..n : r[i] = s[i]
  BY <1>3
<1> HIDE DEF r
<1>5. SUFFICES ASSUME NEW i \in 1..n, r[i].role = "toolResult"
               PROVE  i > 1 /\ r[i - 1].role = "assistant" /\ r[i - 1].stop = "toolUse"
  BY <1>4, ResultsAre DEF r
<1>6. i \in 1..Len(s) /\ s[i].role = "toolResult"
  BY <1>1, <1>4, <1>5
<1>7. i > 1 /\ s[i - 1].role = "assistant" /\ s[i - 1].stop = "toolUse"
  BY <1>6, ResultsAre
<1> QED
  BY <1>1, <1>4, <1>5, <1>7

LEMMA ResultsJoin ==
  ASSUME NEW T, NEW s \in Seq(T), NEW ms \in Seq(T), ResultFollowsCall(s), ResultFollowsCall(ms)
  PROVE  ResultFollowsCall(s \o ms)
<1>1. \A i \in 1..Len(ms) : ms[i].role = "toolResult" =>
        i > 1 /\ ms[i - 1].role = "assistant" /\ ms[i - 1].stop = "toolUse"
  BY ResultsAre
<1> DEFINE r == s \o ms
<1>2. Len(s) \in Nat /\ Len(ms) \in Nat /\ r \in Seq(T) /\ Len(r) = Len(s) + Len(ms)
  BY LenProperties, ConcatProperties
<1>3. /\ \A i \in 1..Len(s) : r[i] = s[i]
      /\ \A i \in (Len(s) + 1)..(Len(s) + Len(ms)) : r[i] = ms[i - Len(s)]
  BY <1>2, ConcatProperties
<1> HIDE DEF r
<1>4. SUFFICES ASSUME NEW i \in 1..Len(r), r[i].role = "toolResult"
               PROVE  i > 1 /\ r[i - 1].role = "assistant" /\ r[i - 1].stop = "toolUse"
  BY <1>2, ResultsAre DEF r
<1>5. CASE i \in 1..Len(s)
  <2>1. s[i].role = "toolResult"
    BY <1>3, <1>4, <1>5
  <2>2. i > 1 /\ s[i - 1].role = "assistant" /\ s[i - 1].stop = "toolUse"
    BY <1>5, <2>1, ResultsAre
  <2>3. i - 1 \in 1..Len(s)
    BY <1>2, <1>5, <2>2
  <2> QED
    BY <1>3, <2>2, <2>3
<1>6. CASE i \in (Len(s) + 1)..(Len(s) + Len(ms))
  <2>0. i - Len(s) \in 1..Len(ms)
    BY <1>2, <1>6
  <2>1. PICK k \in 1..Len(ms) : k = i - Len(s)
    BY <2>0
  <2>2. ms[k].role = "toolResult"
    BY <1>3, <1>4, <1>6, <2>1
  <2>3. k > 1 /\ ms[k - 1].role = "assistant" /\ ms[k - 1].stop = "toolUse"
    BY <1>1, <2>2
  <2>4. i - 1 \in (Len(s) + 1)..(Len(s) + Len(ms)) /\ i - 1 - Len(s) = k - 1 /\ i > 1
    BY <1>2, <1>6, <2>1, <2>3
  <2> QED
    BY <1>3, <2>3, <2>4
<1> QED
  BY <1>2, <1>4, <1>5, <1>6

LEMMA StepsHold ==
  ASSUME NEW n \in Nat, NEW H, H[0] = TRUE, \A i \in 1..n : H[i - 1] = TRUE => H[i] = TRUE
  PROVE  \A i \in 0..n : H[i] = TRUE
<1> DEFINE S == {TRUE}
<1>1. H[0] \in S /\ \A i \in 1..n : H[i - 1] \in S => H[i] \in S
  OBVIOUS
<1>2. \A i \in 0..n : H[i] \in S
  <2> HIDE DEF S
  <2> QED BY <1>1, StepsReach
<1> QED
  BY <1>2

\* The sequence without its compactions, message by message.
LEMMA WithoutCompactionsSteps ==
  ASSUME NEW T, NEW s \in Seq(T)
  PROVE  \E kept :
           /\ WithoutCompactions(s) = kept[Len(s)] /\ kept[0] = <<>>
           /\ \A i \in 1..Len(s) :
                kept[i] = IF s[i].role # "compaction" THEN Append(kept[i - 1], s[i]) ELSE kept[i - 1]
           /\ \A i \in 0..Len(s) : kept[i] \in Seq(T)
<1> DEFINE n == Len(s)
           g == [p \in (1..n) \X Seq(T) |->
                   IF s[p[1]].role # "compaction" THEN Append(p[2], s[p[1]]) ELSE p[2]]
           Goes(f) == f = [i \in 0..n |-> IF i = 0 THEN <<>>
                             ELSE IF s[i].role # "compaction" THEN Append(f[i - 1], s[i])
                             ELSE f[i - 1]]
           kept == CHOOSE f : Goes(f)
<1>1. n \in Nat /\ \A i \in 1..n : s[i] \in T
  BY LenProperties, ElementOfSeq
<1>2. \A i \in 1..n, x \in Seq(T) :
        /\ g[<<i, x>>] \in Seq(T)
        /\ g[<<i, x>>] = IF s[i].role # "compaction" THEN Append(x, s[i]) ELSE x
  BY <1>1, AppendProperties
<1>3. PICK f : Along(f, n, <<>>, g) /\ \A i \in 0..n : f[i] \in Seq(T)
  <2>1. <<>> \in Seq(T)
    OBVIOUS
  <2> HIDE DEF g, n
  <2> QED
    BY <1>1, <1>2, <2>1, StepsExist
<1>4. Goes(f)
  <2>1. \A i \in 1..n : g[<<i, f[i - 1]>>] = IF s[i].role # "compaction" THEN Append(f[i - 1], s[i]) ELSE f[i - 1]
    <3>1. \A i \in 1..n : f[i - 1] \in Seq(T)
      BY <1>1, <1>3
    <3> QED BY <1>2, <3>1
  <2>2. f = [i \in 0..n |-> IF i = 0 THEN <<>> ELSE g[<<i, f[i - 1]>>]]
    BY <1>3 DEF Along
  <2> HIDE DEF g, n
  <2>3. \A i \in 0..n : i # 0 => i \in 1..n
    BY <1>1
  <2> QED
    BY <2>1, <2>2, <2>3
<1>5. Goes(kept)
  <2> HIDE DEF Goes
  <2> QED BY <1>4, Zenon
<1>6. kept[0] = <<>> /\ \A i \in 1..n : kept[i] = IF s[i].role # "compaction" THEN Append(kept[i - 1], s[i]) ELSE kept[i - 1]
  <2> SUFFICES ASSUME NEW h, Goes(h)
               PROVE  h[0] = <<>> /\ \A i \in 1..n : h[i] = IF s[i].role # "compaction" THEN Append(h[i - 1], s[i]) ELSE h[i - 1]
    <3> HIDE DEF kept
    <3> QED BY <1>5
  <2>1. 0 \in 0..n /\ \A i \in 1..n : i \in 0..n /\ i # 0
    BY <1>1
  <2> HIDE DEF n
  <2> QED BY <2>1
<1>7. \A i \in 0..n : kept[i] \in Seq(T)
  <2>1. kept[0] \in Seq(T)
    <3> HIDE DEF kept
    <3> QED BY <1>6
  <2>2. \A i \in 1..n : kept[i - 1] \in Seq(T) => kept[i] \in Seq(T)
    <3> HIDE DEF kept
    <3> QED BY <1>1, <1>6, AppendProperties
  <2> HIDE DEF kept, n
  <2> QED
    BY <1>1, <2>1, <2>2, StepsReach
<1>8. WithoutCompactions(s) = kept[n]
  BY DEF WithoutCompactions
<1> HIDE DEF kept
<1> QED
  BY <1>6, <1>7, <1>8

LEMMA AppendResults ==
  ASSUME NEW T, NEW s \in Seq(T), NEW m \in T, ResultFollowsCall(s),
         m.role = "toolResult" => EndsInCall(s)
  PROVE  /\ ResultFollowsCall(Append(s, m))
         /\ m.role = "assistant" /\ m.stop = "toolUse" => EndsInCall(Append(s, m))
<1> DEFINE r == Append(s, m)
<1>1. /\ Len(s) \in Nat /\ r \in Seq(T) /\ Len(r) = Len(s) + 1 /\ r # <<>>
      /\ r[Len(s) + 1] = m /\ \A i \in 1..Len(s) : r[i] = s[i]
  BY LenProperties, AppendProperties
<1> HIDE DEF r
<1>2. m.role = "assistant" /\ m.stop = "toolUse" => EndsInCall(r)
  BY <1>1 DEF EndsInCall
<1>3. ResultFollowsCall(r)
  <2>1. SUFFICES ASSUME NEW i \in 1..Len(r), r[i].role = "toolResult"
                 PROVE  i > 1 /\ r[i - 1].role = "assistant" /\ r[i - 1].stop = "toolUse"
    BY <1>1, ResultsAre
  <2>2. CASE i \in 1..Len(s)
    <3>1. i > 1 /\ s[i - 1].role = "assistant" /\ s[i - 1].stop = "toolUse"
      BY <1>1, <2>1, <2>2, ResultsAre
    <3>2. i - 1 \in 1..Len(s)
      BY <1>1, <2>2, <3>1
    <3> QED
      BY <1>1, <3>1, <3>2
  <2>3. CASE i = Len(s) + 1
    <3>1. EndsInCall(s)
      BY <1>1, <2>1, <2>3
    <3>2. Len(s) # 0
      BY <3>1, EmptySeq DEF EndsInCall
    <3>3. i - 1 = Len(s) /\ Len(s) \in 1..Len(s) /\ i > 1
      BY <1>1, <2>3, <3>2
    <3> QED
      BY <1>1, <3>1, <3>3 DEF EndsInCall
  <2> QED
    BY <1>1, <2>1, <2>2, <2>3
<1> QED
  BY <1>2, <1>3 DEF r

\* Compactions that are left out part no result from its call.
LEMMA WithoutCompactionsResults ==
  ASSUME NEW s \in Seq(Known), ResultFollowsCall(s)
  PROVE  ResultFollowsCall(WithoutCompactions(s))
<1>1. PICK kept :
           /\ WithoutCompactions(s) = kept[Len(s)] /\ kept[0] = <<>>
           /\ \A i \in 1..Len(s) :
                kept[i] = IF s[i].role # "compaction" THEN Append(kept[i - 1], s[i]) ELSE kept[i - 1]
           /\ \A i \in 0..Len(s) : kept[i] \in Seq(Known)
  BY WithoutCompactionsSteps
<1>2. Len(s) \in Nat /\ \A i \in 1..Len(s) : s[i] \in Known
  BY LenProperties, ElementOfSeq
<1> DEFINE Calls(i) == s[i].role = "assistant" /\ s[i].stop = "toolUse"
           Good(i) == ResultFollowsCall(kept[i]) /\ (i > 0 /\ Calls(i) => EndsInCall(kept[i]))
           H == [i \in 0..Len(s) |-> Good(i)]
<1>3. Good(0)
  <2>1. ResultFollowsCall(<<>>)
    BY DEF ResultFollowsCall
  <2> QED
    BY <1>1, <2>1
<1>4. ASSUME NEW i \in 1..Len(s), Good(i - 1)
      PROVE  Good(i)
  <2>1. kept[i - 1] \in Seq(Known) /\ s[i] \in Known /\ i - 1 \in 0..Len(s) /\ i > 0
    BY <1>1, <1>2
  <2>2. s[i].role = "toolResult" => EndsInCall(kept[i - 1])
    <3>1. s[i].role = "toolResult" => i > 1 /\ Calls(i - 1)
      BY ResultsAre
    <3>2. i > 1 => i - 1 > 0
      OBVIOUS
    <3> HIDE DEF Calls
    <3> QED
      BY <1>4, <3>1, <3>2
  <2>3. CASE s[i].role = "compaction"
    <3>1. kept[i] = kept[i - 1]
      BY <1>1, <2>3
    <3>2. ~Calls(i)
      BY <2>3
    <3> QED
      BY <1>4, <3>1, <3>2
  <2>4. CASE s[i].role # "compaction"
    <3>1. kept[i] = Append(kept[i - 1], s[i])
      BY <1>1, <2>4
    <3>2. ResultFollowsCall(kept[i - 1])
      BY <1>4
    <3>3. /\ ResultFollowsCall(Append(kept[i - 1], s[i]))
          /\ s[i].role = "assistant" /\ s[i].stop = "toolUse" => EndsInCall(Append(kept[i - 1], s[i]))
      BY <2>1, <2>2, <3>2, AppendResults
    <3> QED
      BY <3>1, <3>3
  <2> QED
    BY <2>3, <2>4
<1> HIDE DEF Good
<1>5. H[0] = TRUE /\ \A i \in 1..Len(s) : H[i - 1] = TRUE => H[i] = TRUE
  <2>1. 0 \in 0..Len(s) /\ \A i \in 1..Len(s) : i \in 0..Len(s) /\ i - 1 \in 0..Len(s)
    BY <1>2
  <2>2. H[0] = TRUE
    BY <1>3, <2>1
  <2>3. \A i \in 1..Len(s) : Good(i - 1) => Good(i)
    BY <1>4
  <2>4. \A i \in 1..Len(s) : H[i - 1] = Good(i - 1) /\ H[i] = Good(i)
    BY <2>1
  <2> HIDE DEF H
  <2> QED
    BY <2>2, <2>3, <2>4
<1>6. \A i \in 0..Len(s) : H[i] = TRUE
  <2> HIDE DEF H
  <2> QED BY <1>2, <1>5, StepsHold
<1>7. Good(Len(s))
  <2>1. Len(s) \in 0..Len(s)
    BY <1>2
  <2> QED
    BY <1>6, <2>1
<1> QED
  BY <1>1, <1>7 DEF Good

\* A context keeps what follows a call behind it: it is cut at no result.
LEMMA ContextResults ==
  ASSUME NEW s \in Seq(Known), ResultFollowsCall(s), KeptFromCut(s)
  PROVE  ResultFollowsCall(Context(s))
<1>1. CASE LastCompaction(s) = 0
  BY <1>1 DEF Context
<1>2. CASE LastCompaction(s) # 0
  <2>1. PICK c \in 1..Len(s) : c = LastCompaction(s) /\ s[c].role = "compaction"
    BY <1>2, LastCompactionIs
  <2>2. Len(s) \in Nat /\ \A i \in 1..Len(s) : s[i] \in Known
    BY LenProperties, ElementOfSeq
  <2>3. PICK k \in 1..Len(s) : k = s[c].id /\ k < c /\ s[k].role # "toolResult"
    <3>1. s[c].id < c /\ CutAt(s, s[c].id)
      BY <2>1 DEF KeptFromCut
    <3> QED
      BY <3>1 DEF CutAt
  <2>4. SubSeq(s, k, c - 1) \in Seq(Known) /\ SubSeq(s, c + 1, Len(s)) \in Seq(Known)
    BY <2>2, SubSeqTyped
  <2> DEFINE a == SubSeq(s, k, c - 1)
             b == SubSeq(s, c + 1, Len(s))
  <2>5. \A i \in 1..Len(s) : s[i].role = "toolResult" =>
          i > 1 /\ s[i - 1].role = "assistant" /\ s[i - 1].stop = "toolUse"
    BY ResultsAre
  <2>6. ResultFollowsCall(a)
    <3>1. PICK n \in Nat : n = c - k
      BY <2>3
    <3>2. Len(a) = n /\ \A i \in 1..n : a[i] = s[k + i - 1]
      <4>1. k \in Int /\ c - 1 \in Int /\ \A i \in k..(c - 1) : s[i] \in Known
        BY <2>2
      <4>2. /\ Len(SubSeq(s, k, c - 1)) = IF k <= c - 1 THEN c - 1 - k + 1 ELSE 0
            /\ \A i \in 1..(c - 1 - k + 1) : SubSeq(s, k, c - 1)[i] = s[k + i - 1]
        BY <4>1, SubSeqProperties
      <4> QED
        BY <2>3, <3>1, <4>2
    <3> HIDE DEF a
    <3>3. SUFFICES ASSUME NEW i \in 1..n, a[i].role = "toolResult"
                   PROVE  i > 1 /\ a[i - 1].role = "assistant" /\ a[i - 1].stop = "toolUse"
      BY <2>4, <3>2, ResultsAre DEF a
    <3>4. k + i - 1 \in 1..Len(s) /\ s[k + i - 1].role = "toolResult"
      BY <3>1, <3>2, <3>3
    <3>5. i # 1
      BY <2>3, <3>4
    <3>6. s[k + i - 1 - 1].role = "assistant" /\ s[k + i - 1 - 1].stop = "toolUse"
      BY <2>5, <3>4
    <3>7. i - 1 \in 1..n /\ k + (i - 1) - 1 = k + i - 1 - 1 /\ i > 1
      BY <3>1, <3>5
    <3> QED
      BY <3>2, <3>6, <3>7
  <2>7. ResultFollowsCall(b)
    <3>1. PICK n \in Nat : n = Len(s) - c
      BY <2>2
    <3>2. Len(b) = n /\ \A i \in 1..n : b[i] = s[c + i]
      <4>1. c + 1 \in Int /\ Len(s) \in Int /\ \A i \in (c + 1)..Len(s) : s[i] \in Known
        BY <2>2
      <4>2. /\ Len(SubSeq(s, c + 1, Len(s))) = IF c + 1 <= Len(s) THEN Len(s) - (c + 1) + 1 ELSE 0
            /\ \A i \in 1..(Len(s) - (c + 1) + 1) : SubSeq(s, c + 1, Len(s))[i] = s[c + 1 + i - 1]
        BY <4>1, SubSeqProperties
      <4>3. \A i \in 1..n : c + 1 + i - 1 = c + i
        OBVIOUS
      <4> QED
        BY <2>2, <3>1, <4>2, <4>3
    <3> HIDE DEF b
    <3>3. SUFFICES ASSUME NEW i \in 1..n, b[i].role = "toolResult"
                   PROVE  i > 1 /\ b[i - 1].role = "assistant" /\ b[i - 1].stop = "toolUse"
      BY <2>4, <3>2, ResultsAre DEF b
    <3>4. c + i \in 1..Len(s) /\ s[c + i].role = "toolResult"
      BY <3>1, <3>2, <3>3
    <3>5. s[c + i - 1].role = "assistant" /\ s[c + i - 1].stop = "toolUse"
      BY <2>5, <3>4
    <3>6. i # 1
      BY <2>1, <3>5
    <3>7. i - 1 \in 1..n /\ c + (i - 1) = c + i - 1 /\ i > 1
      BY <3>1, <3>6
    <3> QED
      BY <3>2, <3>5, <3>7
  <2> HIDE DEF a, b
  <2>8. a \o b \in Seq(Known) /\ ResultFollowsCall(a \o b)
    BY <2>4, <2>6, <2>7, ResultsJoin, ConcatProperties DEF a, b
  <2>9. ResultFollowsCall(WithoutCompactions(a \o b)) /\ WithoutCompactions(a \o b) \in Seq(Known)
    BY <2>8, WithoutCompactionsResults, WithoutCompactionsTyped
  <2>10. <<s[c]>> \in Seq(Known) /\ ResultFollowsCall(<<s[c]>>)
    BY <2>1, <2>2 DEF ResultFollowsCall
  <2>11. Context(s) = <<s[c]>> \o WithoutCompactions(a \o b)
    BY <1>2, <2>1, <2>3 DEF Context, a, b
  <2> QED
    BY <2>9, <2>10, <2>11, ResultsJoin
<1> QED
  BY <1>1, <1>2

-----------------------------------------------------------------------------
(* What a run says.                                                         *)

Around(w) ==
  <<w.session.backoff, w.session.timers, w.session.compactions, w.session.manual, w.session.cut,
    w.session.tree, w.session.connected, w.ui.acts, w.session.entries, w.session.pendingBash>>

\* The agent shows ms, and the session hears of it.
Says(w, v, ms) ==
  /\ Around(v) = Around(w) /\ Asks(v) = Asks(w)
  /\ v.agent.messages = w.agent.messages \o ms
  /\ v.session.events = w.session.events \o ms
  /\ Queues(w) => Queues(v)

LEMMA SaysNothing ==
  ASSUME NEW w \in Worlds
  PROVE  Says(w, w, <<>>)
<1>1. w.agent.messages \in Seq(Known) /\ w.session.events \in Seq(Known)
  BY DEF Worlds, Agents, Sessions
<1>2. w.agent.messages \o <<>> = w.agent.messages /\ w.session.events \o <<>> = w.session.events
  BY <1>1, ConcatEmptySeq
<1> QED
  BY <1>2 DEF Says

LEMMA SaysTransitive ==
  ASSUME NEW w \in Worlds, NEW v, NEW u, NEW a \in Seq(Known), NEW b \in Seq(Known),
         Says(w, v, a), Says(v, u, b)
  PROVE  Says(w, u, a \o b)
<1>1. w.agent.messages \in Seq(Known) /\ w.session.events \in Seq(Known)
  BY DEF Worlds, Agents, Sessions
<1>2. \A s \in Seq(Known) : (s \o a) \o b = s \o (a \o b)
  BY ConcatAssociative, SMTT(30)
<1>3. /\ (w.agent.messages \o a) \o b = w.agent.messages \o (a \o b)
      /\ (w.session.events \o a) \o b = w.session.events \o (a \o b)
  BY <1>1, <1>2
<1> QED
  BY <1>3 DEF Says

\* What becomes of fields that nothing here looks at.
LEMMA SaysSame ==
  ASSUME NEW w, NEW v, NEW ms, Says(w, v, ms),
         NEW u, Around(u) = Around(v), Asks(u) = Asks(v),
         u.agent.messages = v.agent.messages, u.session.events = v.session.events,
         Queues(v) => Queues(u)
  PROVE  Says(w, u, ms)
BY DEF Says

LEMMA ShowAllSays ==
  ASSUME NEW w \in Worlds, w.session.connected, NEW ms \in Seq(Known)
  PROVE  /\ Says(w, ShowAll(w, ms), ms) /\ ShowAll(w, ms).agent.run = w.agent.run
         /\ ShowAll(w, ms) \in Worlds
         /\ ShowAll(w, ms).agent.steering = w.agent.steering
         /\ ShowAll(w, ms).agent.followUp = w.agent.followUp
         /\ ShowAll(w, ms).session.connected
<1> DEFINE v == ShowAll(w, ms)
<1>1. v \in Worlds
  BY ShowAllKeeps DEF Keeps
<1>2. /\ Around(v) = Around(w) /\ v.session.calls = w.session.calls
      /\ v.agent.messages = w.agent.messages \o ms
      /\ v.session.events = w.session.events \o ms
      /\ v.agent.steering = w.agent.steering /\ v.agent.followUp = w.agent.followUp
      /\ v.session.pendingBash = w.session.pendingBash
      /\ v.agent.run = w.agent.run /\ v.session.connected = w.session.connected
  BY DEF ShowAll, Worlds, Agents, Sessions, Around
<1> HIDE DEF v
<1>3. Says(w, v, ms)
  BY <1>2 DEF Says, Asks, Queues
<1> QED
  BY <1>1, <1>2, <1>3 DEF v

\* A poll shows at most one message, of those that may be queued.
LEMMA PollsSay ==
  ASSUME NEW w \in Worlds, w.session.connected, Queues(w)
  PROVE  /\ \E ms \in Seq(Queueable) : Says(w, PollSteering(w), ms)
         /\ \E ms \in Seq(Queueable) : Says(w, PollFollowUps(w), ms)
         /\ PollSteering(w).agent.run = w.agent.run /\ PollFollowUps(w).agent.run = w.agent.run
<1>0. <<>> \in Seq(Queueable) /\ Queueable \subseteq Known
  BY DEF Queueable
<1>1. Says(w, w, <<>>)
  BY SaysNothing
<1>2. w.agent.steering \in Seq(Queueable) /\ w.agent.followUp \in Seq(Queueable)
  BY DEF Queues
<1>3. ASSUME w.agent.steering # <<>>
      PROVE  /\ \E ms \in Seq(Queueable) : Says(w, PollSteering(w), ms)
             /\ PollSteering(w).agent.run = w.agent.run
  <2> DEFINE v == [w EXCEPT !.agent.steering = Tail(@)]
             ms == <<Head(w.agent.steering)>>
  <2>1. Head(w.agent.steering) \in Queueable /\ Tail(w.agent.steering) \in Seq(Queueable)
    BY <1>2, <1>3, HeadTailProperties
  <2>2. Tail(w.agent.steering) \in Seq(Known) /\ ms \in Seq(Queueable) /\ ms \in Seq(Known)
    BY <1>0, <2>1
  <2>3. /\ v \in Worlds /\ v.session = w.session /\ v.ui = w.ui
        /\ v.agent.messages = w.agent.messages /\ v.agent.run = w.agent.run
        /\ v.agent.steering = Tail(w.agent.steering) /\ v.agent.followUp = w.agent.followUp
    BY <2>2 DEF Worlds, Agents
  <2>4. PollSteering(w) = ShowAll(v, ms)
    BY <1>3 DEF PollSteering, Show
  <2> HIDE DEF v, ms
  <2>5. Queues(v)
    BY <2>1, <2>3 DEF Queues
  <2>6. Says(v, ShowAll(v, ms), ms) /\ ShowAll(v, ms).agent.run = v.agent.run
    BY <2>2, <2>3, ShowAllSays
  <2> DEFINE u == ShowAll(v, ms)
  <2>7. Says(v, u, ms)
    BY <2>6
  <2> HIDE DEF u
  <2>8. Says(w, u, ms)
    BY <2>3, <2>5, <2>7 DEF Says, Around, Asks
  <2> QED
    BY <2>2, <2>3, <2>4, <2>6, <2>8 DEF u
<1>4. ASSUME w.agent.followUp # <<>>
      PROVE  /\ \E ms \in Seq(Queueable) : Says(w, PollFollowUps(w), ms)
             /\ PollFollowUps(w).agent.run = w.agent.run
  <2> DEFINE v == [w EXCEPT !.agent.followUp = Tail(@)]
             ms == <<Head(w.agent.followUp)>>
  <2>1. Head(w.agent.followUp) \in Queueable /\ Tail(w.agent.followUp) \in Seq(Queueable)
    BY <1>2, <1>4, HeadTailProperties
  <2>2. Tail(w.agent.followUp) \in Seq(Known) /\ ms \in Seq(Queueable) /\ ms \in Seq(Known)
    BY <1>0, <2>1
  <2>3. /\ v \in Worlds /\ v.session = w.session /\ v.ui = w.ui
        /\ v.agent.messages = w.agent.messages /\ v.agent.run = w.agent.run
        /\ v.agent.followUp = Tail(w.agent.followUp) /\ v.agent.steering = w.agent.steering
    BY <2>2 DEF Worlds, Agents
  <2>4. PollFollowUps(w) = ShowAll(v, ms)
    BY <1>4 DEF PollFollowUps, Show
  <2> HIDE DEF v, ms
  <2>5. Queues(v)
    BY <2>1, <2>3 DEF Queues
  <2>6. Says(v, ShowAll(v, ms), ms) /\ ShowAll(v, ms).agent.run = v.agent.run
    BY <2>2, <2>3, ShowAllSays
  <2> DEFINE u == ShowAll(v, ms)
  <2>7. Says(v, u, ms)
    BY <2>6
  <2> HIDE DEF u
  <2>8. Says(w, u, ms)
    BY <2>3, <2>5, <2>7 DEF Says, Around, Asks
  <2> QED
    BY <2>2, <2>3, <2>4, <2>6, <2>8 DEF u
<1>5. w.agent.steering = <<>> => PollSteering(w) = w
  BY DEF PollSteering
<1>6. w.agent.followUp = <<>> => PollFollowUps(w) = w
  BY DEF PollFollowUps
<1> QED
  BY <1>0, <1>1, <1>3, <1>4, <1>5, <1>6

LEMMA StartRunSays ==
  ASSUME NEW w \in Worlds, w.session.connected, Queues(w), NEW ms \in Seq(Known)
  PROVE  /\ StartRun(w, ms).agent.run = "request"
         /\ \E more \in Seq(Queueable) : Says(w, StartRun(w, ms), ms \o more)
<1> DEFINE v == [w EXCEPT !.agent.run = "request", !.agent.aborted = FALSE]
           u == ShowAll(v, ms)
<1>1. /\ v \in Worlds /\ v.session = w.session /\ v.ui = w.ui
      /\ v.agent.messages = w.agent.messages /\ v.agent.run = "request"
      /\ v.agent.steering = w.agent.steering /\ v.agent.followUp = w.agent.followUp
  BY DEF Worlds, Agents
<1>2. StartRun(w, ms) = PollSteering(u)
  BY DEF StartRun
<1> HIDE DEF v
<1>3. /\ Says(v, u, ms) /\ u.agent.run = "request" /\ u \in Worlds /\ u.session.connected
  BY <1>1, ShowAllSays
<1> HIDE DEF u
<1>4. Says(w, u, ms) /\ Queues(u)
  <2>1. Queues(v)
    BY <1>1 DEF Queues
  <2> QED
    BY <1>1, <1>3, <2>1 DEF Says, Around, Asks
<1>5. PICK more \in Seq(Queueable) : Says(u, PollSteering(u), more)
  BY <1>3, <1>4, PollsSay
<1>6. PollSteering(u).agent.run = "request"
  BY <1>3, <1>4, PollsSay
<1>7. more \in Seq(Known)
  BY QueueableElements
<1>8. Says(w, PollSteering(u), ms \o more)
  BY <1>4, <1>5, <1>7, SaysTransitive
<1> QED
  BY <1>2, <1>6, <1>8

\* The end of a run is the last that is heard of it.
LEMMA EndRunSays ==
  ASSUME NEW w \in Worlds, w.session.connected, Queues(w), NEW last
  PROVE  LET v == EndRun(w, last) IN
         /\ v.agent.run = "idle" /\ Around(v) = Around(w) /\ Asks(v) = Asks(w) /\ Queues(v)
         /\ v.agent.messages = w.agent.messages
         /\ v.session.events = Append(w.session.events, AgentEnd)
<1> DEFINE told == [w EXCEPT !.session.events = Append(@, AgentEnd)]
           heard == IF w.session.connected THEN createRetryPromiseForAgentEnd(told, last) ELSE w
           idle == [heard EXCEPT !.agent.run = "idle"]
           settling == CallsAt(w, "settling")
           running == CallsAt(w, "running")
           ended == Return(idle, settling)
           waits == [ended EXCEPT !.session.calls = [t \in Text |-> IF t \in running THEN "retrying" ELSE @[t]]]
           Ends(u) == /\ u \in Worlds /\ Around(u) = Around(w) /\ Asks(u) = Asks(w) /\ Queues(u)
                      /\ u.agent.messages = w.agent.messages
                      /\ u.session.events = Append(w.session.events, AgentEnd)
<1>1. EndRun(w, last) = IF ended.session.retryPromise THEN waits ELSE Return(ended, running)
  BY DEF EndRun
<1>2. Ends(heard) /\ heard.session.calls = w.session.calls
  <2>1. Append(w.session.events, AgentEnd) \in Seq(Known)
    BY AgentEndKnown, AppendProperties DEF Worlds, Sessions
  <2>2. /\ told \in Worlds /\ Around(told) = Around(w) /\ told.session.calls = w.session.calls
        /\ told.agent = w.agent /\ told.session.pendingBash = w.session.pendingBash
        /\ told.session.events = Append(w.session.events, AgentEnd)
    BY <2>1 DEF Worlds, Sessions, Around
  <2> HIDE DEF told
  <2> DEFINE promised == [told EXCEPT !.session.retryPromise = TRUE]
  <2>3. /\ promised \in Worlds /\ Around(promised) = Around(w)
        /\ promised.session.calls = w.session.calls
        /\ promised.agent = w.agent /\ promised.session.pendingBash = w.session.pendingBash
        /\ promised.session.events = Append(w.session.events, AgentEnd)
    BY <2>2 DEF Worlds, Sessions, Around
  <2>4. heard \in {told, promised}
    BY DEF createRetryPromiseForAgentEnd
  <2> HIDE DEF promised, heard
  <2> QED
    BY <2>2, <2>3, <2>4 DEF Asks, Queues
<1> HIDE DEF heard, told
<1>3. Ends(idle) /\ idle.session.calls = w.session.calls /\ idle.agent.run = "idle"
  <2>1. /\ idle \in Worlds /\ idle.session = heard.session /\ idle.ui = heard.ui
        /\ idle.agent.messages = heard.agent.messages /\ idle.agent.run = "idle"
        /\ idle.agent.steering = heard.agent.steering /\ idle.agent.followUp = heard.agent.followUp
    BY <1>2 DEF Worlds, Agents
  <2> HIDE DEF idle
  <2>2. Around(idle) = Around(heard)
    BY <2>1 DEF Around
  <2>3. Asks(idle) = Asks(heard) /\ (Queues(heard) => Queues(idle))
    BY <2>1 DEF Asks, Queues
  <2> QED
    BY <1>2, <2>1, <2>2, <2>3
<1> HIDE DEF idle
<1>p. ASSUME NEW x, Ends(x), NEW y \in Worlds, Passes(x, y) PROVE Ends(y)
  BY <1>p DEF Passes, Scene, Talk, Around
<1>4. \A t \in settling \cap Text : idle.session.calls[t] # "starting"
  BY <1>3, CallsAtAre
<1>5. Passes(idle, ended)
  <2> HIDE DEF settling
  <2> QED BY <1>3, <1>4, ReturnPasses
<1>6. ended \in Worlds /\ \A t \in Text : ended.session.calls[t] = IF t \in settling THEN "none" ELSE w.session.calls[t]
  <2>1. \A t \in settling \cap Text : idle.session.calls[t] = "settling"
    BY <1>3, CallsAtAre
  <2> HIDE DEF settling
  <2>2. /\ Keeps(idle, ended)
        /\ \A t \in Text : ended.session.calls[t] = IF t \in settling THEN "none" ELSE idle.session.calls[t]
    BY <1>3, <2>1, ReturnKeeps
  <2> HIDE DEF ended
  <2> QED BY <1>3, <2>2 DEF Keeps
<1>7. \A t \in running \cap Text : ended.session.calls[t] \notin {"starting", "none", "compacting"}
  <2>1. \A t \in running \cap Text : w.session.calls[t] = "running" /\ t \notin settling
    BY DEF CallsAt
  <2> HIDE DEF settling, running, ended
  <2> QED BY <1>6, <2>1
<1> HIDE DEF ended, settling
<1>8. Ends(ended) /\ ended.agent.run = "idle"
  <2> HIDE DEF Ends
  <2>1. Ends(ended)
    BY <1>3, <1>5, <1>6, <1>p
  <2> QED
    BY <1>3, <1>5, <2>1 DEF Passes, Scene
<1> HIDE DEF running
<1>9. Passes(ended, waits) /\ waits \in Worlds
  <2>1. Passes(ended, waits)
    BY <1>6, <1>7, MovePasses DEF Places4Calls
  <2>2. Keeps(ended, waits)
    BY <1>6, <1>7, MoveKeeps DEF Places4Calls
  <2> HIDE DEF waits
  <2> QED BY <2>1, <2>2 DEF Keeps
<1>10. Passes(ended, Return(ended, running)) /\ Return(ended, running) \in Worlds
  <2>1. Passes(ended, Return(ended, running))
    BY <1>6, <1>7, ReturnPasses
  <2>2. Keeps(ended, Return(ended, running))
    BY <1>6, <1>7, ReturnKeeps
  <2> QED BY <2>1, <2>2 DEF Keeps
<1> HIDE DEF waits
<1>11. Passes(ended, EndRun(w, last)) /\ EndRun(w, last) \in Worlds
  BY <1>1, <1>9, <1>10
<1> DEFINE z == EndRun(w, last)
<1>12. Passes(ended, z) /\ z \in Worlds
  BY <1>11
<1> HIDE DEF z
<1>13. Ends(z)
  <2> HIDE DEF Ends
  <2> QED BY <1>8, <1>12, <1>p
<1>14. z.agent.run = "idle"
  BY <1>8, <1>12 DEF Passes, Scene
<1> QED
  BY <1>13, <1>14 DEF z

-----------------------------------------------------------------------------
(* The agent's run.                                                         *)

\* What is heard of a run until it ends.
Speech(ms) == \A i \in 1..Len(ms) : ms[i].role \notin {"compaction", "agent_end"}

AroundIs(w, v) ==
  /\ v.session.backoff = w.session.backoff /\ v.session.timers = w.session.timers
  /\ v.session.compactions = w.session.compactions /\ v.session.manual = w.session.manual
  /\ v.session.cut = w.session.cut /\ v.session.tree = w.session.tree
  /\ v.session.connected = w.session.connected /\ v.ui.acts = w.ui.acts
  /\ v.session.entries = w.session.entries /\ v.session.pendingBash = w.session.pendingBash

LEMMA AroundFields ==
  ASSUME NEW w, NEW v, Around(v) = Around(w)
  PROVE  AroundIs(w, v)
BY DEF Around, AroundIs

LEMMA AgentEndIs == AgentEnd.role = "agent_end"
BY DEF AgentEnd, Msg

LEMMA SpeechSteady ==
  ASSUME NEW w \in Worlds, Steady(w), ~Waiting(w),
         NEW said \in Seq(Known), NEW heard \in Seq(Known), Speech(heard),
         Continues(w.agent.messages, said), Continues(w.session.entries, heard),
         NEW v, Around(v) = Around(w), Asks(v) = {}, Queues(v),
         v.agent.messages = w.agent.messages \o said,
         \/ v.session.events = heard
         \/ /\ v.session.events = Append(heard, AgentEnd)
            /\ v.agent.run = "idle" /\ v.session.timers = 0,
         v.agent.run = "tools" => EndsInCall(said) /\ EndsInCall(heard)
  PROVE  Steady(v)
<1>1. AroundIs(w, v)
  BY AroundFields
<1>2. /\ Turns(w) /\ ResultFollowsCall(w.session.entries) /\ KeptFromCut(w.session.entries)
      /\ ResultFollowsCall(w.agent.messages) /\ Cutting(w)
  BY DEF Steady, Followed, Path
<1>3. ~Waiting(v) /\ OneWait(v) /\ Asked(v) /\ Cutting(v)
  BY <1>1, <1>2 DEF AroundIs, Waiting, Turns, OneWait, Asked, Cutting
<1>4. Len(heard) \in Nat
  BY LenProperties
<1>5. /\ Len(Append(heard, AgentEnd)) = Len(heard) + 1
      /\ Append(heard, AgentEnd)[Len(heard) + 1] = AgentEnd
      /\ \A i \in 1..Len(heard) : Append(heard, AgentEnd)[i] = heard[i]
  BY AgentEndKnown, AppendProperties
<1>6. \A i \in 1..Len(v.session.events) :
        \/ i \in 1..Len(heard) /\ v.session.events[i] = heard[i]
        \/ /\ i = Len(v.session.events) /\ v.session.events[i] = AgentEnd
           /\ v.agent.run = "idle" /\ v.session.timers = 0
  <2>1. CASE v.session.events = heard
    BY <2>1
  <2>2. CASE /\ v.session.events = Append(heard, AgentEnd)
             /\ v.agent.run = "idle" /\ v.session.timers = 0
    <3>1. \A i \in 1..(Len(heard) + 1) : i \in 1..Len(heard) \/ i = Len(heard) + 1
      BY <1>4
    <3> QED
      BY <1>5, <2>2, <3>1
  <2> QED
    BY <2>1, <2>2
<1>7. OnePrompt(v)
  <2>1. \A i \in 1..Len(heard) : heard[i].role # "agent_end"
    BY DEF Speech
  <2> QED
    BY <1>6, <2>1 DEF OnePrompt
<1>8. Turns(v)
  BY <1>3, <1>7 DEF Turns
<1>9. ResultFollowsCall(v.agent.messages)
  <2>1. w.agent.messages \in Seq(Known)
    BY DEF Worlds, Agents
  <2> QED
    BY <1>2, <2>1, ResultsConcat
<1>10. Heard(v)
  <2>1. \A i \in 1..Len(heard) :
          /\ heard[i].role # "compaction"
          /\ heard[i].role = "toolResult" => i = 1 /\ EndsInCall(w.session.entries)
    BY DEF Speech, Continues
  <2>2. \A i \in 1..Len(v.session.events) :
          /\ v.session.events[i].role # "compaction"
          /\ v.session.events[i].role = "toolResult" => i = 1 /\ EndsInCall(v.session.entries)
    BY <1>1, <1>6, <2>1, AgentEndIs DEF AroundIs
  <2>3. ASSUME v.agent.run = "tools"
        PROVE  /\ EndsInCall(v.agent.messages)
               /\ v.session.events # <<>> /\ EndsInCall(v.session.events)
    <3>1. v.session.events = heard /\ EndsInCall(said) /\ EndsInCall(heard)
      BY <2>3
    <3>2. w.agent.messages \in Seq(Known)
      BY DEF Worlds, Agents
    <3>3. EndsInCall(v.agent.messages)
      BY <3>1, <3>2, EndsConcat
    <3> QED
      BY <3>1, <3>3 DEF EndsInCall
  <2> QED
    BY <2>2, <2>3 DEF Heard
<1>11. Path(v)
  BY <1>1, <1>2, <1>9 DEF Path, AroundIs
<1> QED
  BY <1>3, <1>8, <1>10, <1>11 DEF Steady, Followed

\* Handlers that do not suspend have handled what was heard.
LEMMA SettledNow ==
  ASSUME Undisturbed, Steady(World), Settled
  PROVE  session.events = <<>> /\ Asks(World) = {} /\ session.backoff # "aborted"
<1>1. /\ session.backoff # "aborted" /\ (session.events = <<>> \/ Blocked(World))
      /\ CallsAt(World, "starting") = {}
  BY DEF Undisturbed, Settled
<1>2. Asks(World) = {}
  BY <1>1 DEF Asks, CallsAt
<1>3. Blocked(World) => Waiting(World)
  BY DEF Blocked, Sleeping, Running, Waiting
<1>4. session.events # <<>> => Going(World)
  BY WorldFields DEF Going
<1>5. ~(Waiting(World) /\ Going(World))
  BY DEF Steady, Turns
<1> QED
  BY <1>1, <1>2, <1>3, <1>4, <1>5

LEMMA QuietNow ==
  ASSUME Undisturbed, Steady(World), Quiet
  PROVE  /\ session.events = <<>> /\ Asks(World) = {} /\ session.timers = 0
         /\ session.backoff # "aborted"
<1>1. Settled /\ session.timers = 0
  BY DEF Quiet, Undisturbed
<1> QED
  BY <1>1, SettledNow

LEMMA RunNow ==
  ASSUME Steady(World), agent.run # "idle"
  PROVE  ~Waiting(World) /\ World.session.connected
<1>1. Going(World)
  BY WorldFields DEF Going
<1>2. ~Waiting(World) /\ OneWait(World)
  BY <1>1 DEF Steady, Turns
<1> QED
  BY <1>2 DEF Waiting, OneWait

\* Messages the agent may show: an answer, and one it took from a queue.
LEMMA AnswerSpeaks ==
  ASSUME NEW stop \in {"stop", "toolUse", "error", "overflow", "aborted", "fatal"}, NEW s
  PROVE  /\ <<Answer(stop)>> \in Seq(Known) /\ Speech(<<Answer(stop)>>) /\ Continues(s, <<Answer(stop)>>)
         /\ stop = "toolUse" => EndsInCall(<<Answer(stop)>>)
<1>1. Answer(stop) \in Known /\ Answer(stop).role = "assistant" /\ Answer(stop).stop = stop
  BY AnswerKnown DEF Answer, Msg
<1> DEFINE m == Answer(stop)
<1>2. m \in Known /\ m.role = "assistant" /\ m.stop = stop
  BY <1>1
<1> HIDE DEF m
<1>3. <<m>> \in Seq(Known) /\ Speech(<<m>>) /\ (stop = "toolUse" => EndsInCall(<<m>>))
  BY <1>2 DEF Speech, EndsInCall
<1>4. Continues(s, <<m>>)
  BY <1>2, ContinuesOne
<1> QED
  BY <1>3, <1>4 DEF m

LEMMA QueuedSpeak ==
  ASSUME NEW ms \in Seq(Queueable)
  PROVE  ms \in Seq(Known) /\ Speech(ms) /\ \A s : Continues(s, ms)
<1>1. ms \in Seq(Known) /\ \A i \in 1..Len(ms) : ms[i].role \in {"user", "custom"}
  BY QueueableElements
<1> QED
  BY <1>1 DEF Speech, Continues

\* One thing said, and others behind it.
LEMMA SpeechConcat ==
  ASSUME NEW a \in Seq(Known), NEW b \in Seq(Known), Speech(a), Speech(b)
  PROVE  Speech(a \o b)
<1> DEFINE r == a \o b
<1>1. Len(a) \in Nat /\ Len(b) \in Nat /\ r \in Seq(Known) /\ Len(r) = Len(a) + Len(b)
  BY LenProperties, ConcatProperties
<1>2. /\ \A i \in 1..Len(a) : r[i] = a[i]
      /\ \A i \in (Len(a) + 1)..(Len(a) + Len(b)) : r[i] = b[i - Len(a)]
  BY <1>1, ConcatProperties
<1> HIDE DEF r
<1>3. \A i \in 1..Len(r) : i \in 1..Len(a) \/ (i \in (Len(a) + 1)..(Len(a) + Len(b)) /\ i - Len(a) \in 1..Len(b))
  BY <1>1
<1> QED
  BY <1>2, <1>3 DEF Speech, r

LEMMA ContinuesConcat ==
  ASSUME NEW s, NEW a \in Seq(Known), NEW b \in Seq(Known), Continues(s, a),
         \A i \in 1..Len(b) : b[i].role # "toolResult"
  PROVE  Continues(s, a \o b)
<1> DEFINE r == a \o b
<1>1. Len(a) \in Nat /\ Len(b) \in Nat /\ r \in Seq(Known) /\ Len(r) = Len(a) + Len(b)
  BY LenProperties, ConcatProperties
<1>2. /\ \A i \in 1..Len(a) : r[i] = a[i]
      /\ \A i \in (Len(a) + 1)..(Len(a) + Len(b)) : r[i] = b[i - Len(a)]
  BY <1>1, ConcatProperties
<1> HIDE DEF r
<1>3. \A i \in 1..Len(r) : i \in 1..Len(a) \/ (i \in (Len(a) + 1)..(Len(a) + Len(b)) /\ i - Len(a) \in 1..Len(b))
  BY <1>1
<1> QED
  BY <1>2, <1>3 DEF Continues, r

\* Where a run may say something: nothing is waited for and nothing unheard.
Listening(w) ==
  /\ w \in Worlds /\ Steady(w) /\ ~Waiting(w) /\ w.session.connected
  /\ w.session.events = <<>> /\ Asks(w) = {}
\* What it may say there.
MaySay(w, ms) ==
  /\ ms \in Seq(Known) /\ Speech(ms)
  /\ Continues(w.agent.messages, ms) /\ Continues(w.session.entries, ms)

LEMMA SpokenSteady ==
  ASSUME NEW w, Listening(w), NEW ms, MaySay(w, ms), NEW v, Says(w, v, ms),
         v.agent.run = "tools" => EndsInCall(ms)
  PROVE  Steady(v)
<1>1. w.session.events \o ms = ms
  BY ConcatEmptySeq DEF Listening, MaySay
<1>2. Queues(v)
  BY DEF Listening, Steady, Followed, Says
<1> QED
  BY <1>1, <1>2, SpeechSteady DEF Listening, MaySay, Says

LEMMA EndedSteady ==
  ASSUME NEW w, Listening(w), w.session.timers = 0, NEW ms, MaySay(w, ms),
         NEW x \in Worlds, Says(w, x, ms), NEW last
  PROVE  Steady(EndRun(x, last))
<1>1. w.session.events \o ms = ms
  BY ConcatEmptySeq DEF Listening, MaySay
<1>2. Queues(x)
  BY DEF Listening, Steady, Followed, Says
<1>3. x.session.connected
  BY AroundFields DEF Says, AroundIs, Listening
<1> DEFINE v == EndRun(x, last)
<1>4. /\ v.agent.run = "idle" /\ Around(v) = Around(x) /\ Asks(v) = Asks(x) /\ Queues(v)
      /\ v.agent.messages = x.agent.messages
      /\ v.session.events = Append(x.session.events, AgentEnd)
  BY <1>2, <1>3, EndRunSays
<1> HIDE DEF v
<1>5. Around(v) = Around(w)
  BY <1>4 DEF Says
<1>6. v.session.timers = 0
  BY <1>5, AroundFields DEF AroundIs
<1>7. v.session.events = Append(ms, AgentEnd)
  BY <1>1, <1>4 DEF Says
<1>8. Steady(v)
  BY <1>4, <1>5, <1>6, <1>7, SpeechSteady DEF Listening, MaySay, Says
<1> QED
  BY <1>8 DEF v

LEMMA SaysMore ==
  ASSUME NEW w, Listening(w), NEW ms, MaySay(w, ms), NEW more \in Seq(Queueable)
  PROVE  MaySay(w, ms \o more)
<1>1. /\ more \in Seq(Known) /\ Speech(more)
      /\ \A i \in 1..Len(more) : more[i].role # "toolResult"
  BY QueuedSpeak, QueueableElements
<1>2. ms \o more \in Seq(Known)
  BY <1>1, ConcatProperties DEF MaySay
<1> QED
  BY <1>1, <1>2, SpeechConcat, ContinuesConcat DEF MaySay

LEMMA PolledSteady ==
  ASSUME NEW w, Listening(w), NEW ms, MaySay(w, ms),
         NEW x \in Worlds, Says(w, x, ms), x.agent.run # "tools"
  PROVE  Steady(PollSteering(x)) /\ Steady(PollFollowUps(x))
<1>1. Queues(x) /\ x.session.connected
  BY AroundFields DEF Says, AroundIs, Listening, Steady, Followed
<1>2. /\ \E more \in Seq(Queueable) : Says(x, PollSteering(x), more)
      /\ \E more \in Seq(Queueable) : Says(x, PollFollowUps(x), more)
      /\ PollSteering(x).agent.run = x.agent.run /\ PollFollowUps(x).agent.run = x.agent.run
  BY <1>1, PollsSay
<1>3. ASSUME NEW v, NEW more \in Seq(Queueable), Says(x, v, more), v.agent.run # "tools"
      PROVE  Steady(v)
  <2>1. MaySay(w, ms \o more) /\ more \in Seq(Known)
    BY SaysMore, QueueableElements
  <2>2. Says(w, v, ms \o more)
    BY <1>3, <2>1, SaysTransitive DEF Listening, MaySay
  <2> QED
    BY <1>3, <2>1, <2>2, SpokenSteady
<1> QED
  BY <1>2, <1>3

LEMMA ListeningNow ==
  ASSUME Undisturbed, Orderly(World), Steady(World), Quiet, agent.run # "idle"
  PROVE  Listening(World) /\ World.session.timers = 0
<1>1. session.events = <<>> /\ Asks(World) = {} /\ session.timers = 0
  BY QuietNow
<1>2. ~Waiting(World) /\ World.session.connected
  BY RunNow
<1> QED
  BY <1>1, <1>2, WorldFields DEF Listening, Orderly

LEMMA AgentAnswersSteady ==
  ASSUME Undisturbed, Orderly(World), Steady(World), AgentAnswers
  PROVE  Steady(World')
<1> DEFINE shows(stop) == [Show(World, Answer(stop)) EXCEPT
                            !.agent.answers = IF stop \in Outcomes THEN @ + 1 ELSE @]
<1>1. PICK stop \in IF agent.aborted THEN {"aborted"}
                    ELSE {"stop"} \cup (IF agent.answers < MaxAnswers THEN Outcomes ELSE {}) :
        Becomes(
             CASE stop = "toolUse" -> [shows(stop) EXCEPT !.agent.run = "tools"]
               [] stop \in {"error", "overflow", "aborted"} -> EndRun(shows(stop), stop)
               [] stop = "stop" ->
                    IF agent.steering # <<>> THEN PollSteering(shows(stop))
                    ELSE IF agent.followUp # <<>> THEN PollFollowUps(shows(stop))
                    ELSE EndRun(shows(stop), stop))
  BY DEF AgentAnswers
<1>2. agent.run = "request" /\ Quiet
  BY DEF AgentAnswers
<1> DEFINE u == Show(World, Answer(stop))
           v == [u EXCEPT !.agent.answers = IF stop \in Outcomes THEN @ + 1 ELSE @]
           x == [v EXCEPT !.agent.run = "tools"]
           ms == <<Answer(stop)>>
<1>3. stop \in {"stop", "toolUse", "error", "overflow", "aborted"}
  BY SessionAssumption
<1>4. \/ stop = "toolUse" /\ Becomes(x)
      \/ Becomes(EndRun(v, stop)) \/ Becomes(PollSteering(v)) \/ Becomes(PollFollowUps(v))
  <2> HIDE DEF v, x
  <2>1. /\ stop = "toolUse" => Becomes(x)
        /\ stop \in {"error", "overflow", "aborted"} => Becomes(EndRun(v, stop))
        /\ stop = "stop" => Becomes(IF agent.steering # <<>> THEN PollSteering(v)
                                    ELSE IF agent.followUp # <<>> THEN PollFollowUps(v)
                                    ELSE EndRun(v, stop))
    BY <1>1 DEF v, x
  <2>2. stop = "stop" => Becomes(PollSteering(v)) \/ Becomes(PollFollowUps(v)) \/ Becomes(EndRun(v, stop))
    BY <2>1
  <2> QED
    BY <1>3, <2>1, <2>2
<1>5. Listening(World) /\ World.session.timers = 0
  BY <1>2, ListeningNow
<1>6. MaySay(World, ms) /\ (stop = "toolUse" => EndsInCall(ms))
  BY <1>3, AnswerSpeaks DEF MaySay
<1>7. Says(World, u, ms) /\ u.agent.run = "request" /\ u \in Worlds
  <2>1. ms \in Seq(Known)
    BY <1>6 DEF MaySay
  <2> QED
    BY <1>2, <1>5, <2>1, ShowAllSays, WorldFields DEF Show, Listening
<1> HIDE DEF u, ms
<1>8. /\ v \in Worlds /\ v.session = u.session /\ v.ui = u.ui
      /\ v.agent.messages = u.agent.messages /\ v.agent.run = u.agent.run
      /\ v.agent.steering = u.agent.steering /\ v.agent.followUp = u.agent.followUp
  <2> DEFINE n == IF stop \in Outcomes THEN u.agent.answers + 1 ELSE u.agent.answers
  <2>1. n \in Nat
    BY <1>7 DEF Worlds, Agents
  <2>2. v = [u EXCEPT !.agent.answers = n]
    OBVIOUS
  <2> HIDE DEF v, n
  <2> QED
    BY <1>7, <2>1, <2>2 DEF Worlds, Agents
<1> HIDE DEF v
<1>9. Says(World, v, ms) /\ v.agent.run = "request"
  BY <1>7, <1>8, SaysSame DEF Around, Asks, Queues
<1>10. ASSUME stop = "toolUse" PROVE Steady(x)
  <2>1. /\ x.session = v.session /\ x.ui = v.ui
        /\ x.agent.messages = v.agent.messages /\ x.agent.run = "tools"
        /\ x.agent.steering = v.agent.steering /\ x.agent.followUp = v.agent.followUp
    BY <1>8 DEF Worlds, Agents
  <2> HIDE DEF x
  <2>2. Says(World, x, ms)
    BY <1>9, <2>1, SaysSame DEF Around, Asks, Queues
  <2> QED
    BY <1>5, <1>6, <1>10, <2>2, SpokenSteady
<1>11. Steady(EndRun(v, stop)) /\ Steady(PollSteering(v)) /\ Steady(PollFollowUps(v))
  BY <1>5, <1>6, <1>8, <1>9, EndedSteady, PolledSteady
<1> HIDE DEF x
<1> QED
  BY <1>4, <1>10, <1>11, ReachesSteady

LEMMA ToolsFinishSteady ==
  ASSUME Undisturbed, Orderly(World), Steady(World), ToolsFinish
  PROVE  Steady(World')
<1> DEFINE u == Show(World, ToolResult)
           v == [u EXCEPT !.agent.run = "request"]
           ms == <<ToolResult>>
<1>1. Becomes(PollSteering(v)) /\ agent.run = "tools" /\ Quiet
  BY DEF ToolsFinish
<1>2. Listening(World)
  BY <1>1, ListeningNow
<1>3. EndsInCall(World.agent.messages) /\ EndsInCall(World.session.entries)
  BY <1>1, <1>2, WorldFields DEF Listening, Steady, Followed, Heard
<1>4. MaySay(World, ms)
  <2>1. ToolResult \in Known /\ ToolResult.role = "toolResult"
    BY OthersKnown DEF ToolResult, Msg
  <2> DEFINE m == ToolResult
  <2>2. m \in Known /\ m.role = "toolResult"
    BY <2>1
  <2> HIDE DEF m
  <2>3. <<m>> \in Seq(Known) /\ Speech(<<m>>)
    BY <2>2 DEF Speech
  <2>4. Continues(World.agent.messages, <<m>>) /\ Continues(World.session.entries, <<m>>)
    BY <1>3, <2>2, ContinuesOne
  <2> QED
    BY <2>3, <2>4 DEF MaySay, m
<1>5. Says(World, u, ms) /\ u \in Worlds
  <2>1. ms \in Seq(Known)
    BY <1>4 DEF MaySay
  <2> QED
    BY <1>2, <2>1, ShowAllSays DEF Show, Listening
<1> HIDE DEF u, ms
<1>6. /\ v \in Worlds /\ v.session = u.session /\ v.ui = u.ui
      /\ v.agent.messages = u.agent.messages /\ v.agent.run = "request"
      /\ v.agent.steering = u.agent.steering /\ v.agent.followUp = u.agent.followUp
  BY <1>5 DEF Worlds, Agents
<1> HIDE DEF v
<1>7. Says(World, v, ms)
  BY <1>5, <1>6, SaysSame DEF Around, Asks, Queues
<1>8. Steady(PollSteering(v))
  BY <1>2, <1>4, <1>6, <1>7, PolledSteady
<1> QED
  BY <1>1, <1>8, ReachesSteady

LEMMA RunFailsSteady ==
  ASSUME Undisturbed, Orderly(World), Steady(World), RunFails
  PROVE  Steady(World')
<1>1. PICK stop \in IF agent.aborted THEN {"fatal"} ELSE {"error", "fatal"} :
        Becomes(EndRun([World EXCEPT !.agent.messages = Append(@, Answer(stop)),
                                     !.agent.answers = @ + 1], stop))
  BY DEF RunFails
<1>2. Listening(World) /\ World.session.timers = 0
  BY ListeningNow DEF RunFails
<1> DEFINE ms == Append(agent.messages, Answer(stop))
           x == [World EXCEPT !.agent.messages = Append(@, Answer(stop)), !.agent.answers = @ + 1]
           v == EndRun(x, stop)
           said == <<Answer(stop)>>
<1>3. stop \in {"error", "fatal"}
  OBVIOUS
<1>4. /\ said \in Seq(Known) /\ Continues(World.agent.messages, said)
  BY <1>3, AnswerSpeaks
<1>5. agent \in Agents /\ World \in Worlds
  BY <1>2 DEF World, Worlds, Listening
<1>6. ms \in Seq(Known) /\ ms = World.agent.messages \o said
  <2>1. agent.messages \in Seq(Known) /\ Answer(stop) \in Known
    BY <1>3, <1>5, AnswerKnown DEF Agents
  <2> QED
    BY <2>1, AppendIsConcat, AppendProperties, WorldFields
<1>7. /\ x \in Worlds /\ x.session = World.session /\ x.ui = World.ui
      /\ x.agent.messages = ms
      /\ x.agent.steering = World.agent.steering /\ x.agent.followUp = World.agent.followUp
  <2>1. x = [World EXCEPT !.agent.messages = ms, !.agent.answers = @ + 1]
    BY WorldFields
  <2>2. World.agent.answers + 1 \in Nat
    BY <1>5 DEF Worlds, Agents
  <2> HIDE DEF ms, x
  <2> QED
    BY <1>5, <1>6, <2>1, <2>2 DEF Worlds, Agents
<1> HIDE DEF x, ms, said
<1>8. Queues(x) /\ x.session.connected
  BY <1>2, <1>7 DEF Queues, Listening, Steady, Followed
<1>9. /\ v.agent.run = "idle" /\ Around(v) = Around(x) /\ Asks(v) = Asks(x) /\ Queues(v)
      /\ v.agent.messages = x.agent.messages
      /\ v.session.events = Append(x.session.events, AgentEnd)
  BY <1>7, <1>8, EndRunSays
<1> HIDE DEF v
<1>10. Around(v) = Around(World) /\ Asks(v) = {} /\ v.session.events = Append(<<>>, AgentEnd)
       /\ v.agent.messages = World.agent.messages \o said
  BY <1>2, <1>6, <1>7, <1>9 DEF Around, Asks, Listening
<1>11. v.session.timers = 0
  BY <1>2, <1>10, AroundFields DEF AroundIs
<1>12. <<>> \in Seq(Known) /\ Speech(<<>>) /\ Continues(World.session.entries, <<>>)
  BY DEF Speech, Continues
<1>13. Steady(v)
  BY <1>2, <1>4, <1>9, <1>10, <1>11, <1>12, SpeechSteady DEF Listening
<1> QED
  BY <1>1, <1>13, ReachesSteady DEF v, x

LEMMA StartedSteady ==
  ASSUME NEW w, Listening(w), NEW ms, MaySay(w, ms)
  PROVE  Steady(StartRun(w, ms))
<1>1. Queues(w) /\ w \in Worlds /\ w.session.connected /\ ms \in Seq(Known)
  BY DEF Listening, Steady, Followed, MaySay
<1>2. StartRun(w, ms).agent.run = "request"
  BY <1>1, StartRunSays
<1>3. PICK more \in Seq(Queueable) : Says(w, StartRun(w, ms), ms \o more)
  BY <1>1, StartRunSays
<1>4. MaySay(w, ms \o more)
  BY SaysMore
<1> QED
  BY <1>2, <1>3, <1>4, SpokenSteady

LEMMA QueueableSpeaks ==
  ASSUME NEW w, NEW m \in Queueable
  PROVE  MaySay(w, <<m>>)
<1>1. <<m>> \in Seq(Queueable)
  OBVIOUS
<1> QED
  BY <1>1, QueuedSpeak DEF MaySay

LEMMA PassesListening ==
  ASSUME NEW w, Listening(w), NEW v \in Worlds, Passes(w, v)
  PROVE  Listening(v)
<1>1. Steady(v)
  BY PassesSteady DEF Listening
<1>2. /\ v.session.backoff = w.session.backoff /\ v.session.compactions = w.session.compactions
      /\ v.session.manual = w.session.manual /\ v.session.tree = w.session.tree
      /\ v.session.connected = w.session.connected /\ v.session.events = w.session.events
      /\ Asks(v) = Asks(w)
  BY DEF Passes, Scene
<1> QED
  BY <1>1, <1>2 DEF Listening, Waiting

LEMMA StartPromptSteady ==
  ASSUME Undisturbed, Orderly(World), Steady(World), NEW t \in Text, StartPrompt(t)
  PROVE  Steady(World')
<1> DEFINE w == [World EXCEPT !.session.calls[t] = "running"]
<1>0. World \in Worlds /\ session.calls[t] = "starting"
  BY DEF Orderly, StartPrompt
<1>1. t \in Asks(World)
  BY <1>0, WorldFields DEF Asks
<1>2. /\ agent.run = "idle" /\ session.events = <<>> /\ \A u \in Asks(World) : u = t
  BY <1>1, WorldFields DEF Steady, Turns, OnePrompt
<1>3. ~Waiting(World) /\ World.session.connected
  <2>1. Going(World)
    BY <1>1 DEF Going
  <2>2. ~Waiting(World) /\ OneWait(World)
    BY <2>1 DEF Steady, Turns
  <2> QED
    BY <2>2 DEF Waiting, OneWait
<1>4. Becomes(StartRun(w, <<User(t, "prompt")>>))
  BY <1>2 DEF StartPrompt
<1>5. /\ w \in Worlds /\ w.agent = World.agent /\ w.ui = World.ui
      /\ Scene(w) = Scene(World) /\ Talk(w) = Talk(World)
      /\ \A u \in Text : w.session.calls[u] = IF u = t THEN "running" ELSE World.session.calls[u]
  <2>1. [World.session.calls EXCEPT ![t] = "running"] \in [Text -> Places4Calls]
    BY <1>0 DEF Worlds, Sessions, Places4Calls
  <2> DEFINE calls == [World.session.calls EXCEPT ![t] = "running"]
  <2>2. w = [World EXCEPT !.session.calls = calls]
    BY <1>0 DEF Worlds, Sessions
  <2>3. \A u \in Text : calls[u] = IF u = t THEN "running" ELSE World.session.calls[u]
    BY <1>0 DEF Worlds, Sessions
  <2>4. calls \in [Text -> Places4Calls]
    BY <2>1
  <2> HIDE DEF calls, w
  <2> QED
    BY <1>0, <2>2, <2>3, <2>4 DEF Worlds, Sessions, Scene, Talk
<1> HIDE DEF w
<1>6. Asks(w) = {}
  BY <1>1, <1>2, <1>5 DEF Asks
<1>7. /\ w.agent.run = "idle" /\ w.session.backoff = World.session.backoff
      /\ w.session.timers = World.session.timers
      /\ w.session.compactions = World.session.compactions /\ w.session.manual = World.session.manual
      /\ w.session.cut = World.session.cut /\ w.session.tree = World.session.tree
      /\ w.session.connected = World.session.connected
      /\ w.session.events = <<>> /\ w.ui.acts = World.ui.acts
      /\ w.agent.messages = World.agent.messages /\ w.session.entries = World.session.entries
      /\ w.session.pendingBash = World.session.pendingBash
  BY <1>2, <1>5, WorldFields DEF Scene, Talk
<1>8. Turns(w) /\ ~Waiting(w)
  BY <1>3, <1>6, <1>7 DEF Steady, Turns, Waiting, OneWait, Asked, OnePrompt
<1>9. Followed(w)
  BY <1>5, <1>7 DEF Steady, Followed, Path, Heard, Cutting, Queues
<1>10. Listening(w)
  BY <1>3, <1>5, <1>6, <1>7, <1>8, <1>9 DEF Listening, Steady
<1>11. MaySay(w, <<User(t, "prompt")>>)
  BY UserQueueable, QueueableSpeaks
<1>12. Steady(StartRun(w, <<User(t, "prompt")>>))
  BY <1>10, <1>11, StartedSteady
<1> QED
  BY <1>4, <1>12, ReachesSteady

LEMMA ContinueFiresSteady ==
  ASSUME Undisturbed, Orderly(World), Steady(World), ContinueFires
  PROVE  Steady(World')
<1> DEFINE w == [World EXCEPT !.session.timers = @ - 1]
           b == [w EXCEPT !.agent.run = "request", !.agent.aborted = FALSE]
           f == [w EXCEPT !.agent.followUp = Tail(@)]
           first == <<Head(agent.followUp)>>
<1>0. World \in Worlds /\ session \in Sessions
  BY DEF Orderly, Worlds, World
<1>1. /\ session.timers > 0 /\ Settled
      /\ \/ Becomes(w)
         \/ agent.run = "idle" /\ Becomes(StartRun(w, <<>>))
         \/ agent.run = "idle" /\ Becomes(PollSteering(b))
         \/ agent.run = "idle" /\ agent.followUp # <<>> /\ Becomes(StartRun(f, first))
  BY DEF ContinueFires
<1>2. session.events = <<>> /\ Asks(World) = {}
  BY <1>1, SettledNow
<1>3. ~Waiting(World) /\ World.session.connected
  <2>1. Going(World)
    BY <1>0, <1>1, WorldFields DEF Going, Sessions
  <2>2. ~Waiting(World) /\ OneWait(World)
    BY <2>1 DEF Steady, Turns
  <2> QED
    BY <2>2 DEF Waiting, OneWait
<1>4. /\ w \in Worlds /\ w.agent = World.agent /\ w.ui = World.ui /\ Talk(w) = Talk(World)
      /\ w.session.backoff = World.session.backoff
      /\ w.session.compactions = World.session.compactions /\ w.session.manual = World.session.manual
      /\ w.session.cut = World.session.cut /\ w.session.tree = World.session.tree
      /\ w.session.connected = World.session.connected
      /\ w.session.events = World.session.events /\ w.session.calls = World.session.calls
  <2>1. World.session.timers - 1 \in Nat
    BY <1>0, <1>1, WorldFields DEF Sessions
  <2> QED
    BY <1>0, <2>1 DEF Worlds, Sessions, Talk
<1> HIDE DEF w
<1>5. Turns(w) /\ ~Waiting(w) /\ Asks(w) = {} /\ w.session.events = <<>>
  BY <1>2, <1>3, <1>4, WorldFields DEF Steady, Turns, Waiting, OneWait, Asked, OnePrompt, Asks
<1>6. Followed(w)
  BY <1>4 DEF Steady, Followed, Path, Heard, Cutting, Queues, Talk
<1>7. Listening(w)
  BY <1>3, <1>4, <1>5, <1>6 DEF Listening, Steady
<1>8. Steady(w)
  BY <1>7 DEF Listening
<1>9. MaySay(w, <<>>)
  BY DEF MaySay, Speech, Continues
<1>10. Steady(StartRun(w, <<>>))
  BY <1>7, <1>9, StartedSteady
<1>11. Steady(PollSteering(b))
  <2>1. /\ b \in Worlds /\ b.session = w.session /\ b.ui = w.ui
        /\ b.agent.messages = w.agent.messages /\ b.agent.run = "request"
        /\ b.agent.steering = w.agent.steering /\ b.agent.followUp = w.agent.followUp
    BY <1>4 DEF Worlds, Agents
  <2> HIDE DEF b
  <2>2. Says(w, w, <<>>)
    BY <1>4, SaysNothing
  <2>3. Says(w, b, <<>>)
    BY <2>1, <2>2, SaysSame DEF Around, Asks, Queues
  <2> QED
    BY <1>7, <1>9, <2>1, <2>3, PolledSteady
<1>12. ASSUME agent.followUp # <<>> PROVE Steady(StartRun(f, first))
  <2>0. w.agent.followUp = agent.followUp /\ w.agent.followUp \in Seq(Queueable)
    BY <1>4, <1>6, WorldFields DEF Followed, Queues
  <2>1. Head(agent.followUp) \in Queueable /\ Tail(w.agent.followUp) \in Seq(Queueable)
    BY <1>12, <2>0, HeadTailProperties
  <2>2. Tail(w.agent.followUp) \in Seq(Known)
    BY <2>1, QueueableElements
  <2>3. /\ f \in Worlds /\ f.session = w.session /\ f.ui = w.ui
        /\ f.agent.messages = w.agent.messages /\ f.agent.run = w.agent.run
        /\ f.agent.steering = w.agent.steering /\ f.agent.followUp = Tail(w.agent.followUp)
    BY <1>4, <2>2 DEF Worlds, Agents
  <2> HIDE DEF f
  <2>4. Passes(w, f)
    BY <2>1, <2>3 DEF Passes, Scene, Talk, Asks, Queues
  <2>5. Listening(f)
    BY <1>7, <2>3, <2>4, PassesListening
  <2>6. MaySay(f, first)
    BY <2>1, QueueableSpeaks
  <2> QED
    BY <2>5, <2>6, StartedSteady
<1> HIDE DEF b, f, first
<1> QED
  BY <1>1, <1>8, <1>10, <1>11, <1>12, ReachesSteady

-----------------------------------------------------------------------------
(* What is added to the path of an idle agent.                              *)

Plain(ms) == \A i \in 1..Len(ms) : ms[i].role \notin {"toolResult", "compaction"}

\* A path that grows is cut where it was cut, and keeps from where it kept.
LEMMA PathGrows ==
  ASSUME NEW s \in Seq(Known), NEW ms \in Seq(Known), KeptFromCut(s),
         \A i \in 1..Len(ms) : ms[i].role # "compaction"
  PROVE  KeptFromCut(s \o ms) /\ \A n : CutAt(s, n) => CutAt(s \o ms, n)
<1> DEFINE r == s \o ms
<1>1. Len(s) \in Nat /\ Len(ms) \in Nat /\ r \in Seq(Known) /\ Len(r) = Len(s) + Len(ms)
  BY LenProperties, ConcatProperties
<1>2. /\ \A i \in 1..Len(s) : r[i] = s[i]
      /\ \A i \in (Len(s) + 1)..(Len(s) + Len(ms)) : r[i] = ms[i - Len(s)]
  BY <1>1, ConcatProperties
<1> HIDE DEF r
<1>3. \A n : CutAt(s, n) => CutAt(r, n)
  BY <1>1, <1>2 DEF CutAt
<1>4. \A i \in 1..Len(r) : i \in 1..Len(s) \/ (i \in (Len(s) + 1)..(Len(s) + Len(ms)) /\ i - Len(s) \in 1..Len(ms))
  BY <1>1
<1>5. KeptFromCut(r)
  BY <1>2, <1>3, <1>4 DEF KeptFromCut
<1> QED
  BY <1>3, <1>5 DEF r

LEMMA AddedFollowed ==
  ASSUME NEW w \in Worlds, Followed(w), w.agent.run = "idle", w.session.events = <<>>,
         NEW ms \in Seq(Known), Plain(ms)
  PROVE  LET v == AddNow(w, ms) IN
         /\ Followed(v) /\ Scene(v) = Scene(w) /\ Asks(v) = Asks(w) /\ v \in Worlds
         /\ v.session.pendingBash = w.session.pendingBash
<1> DEFINE v == AddNow(w, ms)
<1>0. v \in Worlds
  BY AddNowKeeps DEF Keeps
<1>1. /\ Scene(v) = Scene(w) /\ v.session.calls = w.session.calls
      /\ v.agent.messages = w.agent.messages \o ms
      /\ v.session.entries = w.session.entries \o ms
      /\ v.agent.steering = w.agent.steering /\ v.agent.followUp = w.agent.followUp
      /\ v.session.pendingBash = w.session.pendingBash
  BY DEF AddNow, Worlds, Agents, Sessions, Scene
<1> HIDE DEF v
<1>2. /\ v.agent.run = w.agent.run /\ v.session.compactions = w.session.compactions
      /\ v.session.manual = w.session.manual /\ v.session.cut = w.session.cut
      /\ v.session.events = w.session.events
  BY <1>1 DEF Scene
<1>3. Asks(v) = Asks(w)
  BY <1>1 DEF Asks
<1>5. w.agent.messages \in Seq(Known) /\ w.session.entries \in Seq(Known)
  BY DEF Worlds, Agents, Sessions
<1>6. /\ \A i \in 1..Len(ms) : ms[i].role # "toolResult"
      /\ \A i \in 1..Len(ms) : ms[i].role # "compaction"
  BY DEF Plain
<1>7. Continues(w.agent.messages, ms) /\ Continues(w.session.entries, ms)
  BY <1>6, ContinuesPlain
<1>8. /\ KeptFromCut(w.session.entries \o ms)
      /\ \A n : CutAt(w.session.entries, n) => CutAt(w.session.entries \o ms, n)
  BY <1>5, <1>6, PathGrows DEF Followed, Path
<1>9. Path(v)
  BY <1>1, <1>5, <1>7, <1>8, ResultsConcat DEF Followed, Path
<1>10. Cutting(v)
  BY <1>1, <1>2, <1>8 DEF Followed, Cutting
<1>11. Heard(v) /\ Queues(v)
  BY <1>1, <1>2 DEF Followed, Heard, Queues
<1>12. Followed(v)
  BY <1>9, <1>10, <1>11 DEF Followed
<1> QED
  BY <1>0, <1>1, <1>3, <1>12 DEF v

LEMMA AddedSteady ==
  ASSUME NEW w \in Worlds, Steady(w), w.agent.run = "idle", w.session.events = <<>>,
         NEW ms \in Seq(Known), Plain(ms)
  PROVE  Steady(AddNow(w, ms))
<1> DEFINE v == AddNow(w, ms)
<1>1. Followed(v) /\ Scene(v) = Scene(w) /\ Asks(v) = Asks(w)
  BY AddedFollowed DEF Steady
<1> HIDE DEF v
<1>2. /\ v.agent.run = w.agent.run /\ v.session.backoff = w.session.backoff
      /\ v.session.timers = w.session.timers /\ v.session.compactions = w.session.compactions
      /\ v.session.manual = w.session.manual /\ v.session.cut = w.session.cut
      /\ v.session.tree = w.session.tree /\ v.session.connected = w.session.connected
      /\ v.session.events = w.session.events /\ v.ui.acts = w.ui.acts
  BY <1>1 DEF Scene
<1>3. Turns(v)
  BY <1>1, <1>2 DEF Steady, Turns, Waiting, Going, OneWait, Asked, OnePrompt
<1>4. Steady(v)
  BY <1>1, <1>3 DEF Steady
<1> QED
  BY <1>4 DEF v

LEMMA ActedSteady ==
  ASSUME NEW w \in Worlds, Steady(w)
  PROVE  Steady(Acted(w))
<1> DEFINE v == Acted(w)
<1>1. v.agent = w.agent /\ v.session = w.session /\ v.ui.acts = w.ui.acts + 1 /\ w.ui.acts \in Nat
  BY DEF Acted, Worlds, Uis
<1> HIDE DEF v
<1>2. Turns(v)
  <2>1. /\ v.session.manual # "none" => w.ui.acts >= 1 /\ "compact" \in Uses
        /\ v.session.tree = "summary" => w.ui.acts >= 1 /\ "tree" \in Uses
        /\ \A c \in v.session.compactions : c.runner = Events
    BY <1>1 DEF Steady, Turns, Asked
  <2>2. w.ui.acts >= 1 => v.ui.acts >= 1
    BY <1>1
  <2>3. Asked(v)
    BY <2>1, <2>2 DEF Asked
  <2> QED
    BY <1>1, <2>3 DEF Steady, Turns, Waiting, Going, OneWait, OnePrompt, Asks
<1>3. Followed(v)
  BY <1>1 DEF Steady, Followed, Path, Heard, Cutting, Queues
<1>4. Steady(v)
  BY <1>2, <1>3 DEF Steady
<1> QED
  BY <1>4 DEF v

LEMMA BashEndsSteady ==
  ASSUME Undisturbed, Orderly(World), Steady(World), BashEnds
  PROVE  Steady(World')
<1> DEFINE v == [World EXCEPT !.session.pendingBash = Append(@, BashResult)]
           x == AddNow(World, <<BashResult>>)
<1>0. World \in Worlds
  BY DEF Orderly
<1>1. Becomes(Acted(recordBashResult(World))) /\ Quiet
  BY DEF BashEnds, Acts
<1>2. session.events = <<>>
  BY <1>1, QuietNow
<1>3. BashResult \in Known /\ BashResult.role = "bash"
  BY OthersKnown DEF BashResult, Msg
<1>4. v \in Worlds /\ Steady(v)
  <2> DEFINE ms == Append(World.session.pendingBash, BashResult)
  <2>1. /\ World.session.pendingBash \in Seq(BashMessages) /\ World.session.pendingBash \in Seq(Known)
        /\ BashResult \in BashMessages
    BY <1>0, <1>3 DEF Steady, Followed, Queues, Worlds, Sessions, BashMessages
  <2>2. ms \in Seq(BashMessages) /\ ms \in Seq(Known)
    BY <1>3, <2>1, AppendProperties
  <2>3. v = [World EXCEPT !.session.pendingBash = ms]
    OBVIOUS
  <2> HIDE DEF ms, v
  <2>4. /\ v \in Worlds /\ Scene(v) = Scene(World) /\ v.session.calls = World.session.calls
        /\ v.agent = World.agent /\ v.session.entries = World.session.entries
        /\ v.session.pendingBash = ms
    BY <1>0, <2>2, <2>3 DEF Worlds, Sessions, Scene
  <2>5. /\ v.agent.run = World.agent.run /\ v.session.backoff = World.session.backoff
        /\ v.session.timers = World.session.timers /\ v.session.compactions = World.session.compactions
        /\ v.session.manual = World.session.manual /\ v.session.cut = World.session.cut
        /\ v.session.tree = World.session.tree /\ v.session.connected = World.session.connected
        /\ v.session.events = World.session.events /\ v.ui.acts = World.ui.acts
        /\ Asks(v) = Asks(World)
    BY <2>4 DEF Scene, Asks
  <2>6. Turns(v)
    BY <2>5 DEF Steady, Turns, Waiting, Going, OneWait, Asked, OnePrompt
  <2>7. Followed(v)
    BY <2>2, <2>4, <2>5 DEF Steady, Followed, Path, Heard, Cutting, Queues
  <2> QED
    BY <2>4, <2>6, <2>7 DEF Steady
<1>5. ASSUME World.agent.run = "idle" PROVE x \in Worlds /\ Steady(x)
  <2> DEFINE m == BashResult
  <2>1. m \in Known /\ m.role = "bash"
    BY <1>3
  <2> HIDE DEF m
  <2>2. <<m>> \in Seq(Known) /\ Plain(<<m>>)
    BY <2>1 DEF Plain
  <2>3. Steady(AddNow(World, <<m>>))
    BY <1>0, <1>2, <1>5, <2>2, AddedSteady, WorldFields
  <2>4. Keeps(World, AddNow(World, <<m>>))
    BY <1>0, <2>2, AddNowKeeps
  <2> QED
    BY <2>3, <2>4 DEF Keeps, m
<1>6. recordBashResult(World) = IF World.agent.run # "idle" THEN v ELSE x
  BY DEF recordBashResult, isStreaming
<1> HIDE DEF v, x
<1>7. recordBashResult(World) \in Worlds /\ Steady(recordBashResult(World))
  BY <1>4, <1>5, <1>6
<1> QED
  BY <1>1, <1>7, ActedSteady, ReachesSteady

LEMMA SendCustomMessageSteady ==
  ASSUME Undisturbed, Orderly(World), Steady(World), SendCustomMessage
  PROVE  Steady(World')
<1> DEFINE v == [World EXCEPT !.agent.steering = Append(@, Custom)]
           one == <<Custom>>
           x == StartRun(World, one)
           y == AddNow(World, one)
<1>0. World \in Worlds
  BY DEF Orderly
<1>1. /\ Quiet /\ "custom" \in Uses /\ ui.acts < MaxActs
      /\ \/ Becomes(Acted(v))
         \/ agent.run = "idle" /\ MayOverlap /\ Becomes(Acted(x))
         \/ agent.run = "idle" /\ Becomes(Acted(y))
  BY WorldFields DEF SendCustomMessage, Acts, isStreaming
<1>2. session.events = <<>> /\ Asks(World) = {}
  BY <1>1, QuietNow
<1>3. Custom \in Queueable
  <2>1. Custom \in Known /\ Custom.role = "custom"
    BY OthersKnown DEF Custom, Msg
  <2> QED
    BY <2>1 DEF Queueable
<1>c. one \in Seq(Known) /\ Plain(one) /\ MaySay(World, one)
  <2> DEFINE m == Custom
  <2>1. m \in Known /\ m.role \in {"user", "custom"}
    BY <1>3 DEF Queueable
  <2>2. MaySay(World, <<m>>)
    BY <1>3, QueueableSpeaks
  <2> HIDE DEF m
  <2>3. <<m>> \in Seq(Known) /\ Plain(<<m>>)
    BY <2>1 DEF Plain
  <2> QED
    BY <2>2, <2>3 DEF m
<1>4. v \in Worlds /\ Steady(v)
  <2> DEFINE ms == Append(World.agent.steering, Custom)
  <2>1. /\ World.agent.steering \in Seq(Queueable) /\ World.agent.steering \in Seq(Known)
        /\ Custom \in Known
    BY <1>0, <1>3 DEF Steady, Followed, Queues, Worlds, Agents, Queueable
  <2>2. ms \in Seq(Queueable) /\ ms \in Seq(Known)
    BY <1>3, <2>1, AppendProperties
  <2>3. v = [World EXCEPT !.agent.steering = ms]
    OBVIOUS
  <2> HIDE DEF ms, v
  <2>4. /\ v \in Worlds /\ v.session = World.session /\ v.ui = World.ui
        /\ v.agent.run = World.agent.run /\ v.agent.messages = World.agent.messages
        /\ v.agent.steering = ms /\ v.agent.followUp = World.agent.followUp
    BY <1>0, <2>2, <2>3 DEF Worlds, Agents
  <2>5. Passes(World, v)
    BY <2>2, <2>4 DEF Passes, Scene, Talk, Asks, Queues
  <2> QED
    BY <2>4, <2>5, PassesSteady
<1>5. ASSUME agent.run = "idle", MayOverlap PROVE x \in Worlds /\ Steady(x)
  <2>1. session.backoff = "none" /\ session.compactions = {}
    BY <1>5, WorldFields DEF MayOverlap, Undisturbed, Sleeping
  <2>2. ui.acts \in Nat /\ MaxActs \in Nat
    BY <1>0, SessionAssumption, WorldFields DEF Worlds, Uis
  <2>3. session.manual = "none" /\ session.tree # "summary"
    <3>1. SUFFICES ASSUME session.manual # "none" \/ session.tree = "summary" PROVE FALSE
      OBVIOUS
    <3>2. ui.acts >= 1 /\ Uses \cap {"compact", "tree"} # {}
      BY <3>1, WorldFields DEF Steady, Turns, Asked
    <3>3. MaxActs <= 1
      BY <1>1, <3>2 DEF Undisturbed
    <3> QED
      BY <1>1, <2>2, <3>2, <3>3
  <2>4. World.session.connected
    BY <2>3, WorldFields DEF Steady, Turns, OneWait
  <2>5. Listening(World)
    BY <1>0, <1>2, <2>1, <2>3, <2>4, WorldFields DEF Listening, Waiting
  <2>6. Steady(x)
    BY <1>c, <2>5, StartedSteady
  <2>7. Keeps(World, x)
    BY <1>0, <1>c, StartRunKeeps
  <2> QED
    BY <2>6, <2>7 DEF Keeps
<1>6. ASSUME agent.run = "idle" PROVE y \in Worlds /\ Steady(y)
  <2>1. Steady(y)
    BY <1>0, <1>2, <1>6, <1>c, AddedSteady, WorldFields
  <2>2. Keeps(World, y)
    BY <1>0, <1>c, AddNowKeeps
  <2> QED
    BY <2>1, <2>2 DEF Keeps
<1> HIDE DEF v, x, y
<1> QED
  BY <1>1, <1>4, <1>5, <1>6, ActedSteady, ReachesSteady

LEMMA HandleMessageSteady ==
  ASSUME Undisturbed, Orderly(World), Steady(World), HandleMessage
  PROVE  Steady(World')
<1> DEFINE m == Head(session.events)
           s == [session EXCEPT !.events = Tail(@), !.entries = Append(@, m)]
           s1 == [s EXCEPT !.overflowRecoveryAttempted = FALSE]
           s2 == [s EXCEPT !.lastAssistant = m.stop]
           s3 == [s EXCEPT !.lastAssistant = m.stop, !.retryAttempt = 0,
                           !.overflowRecoveryAttempted = FALSE]
           rest == Tail(session.events)
           path == Append(session.entries, m)
           Same(u) ==
             /\ u \in Sessions
             /\ u.backoff = session.backoff /\ u.timers = session.timers
             /\ u.compactions = session.compactions /\ u.manual = session.manual
             /\ u.cut = session.cut /\ u.tree = session.tree /\ u.connected = session.connected
             /\ u.calls = session.calls /\ u.pendingBash = session.pendingBash
             /\ u.entries = path /\ u.events = rest
<1>0. World \in Worlds /\ session \in Sessions
  BY DEF Orderly, World, Worlds
<1>1. session.events # <<>> /\ agent' = agent /\ ui' = ui
  BY DEF HandleMessage
<1>2. session' \in {s, Delivered(s1, m.id), s2, s3}
  <2>1. session' = CASE m.role = "user" -> Delivered(s1, m.id)
                     [] IsAnswer(m) /\ Failed(m) -> s2
                     [] IsAnswer(m) /\ ~Failed(m) -> s3
                     [] OTHER -> s
    BY DEF HandleMessage
  <2> HIDE DEF s, s1, s2, s3, m
  <2> QED BY <2>1
<1>3. /\ session.events \in Seq(Known) /\ session.entries \in Seq(Known)
      /\ m \in Known /\ rest \in Seq(Known) /\ path \in Seq(Known)
  <2>1. session.events \in Seq(Known) /\ session.entries \in Seq(Known)
    BY <1>0 DEF Sessions
  <2>2. m \in Known /\ rest \in Seq(Known)
    BY <1>1, <2>1, HeadTailProperties
  <2> QED
    BY <2>1, <2>2, AppendProperties
<1>4. m.stop \in Stops /\ 0 \in 0..MaxRetries
  BY <1>3, Numbers DEF Known, Messages
<1>5. Same(s)
  <2>1. s = [session EXCEPT !.events = rest, !.entries = path]
    OBVIOUS
  <2> HIDE DEF s, rest, path, m
  <2> QED
    BY <1>0, <1>3, <2>1 DEF Sessions
<1> HIDE DEF s, m, rest, path
<1>6. Same(s1) /\ Same(s2) /\ Same(s3)
  BY <1>4, <1>5 DEF Sessions
<1> HIDE DEF s1, s2, s3
<1>7. Same(Delivered(s1, m.id))
  <2> DEFINE x == RemoveFirst(s1.steering, m.id)
             y == RemoveFirst(s1.followUp, m.id)
             u == [s1 EXCEPT !.steering = x]
             v == [s1 EXCEPT !.followUp = y]
  <2>1. x \in Seq(Text) /\ y \in Seq(Text)
    BY <1>6, RemoveFirstTyped DEF Sessions
  <2>2. Delivered(s1, m.id) \in {u, v}
    BY DEF Delivered
  <2> HIDE DEF x, y
  <2>3. Same(u)
    BY <1>6, <2>1 DEF Sessions
  <2>4. Same(v)
    BY <1>6, <2>1 DEF Sessions
  <2> HIDE DEF u, v, Same
  <2> QED BY <2>2, <2>3, <2>4
<1>8. Same(session')
  <2> HIDE DEF Same
  <2> QED BY <1>2, <1>5, <1>6, <1>7
<1>9. /\ Len(session.events) \in Nat \ {0} /\ session.events[1] = m
      /\ Len(rest) = Len(session.events) - 1
      /\ \A i \in 1..Len(rest) : rest[i] = session.events[i + 1] /\ i + 1 \in 1..Len(session.events)
      /\ 1 \in 1..Len(session.events)
  <2>1. Len(session.events) \in Nat \ {0}
    BY <1>1, <1>3, EmptySeq, LenProperties
  <2>2. m = session.events[1] /\ Len(rest) = Len(session.events) - 1
        /\ \A i \in 1..Len(rest) : rest[i] = session.events[i + 1]
    BY <1>1, <1>3, <2>1, HeadTailProperties DEF m, rest
  <2> QED
    BY <2>1, <2>2
<1> DEFINE v == World'
<1>10. v.agent = agent /\ v.session = session' /\ v.ui = ui
  BY <1>1 DEF World
<1> HIDE DEF v
<1>11. /\ Turns(World) /\ Path(World) /\ Heard(World) /\ Cutting(World) /\ Queues(World)
  BY DEF Steady, Followed
<1>12. ~Waiting(World) /\ Asks(World) = {}
  <2>1. Going(World)
    BY <1>1, WorldFields DEF Going
  <2> QED
    BY <1>1, <1>11, <2>1, WorldFields DEF Turns, OnePrompt
<1>13. Asks(v) = {}
  BY <1>8, <1>10, <1>12, WorldFields DEF Asks
<1>14. OnePrompt(v)
  <2>1. \A i \in 1..Len(rest) : rest[i].role = "agent_end" =>
          i = Len(rest) /\ agent.run = "idle" /\ session.timers = 0
    <3>1. SUFFICES ASSUME NEW i \in 1..Len(rest), rest[i].role = "agent_end"
                   PROVE  i = Len(rest) /\ agent.run = "idle" /\ session.timers = 0
      OBVIOUS
    <3>2. i + 1 \in 1..Len(session.events) /\ session.events[i + 1].role = "agent_end"
      BY <1>9, <3>1
    <3>3. i + 1 = Len(session.events) /\ agent.run = "idle" /\ session.timers = 0
      BY <1>11, <3>2, WorldFields DEF Turns, OnePrompt
    <3> QED
      BY <1>9, <3>3
  <2> QED
    BY <1>8, <1>10, <1>13, <2>1 DEF OnePrompt
<1>15. Turns(v)
  BY <1>8, <1>10, <1>11, <1>12, <1>14, WorldFields DEF Turns, Waiting, OneWait, Asked
<1>16. /\ m.role # "compaction"
       /\ m.role = "toolResult" => EndsInCall(session.entries)
  BY <1>9, <1>11, WorldFields DEF Heard
<1>17. /\ ResultFollowsCall(path)
       /\ m.role = "assistant" /\ m.stop = "toolUse" => EndsInCall(path)
  BY <1>3, <1>11, <1>16, AppendResults, WorldFields DEF Path, path
<1>18. KeptFromCut(path) /\ \A n : CutAt(session.entries, n) => CutAt(path, n)
  <2>1. path = session.entries \o <<m>> /\ <<m>> \in Seq(Known)
    BY <1>3, AppendIsConcat DEF path
  <2>2. \A i \in 1..Len(<<m>>) : <<m>>[i].role # "compaction"
    BY <1>16
  <2> QED
    BY <1>3, <1>11, <2>1, <2>2, PathGrows, WorldFields DEF Path
<1>19. Path(v) /\ Cutting(v) /\ Queues(v)
  BY <1>8, <1>10, <1>11, <1>17, <1>18, WorldFields DEF Path, Cutting, Queues
<1>20. Heard(v)
  <2>1. \A i \in 1..Len(rest) : rest[i].role # "compaction" /\ rest[i].role # "toolResult"
    <3>1. SUFFICES ASSUME NEW i \in 1..Len(rest)
                   PROVE  rest[i].role # "compaction" /\ rest[i].role # "toolResult"
      OBVIOUS
    <3>2. i + 1 \in 1..Len(session.events) /\ session.events[i + 1] = rest[i] /\ i + 1 # 1
      BY <1>9, <3>1
    <3> QED
      BY <1>11, <3>2, WorldFields DEF Heard
  <2>2. ASSUME agent.run = "tools"
        PROVE  EndsInCall(agent.messages) /\ EndsInCall(IF rest = <<>> THEN path ELSE rest)
    <3>1. EndsInCall(agent.messages) /\ EndsInCall(session.events)
      BY <1>1, <1>11, <2>2, WorldFields DEF Heard
    <3>2. ASSUME rest = <<>> PROVE EndsInCall(path)
      <4>1. Len(session.events) = 1
        BY <1>3, <1>9, <3>2, EmptySeq
      <4> QED
        BY <1>9, <1>17, <3>1, <4>1 DEF EndsInCall
    <3>3. ASSUME rest # <<>> PROVE EndsInCall(rest)
      <4>1. Len(rest) \in 1..Len(rest) /\ Len(rest) + 1 = Len(session.events)
        BY <1>3, <1>9, <3>3, EmptySeq, LenProperties
      <4>2. rest[Len(rest)] = session.events[Len(session.events)]
        BY <1>9, <4>1
      <4> QED
        BY <3>1, <3>3, <4>2 DEF EndsInCall
    <3> QED
      BY <3>1, <3>2, <3>3
  <2> QED
    BY <1>8, <1>10, <2>1, <2>2 DEF Heard
<1>21. Steady(v)
  BY <1>15, <1>19, <1>20 DEF Steady, Followed
<1> QED
  BY <1>21 DEF v

-----------------------------------------------------------------------------
(* A session whose agent is idle and has been heard.                        *)

Still(w) ==
  /\ w.agent.run = "idle" /\ w.session.events = <<>>
  /\ \A t, u \in Asks(w) : t = u
  /\ Followed(w)

Waits(w) ==
  <<w.session.backoff, w.session.compactions, w.session.manual, w.session.cut, w.session.tree,
    w.session.connected, w.session.timers, w.ui.acts>>

WaitsAre(w, v) ==
  /\ v.session.backoff = w.session.backoff /\ v.session.compactions = w.session.compactions
  /\ v.session.manual = w.session.manual /\ v.session.cut = w.session.cut
  /\ v.session.tree = w.session.tree /\ v.session.connected = w.session.connected
  /\ v.session.timers = w.session.timers /\ v.ui.acts = w.ui.acts

LEMMA WaitsFields ==
  ASSUME NEW w, NEW v, Waits(v) = Waits(w)
  PROVE  WaitsAre(w, v)
BY DEF Waits, WaitsAre

LEMMA SceneWaits ==
  ASSUME NEW w, NEW v, Scene(v) = Scene(w)
  PROVE  /\ Waits(v) = Waits(w) /\ WaitsAre(w, v)
         /\ v.agent.run = w.agent.run /\ v.session.events = w.session.events
BY DEF Scene, Waits, WaitsAre

LEMMA SteadyStill ==
  ASSUME NEW w, Steady(w), w.agent.run = "idle", w.session.events = <<>>
  PROVE  Still(w)
BY DEF Steady, Turns, OnePrompt, Still

\* It may go on when nothing is waited for.
LEMMA StillGoes ==
  ASSUME NEW w, Still(w), ~Waiting(w), w.session.connected
  PROVE  Steady(w)
<1>1. OneWait(w) /\ Asked(w)
  BY DEF Waiting, OneWait, Asked
<1>2. OnePrompt(w)
  <2>1. Len(w.session.events) = 0
    BY DEF Still
  <2> QED
    BY <2>1 DEF Still, OnePrompt
<1> QED
  BY <1>1, <1>2 DEF Steady, Turns, Still

\* It may wait when nothing goes on.
LEMMA StillWaits ==
  ASSUME NEW w, Still(w), Asks(w) = {}, w.session.timers = 0, OneWait(w), Asked(w)
  PROVE  Steady(w)
<1>1. ~Going(w)
  BY DEF Still, Going
<1>2. OnePrompt(w)
  <2>1. Len(w.session.events) = 0
    BY DEF Still
  <2> QED
    BY <2>1 DEF Still, OnePrompt
<1> QED
  BY <1>1, <1>2 DEF Steady, Turns, Still

LEMMA StillPasses ==
  ASSUME NEW w, Still(w), NEW v, Passes(w, v)
  PROVE  Still(v) /\ Waits(v) = Waits(w) /\ Asks(v) = Asks(w)
<1>1. /\ Waits(v) = Waits(w) /\ WaitsAre(w, v)
      /\ v.agent.run = w.agent.run /\ v.session.events = w.session.events
  BY SceneWaits DEF Passes
<1>2. v.agent.messages = w.agent.messages /\ v.session.entries = w.session.entries /\ Asks(v) = Asks(w)
  BY DEF Passes, Talk
<1>3. Followed(v)
  BY <1>1, <1>2 DEF Passes, Still, Followed, Path, Heard, Cutting, WaitsAre
<1> QED
  BY <1>1, <1>2, <1>3 DEF Still

LEMMA UiPasses ==
  ASSUME NEW w, NEW v, v.agent = w.agent, v.session = w.session, v.ui.acts = w.ui.acts
  PROVE  Passes(w, v)
BY DEF Passes, Scene, Talk, Asks, Queues

-----------------------------------------------------------------------------
(* Prompts, and the texts kept during a compaction.                         *)

LEMMA FlushBashStill ==
  ASSUME NEW w \in Worlds, Still(w)
  PROVE  LET v == flushPendingBashMessages(w) IN
         v \in Worlds /\ Still(v) /\ Waits(v) = Waits(w) /\ Asks(v) = Asks(w)
<1> DEFINE ms == w.session.pendingBash
           u == AddNow(w, ms)
           v == [u EXCEPT !.session.pendingBash = <<>>]
<1>1. ms \in Seq(Known) /\ Plain(ms)
  <2>1. ms \in Seq(Known) /\ ms \in Seq(BashMessages)
    BY DEF Still, Followed, Queues, Worlds, Sessions
  <2>2. \A i \in 1..Len(ms) : ms[i] \in BashMessages
    BY <2>1, ElementOfSeq
  <2>3. \A i \in 1..Len(ms) : ms[i].role = "bash"
    BY <2>2 DEF BashMessages
  <2> QED
    BY <2>1, <2>3 DEF Plain
<1>2. Followed(u) /\ Scene(u) = Scene(w) /\ Asks(u) = Asks(w) /\ u \in Worlds
  <2> HIDE DEF ms
  <2> QED BY <1>1, AddedFollowed DEF Still
<1> HIDE DEF u, ms
<1>3. <<>> \in Seq(Known) /\ <<>> \in Seq(BashMessages)
  OBVIOUS
<1>4. /\ v \in Worlds /\ Scene(v) = Scene(u) /\ v.agent = u.agent /\ v.session.calls = u.session.calls
      /\ v.session.entries = u.session.entries /\ v.session.pendingBash = <<>>
  BY <1>2, <1>3 DEF Worlds, Sessions, Scene
<1>5. flushPendingBashMessages(w) = v
  BY DEF flushPendingBashMessages, u, ms
<1> HIDE DEF v
<1>6. Waits(v) = Waits(w) /\ WaitsAre(u, v)
      /\ v.session.events = w.session.events /\ v.agent.run = w.agent.run
      /\ v.session.events = u.session.events /\ v.agent.run = u.agent.run
  BY <1>2, <1>4, SceneWaits
<1>7. Followed(v)
  BY <1>2, <1>3, <1>4, <1>6 DEF Followed, Path, Heard, Cutting, Queues, WaitsAre
<1>8. Asks(v) = Asks(w)
  BY <1>2, <1>4 DEF Asks
<1> QED
  BY <1>4, <1>5, <1>6, <1>7, <1>8 DEF Still

LEMMA CalledStill ==
  ASSUME NEW w \in Worlds, Still(w), Asks(w) = {}, NEW t \in Text
  PROVE  LET v == Called(w, t) IN v \in Worlds /\ Still(v) /\ Waits(v) = Waits(w)
<1> DEFINE pc == IF \E c \in Running(w) : c.runner = t THEN "compacting" ELSE "starting"
           calls == [w.session.calls EXCEPT ![t] = pc]
           v == [w EXCEPT !.session.calls = calls]
<1>1. pc \in Places4Calls
  BY DEF Places4Calls
<1>2. Called(w, t) = v
  BY DEF Called, Worlds, Sessions
<1> HIDE DEF pc
<1>3. calls \in [Text -> Places4Calls] /\ \A u \in Text \ {t} : calls[u] = w.session.calls[u]
  BY <1>1 DEF Worlds, Sessions
<1> HIDE DEF calls
<1>4. /\ v \in Worlds /\ Scene(v) = Scene(w) /\ v.agent = w.agent /\ v.session.calls = calls
      /\ v.session.entries = w.session.entries /\ v.session.pendingBash = w.session.pendingBash
  BY <1>3 DEF Worlds, Sessions, Scene
<1> HIDE DEF v
<1>5. \A u \in Asks(v) : u = t
  BY <1>3, <1>4 DEF Asks
<1>6. /\ Waits(v) = Waits(w) /\ WaitsAre(w, v)
      /\ v.agent.run = w.agent.run /\ v.session.events = w.session.events
  BY <1>4, SceneWaits
<1>7. Followed(v)
  BY <1>4, <1>6 DEF Still, Followed, Path, Heard, Cutting, Queues, WaitsAre
<1> QED
  BY <1>2, <1>4, <1>5, <1>6, <1>7 DEF Still

\* A prompt that checks nothing.
LEMMA PromptIs ==
  ASSUME "precheck" \notin Uses, NEW w, NEW t, NEW check
  PROVE  /\ PromptHearing(w, t, check, LAMBDA x : x) = Called(flushPendingBashMessages(w), t)
         /\ prompt(w, t, check) = Called(flushPendingBashMessages(w), t)
BY DEF prompt, PromptHearing, Called

LEMMA PromptStill ==
  ASSUME NEW w \in Worlds, Still(w), Asks(w) = {}, NEW t \in Text
  PROVE  LET v == Called(flushPendingBashMessages(w), t) IN
         v \in Worlds /\ Still(v) /\ Waits(v) = Waits(w)
<1> DEFINE f == flushPendingBashMessages(w)
<1>1. f \in Worlds /\ Still(f) /\ Waits(f) = Waits(w) /\ Asks(f) = {}
  BY FlushBashStill
<1> HIDE DEF f
<1>2. Called(f, t) \in Worlds /\ Still(Called(f, t)) /\ Waits(Called(f, t)) = Waits(f)
  BY <1>1, CalledStill
<1> QED
  BY <1>1, <1>2 DEF f

LEMMA QueueAllStill ==
  ASSUME NEW w \in Worlds, Still(w), NEW qs \in Seq(Texts)
  PROVE  LET v == QueueAll(w, qs) IN
         v \in Worlds /\ Still(v) /\ Waits(v) = Waits(w) /\ Asks(v) = Asks(w)
<1>1. QueueAll(w, qs) \in Worlds
  BY QueueAllKeeps DEF Keeps
<1>2. Passes(w, QueueAll(w, qs))
  BY QueueAllPasses
<1> QED
  BY <1>1, <1>2, StillPasses

LEMMA FlushStill ==
  ASSUME Undisturbed, NEW w \in Worlds, Still(w), Asks(w) = {}, NEW willRetry, NEW check
  PROVE  LET v == flushCompactionQueue(w, willRetry, check) IN
         /\ v \in Worlds /\ Still(v) /\ Waits(v) = Waits(w)
         /\ willRetry => Asks(v) = {}
<1> DEFINE v == flushCompactionQueue(w, willRetry, check)
           queued == w.ui.queued
           emptied == [w EXCEPT !.ui.queued = <<>>]
           sending == [emptied EXCEPT !.ui.flushed = queued]
           h == Head(queued).text
           p == PromptHearing(sending, h, check, LAMBDA x : x)
           Good(u) == u \in Worlds /\ Still(u) /\ Waits(u) = Waits(w)
<1>0. queued \in Seq(Texts) /\ <<>> \in Seq(Texts)
  BY DEF Worlds, Uis
<1>1. v = IF queued = <<>> THEN w
          ELSE IF willRetry THEN QueueAll(emptied, queued) ELSE QueueAll(p, Tail(queued))
  BY DEF flushCompactionQueue
<1>2. emptied \in Worlds /\ emptied.agent = w.agent /\ emptied.session = w.session
      /\ emptied.ui.acts = w.ui.acts
  BY <1>0 DEF Worlds, Uis
<1>3. sending \in Worlds /\ sending.agent = w.agent /\ sending.session = w.session
      /\ sending.ui.acts = w.ui.acts
  BY <1>0 DEF Worlds, Uis
<1> HIDE DEF emptied, sending, queued
<1>4. Good(emptied) /\ Asks(emptied) = {}
  BY <1>2, UiPasses, StillPasses
<1>5. Good(sending) /\ Asks(sending) = {}
  BY <1>3, UiPasses, StillPasses
<1>6. ASSUME queued # <<>> PROVE Good(p) /\ Tail(queued) \in Seq(Texts)
  <2>1. h \in Text /\ Tail(queued) \in Seq(Texts)
    <3>1. Head(queued) \in Texts /\ Tail(queued) \in Seq(Texts)
      BY <1>0, <1>6, HeadTailProperties
    <3> QED
      BY <3>1 DEF Texts
  <2> HIDE DEF h
  <2>2. p = Called(flushPendingBashMessages(sending), h)
    BY PromptIs DEF Undisturbed
  <2> HIDE DEF p
  <2>3. Good(p)
    BY <1>5, <2>1, <2>2, PromptStill
  <2> QED
    BY <2>1, <2>3
<1> HIDE DEF p
<1>7. ASSUME NEW u, Good(u), NEW qs \in Seq(Texts)
      PROVE  Good(QueueAll(u, qs)) /\ Asks(QueueAll(u, qs)) = Asks(u)
  BY <1>7, QueueAllStill
<1> HIDE DEF v
<1>8. Good(v)
  <2>1. CASE queued = <<>>
    BY <1>1, <2>1
  <2>2. CASE queued # <<>> /\ willRetry
    BY <1>0, <1>1, <1>4, <1>7, <2>2
  <2>3. CASE queued # <<>> /\ ~willRetry
    BY <1>1, <1>6, <1>7, <2>3
  <2> QED
    BY <2>1, <2>2, <2>3
<1>9. willRetry => Asks(v) = {}
  BY <1>0, <1>1, <1>4, <1>7
<1> QED
  BY <1>8, <1>9 DEF v

-----------------------------------------------------------------------------
(* Cuts and checks of an idle agent.                                        *)

LEMMA CutIsAt ==
  ASSUME NEW s \in Seq(Known), KeptFromCut(s), NEW first \in Cut(s), first # 0
  PROVE  CutAt(s, first)
<1> DEFINE c == LastCompaction(s)
           start == IF c = 0 THEN 1 ELSE s[c].id
<1>1. Len(s) \in Nat
  BY LenProperties
<1>2. first \in CutPoints(s)
  BY DEF Cut
<1>3. first \in start..Len(s) /\ s[first].role \notin {"compaction", "toolResult"}
  BY <1>2 DEF CutPoints
<1>4. start \in Nat \ {0}
  <2>1. c = 0 \/ (c \in 1..Len(s) /\ s[c].role = "compaction")
    BY LastCompactionIs
  <2> HIDE DEF c
  <2>2. c # 0 => s[c].id \in 1..Len(s)
    BY <2>1 DEF KeptFromCut, CutAt
  <2> QED
    BY <1>1, <2>2
<1> HIDE DEF start
<1> QED
  BY <1>1, <1>3, <1>4 DEF CutAt

LEMMA TrimResults ==
  ASSUME NEW s \in Seq(Known), ResultFollowsCall(s)
  PROVE  /\ TrimAnswer(s) \in Seq(Known) /\ ResultFollowsCall(TrimAnswer(s))
         /\ s # <<>> => Front(s) \in Seq(Known) /\ ResultFollowsCall(Front(s))
<1>1. ASSUME s # <<>> PROVE Front(s) \in Seq(Known) /\ ResultFollowsCall(Front(s))
  <2>1. Len(s) \in Nat \ {0}
    BY <1>1, LenProperties, EmptySeq
  <2>2. PICK n \in 0..Len(s) : n = Len(s) - 1
    BY <2>1
  <2>3. ResultFollowsCall(SubSeq(s, 1, n)) /\ SubSeq(s, 1, n) \in Seq(Known)
    BY <2>1, <2>2, SubSeqResults, SubSeqTyped
  <2> QED
    BY <2>2, <2>3 DEF Front
<1>2. TrimAnswer(s) = IF s # <<>> /\ IsAnswer(Last(s)) THEN Front(s) ELSE s
  BY DEF TrimAnswer
<1> QED
  BY <1>1, <1>2

\* The path a compaction ends.
LEMMA CompactedPath ==
  ASSUME NEW s \in Seq(Known), ResultFollowsCall(s), KeptFromCut(s), NEW first, CutAt(s, first)
  PROVE  LET e == Append(s, Compaction(first)) IN
         /\ e \in Seq(Known) /\ ResultFollowsCall(e) /\ KeptFromCut(e)
         /\ \A n : CutAt(s, n) => CutAt(e, n)
<1> DEFINE m == Compaction(first)
           e == Append(s, m)
<1>1. Len(s) \in Nat /\ first \in 1..Len(s)
  BY LenProperties DEF CutAt
<1>2. m \in Known /\ m.role = "compaction" /\ m.id = first
  <2>1. first \in Nat \ {0}
    BY <1>1
  <2>2. Compaction(first) \in Known
    BY <2>1, CompactionKnown
  <2> QED
    BY <2>2 DEF Compaction, Msg
<1> HIDE DEF m
<1>3. /\ e \in Seq(Known) /\ Len(e) = Len(s) + 1 /\ e[Len(s) + 1] = m
      /\ \A i \in 1..Len(s) : e[i] = s[i]
  BY <1>1, <1>2, AppendProperties
<1>4. ResultFollowsCall(e)
  BY <1>2, AppendResults
<1> HIDE DEF e
<1>5. \A n : CutAt(s, n) => CutAt(e, n)
  BY <1>1, <1>3 DEF CutAt
<1>6. KeptFromCut(e)
  <2>1. SUFFICES ASSUME NEW i \in 1..Len(e), e[i].role = "compaction"
                 PROVE  e[i].id < i /\ CutAt(e, e[i].id)
    BY DEF KeptFromCut
  <2>2. CASE i \in 1..Len(s)
    BY <1>3, <1>5, <2>1, <2>2 DEF KeptFromCut
  <2>3. CASE i = Len(s) + 1
    <3>1. e[i].id = first
      BY <1>2, <1>3, <2>3
    <3> QED
      BY <1>1, <1>5, <2>3, <3>1
  <2> QED
    BY <1>1, <1>3, <2>1, <2>2, <2>3
<1> QED
  BY <1>3, <1>4, <1>5, <1>6 DEF e, m

LEMMA MessagesStill ==
  ASSUME NEW w \in Worlds, Still(w), NEW ms \in Seq(Known), ResultFollowsCall(ms)
  PROVE  LET v == [w EXCEPT !.agent.messages = ms] IN
         v \in Worlds /\ Still(v) /\ Waits(v) = Waits(w) /\ Asks(v) = Asks(w)
<1> DEFINE v == [w EXCEPT !.agent.messages = ms]
<1>1. /\ v \in Worlds /\ v.session = w.session /\ v.ui = w.ui
      /\ v.agent.run = w.agent.run /\ v.agent.messages = ms
      /\ v.agent.steering = w.agent.steering /\ v.agent.followUp = w.agent.followUp
  BY DEF Worlds, Agents
<1> HIDE DEF v
<1>2. Asks(v) = Asks(w)
  BY <1>1 DEF Asks
<1>3. Waits(v) = Waits(w)
  BY <1>1 DEF Waits
<1>4. Followed(v)
  BY <1>1 DEF Still, Followed, Path, Heard, Cutting, Queues
<1> QED
  BY <1>1, <1>2, <1>3, <1>4 DEF Still, v

\* Another path, and its context.
LEMMA PathStill ==
  ASSUME NEW w \in Worlds, Still(w), NEW s \in Seq(Known), ResultFollowsCall(s), KeptFromCut(s),
         \/ \A n : CutAt(w.session.entries, n) => CutAt(s, n)
         \/ w.session.compactions = {} /\ w.session.manual # "summary"
  PROVE  LET v == [w EXCEPT !.session.entries = s, !.agent.messages = Context(s)] IN
         v \in Worlds /\ Still(v) /\ Waits(v) = Waits(w) /\ Asks(v) = Asks(w)
<1> DEFINE v == [w EXCEPT !.session.entries = s, !.agent.messages = Context(s)]
<1>1. Context(s) \in Seq(Known) /\ ResultFollowsCall(Context(s))
  BY ContextTyped, ContextResults
<1>2. /\ v \in Worlds /\ v.ui = w.ui /\ Waits(v) = Waits(w)
      /\ v.session.calls = w.session.calls /\ v.session.events = w.session.events
      /\ v.session.entries = s /\ v.session.pendingBash = w.session.pendingBash
      /\ v.agent.run = w.agent.run /\ v.agent.messages = Context(s)
      /\ v.agent.steering = w.agent.steering /\ v.agent.followUp = w.agent.followUp
  BY <1>1 DEF Worlds, Agents, Sessions, Waits
<1> HIDE DEF v
<1>3. Asks(v) = Asks(w)
  BY <1>2 DEF Asks
<1>4. WaitsAre(w, v)
  BY <1>2, WaitsFields
<1>5. Cutting(v)
  BY <1>2, <1>4 DEF Still, Followed, Cutting, WaitsAre
<1>6. Path(v) /\ Queues(v)
  BY <1>1, <1>2 DEF Still, Followed, Path, Queues
<1>7. Heard(v)
  <2>1. v.session.events = <<>> /\ v.agent.run = "idle"
    BY <1>2 DEF Still
  <2>2. Len(v.session.events) = 0
    BY <2>1
  <2> QED
    BY <2>1, <2>2 DEF Heard
<1> QED
  BY <1>2, <1>3, <1>5, <1>6, <1>7 DEF Still, Followed, v

\* An idle agent whose session waits for nothing: what a check finds.
Idles(w) ==
  /\ w \in Worlds /\ Still(w) /\ Asks(w) = {} /\ ~Waiting(w)
  /\ w.session.connected /\ w.session.timers = 0

LEMMA StillIdles ==
  ASSUME NEW w, Idles(w), NEW v \in Worlds, Still(v), Waits(v) = Waits(w), Asks(v) = {}
  PROVE  Idles(v)
<1>1. WaitsAre(w, v)
  BY WaitsFields
<1> QED
  BY <1>1 DEF WaitsAre, Idles, Waiting

LEMMA IdlesPasses ==
  ASSUME NEW w, Idles(w), NEW v \in Worlds, Passes(w, v)
  PROVE  Idles(v)
<1>1. Still(v) /\ Waits(v) = Waits(w) /\ Asks(v) = {}
  BY StillPasses DEF Idles
<1> QED
  BY <1>1, StillIdles

LEMMA IdlesSteady ==
  ASSUME NEW w, Idles(w)
  PROVE  Steady(w)
BY StillGoes DEF Idles

LEMMA FlushSteady ==
  ASSUME Undisturbed, NEW w, Idles(w), NEW check
  PROVE  LET v == flushCompactionQueue(w, FALSE, check) IN v \in Worlds /\ Steady(v)
<1> DEFINE v == flushCompactionQueue(w, FALSE, check)
<1>1. v \in Worlds /\ Still(v) /\ Waits(v) = Waits(w)
  BY FlushStill DEF Idles
<1> HIDE DEF v
<1>2. WaitsAre(w, v)
  BY <1>1, WaitsFields
<1>3. ~Waiting(v) /\ v.session.connected
  BY <1>2 DEF WaitsAre, Idles, Waiting
<1> QED
  BY <1>1, <1>3, StillGoes DEF v

CompactsNow(w, reason, first, later) ==
  CompactHearing(w, Events, reason, first, LAMBDA x : flushCompactionQueue(x, FALSE, later))

LEMMA CompactingSteady ==
  ASSUME Undisturbed, NEW w, Idles(w), NEW reason \in {"threshold", "overflow"},
         NEW first \in Nat, first # 0 => CutAt(w.session.entries, first), NEW later
  PROVE  Steady(CompactsNow(w, reason, first, later))
<1> DEFINE v == CompactsNow(w, reason, first, later)
           a == [w EXCEPT !.session.controller = Events]
           f == flushCompactionQueue(a, FALSE, later)
           b == [f EXCEPT !.session.controller = Nobody]
           k == [runner |-> Events, reason |-> reason, first |-> first, aborted |-> FALSE]
           c == [a EXCEPT !.session.compactions = @ \cup {k}]
<1>0. w \in Worlds
  BY DEF Idles
<1>1. v = IF first = 0 THEN b ELSE c
  BY DEF CompactsNow, CompactHearing, runAutoCompaction
<1>2. a \in Worlds /\ Passes(w, a)
  BY <1>0, ControllerPasses, ControllerKeeps DEF Keeps
<1> HIDE DEF a
<1>3. Idles(a)
  BY <1>2, IdlesPasses
<1>4. f \in Worlds /\ Steady(f)
  BY <1>3, FlushSteady
<1> HIDE DEF f
<1>5. Steady(b)
  BY <1>4, ControllerPasses, PassesSteady
<1>6. ASSUME first # 0 PROVE Steady(c)
  <2>1. a.session.entries = w.session.entries /\ a.session.compactions = {}
    BY <1>2, <1>3 DEF Passes, Talk, Idles, Waiting
  <2>2. k \in Started /\ k.runner = Events /\ k.first = first
    BY <1>6 DEF Started
  <2> HIDE DEF k
  <2>3. /\ c \in Worlds /\ c.agent = a.agent /\ c.ui = a.ui /\ c.session.compactions = {k}
        /\ c.session.entries = w.session.entries /\ c.session.events = a.session.events
        /\ c.session.calls = a.session.calls /\ c.session.pendingBash = a.session.pendingBash
        /\ c.session.backoff = a.session.backoff /\ c.session.timers = a.session.timers
        /\ c.session.manual = a.session.manual /\ c.session.cut = a.session.cut
        /\ c.session.tree = a.session.tree /\ c.session.connected = a.session.connected
    BY <1>2, <2>1, <2>2 DEF Worlds, Sessions
  <2> HIDE DEF c
  <2>4. Asks(c) = {}
    BY <1>3, <2>3 DEF Asks, Idles
  <2>5. /\ c.session.backoff = "none" /\ c.session.manual = "none" /\ c.session.tree # "summary"
        /\ c.session.connected /\ c.session.timers = 0
    BY <1>3, <2>3 DEF Idles, Waiting
  <2>6. OneWait(c) /\ Asked(c)
    BY <2>2, <2>3, <2>5 DEF OneWait, Asked
  <2>7. Cutting(c)
    BY <1>6, <2>2, <2>3, <2>5 DEF Cutting
  <2>8. Path(c) /\ Heard(c) /\ Queues(c)
    BY <1>3, <2>1, <2>3 DEF Idles, Still, Followed, Path, Heard, Queues
  <2>9. Still(c)
    BY <1>3, <2>3, <2>4, <2>7, <2>8 DEF Idles, Still, Followed
  <2> QED
    BY <2>4, <2>5, <2>6, <2>9, StillWaits
<1> HIDE DEF v, b, c
<1>7. Steady(v)
  BY <1>1, <1>5, <1>6
<1> QED
  BY <1>7 DEF v

LEMMA RecoveredIdles ==
  ASSUME NEW w, Idles(w)
  PROVE  Idles(Recovered(w)) /\ Recovered(w).session.entries = w.session.entries
<1> DEFINE ms == TrimAnswer(w.agent.messages)
           u == [w EXCEPT !.agent.messages = ms]
           v == [u EXCEPT !.session.overflowRecoveryAttempted = TRUE]
<1>0. w \in Worlds /\ Still(w) /\ Asks(w) = {}
  BY DEF Idles
<1>1. ms \in Seq(Known) /\ ResultFollowsCall(ms)
  BY <1>0, TrimResults DEF Worlds, Agents, Still, Followed, Path
<1>2. Recovered(w) = [w EXCEPT !.session.overflowRecoveryAttempted = TRUE, !.agent.messages = ms]
  BY DEF Recovered
<1> HIDE DEF ms
<1>3. Recovered(w) = v
  BY <1>0, <1>2 DEF Worlds
<1>4. u \in Worlds /\ Still(u) /\ Waits(u) = Waits(w) /\ Asks(u) = {}
  BY <1>0, <1>1, MessagesStill
<1>5. u.session.entries = w.session.entries
  BY <1>0 DEF Worlds
<1> HIDE DEF u
<1>6. Idles(u)
  BY <1>4, StillIdles
<1>7. /\ v \in Worlds /\ v.agent = u.agent /\ v.ui = u.ui /\ Scene(v) = Scene(u) /\ Talk(v) = Talk(u)
      /\ v.session.calls = u.session.calls /\ v.session.pendingBash = u.session.pendingBash
      /\ v.session.entries = u.session.entries
  BY <1>4 DEF Worlds, Sessions, Scene, Talk
<1> HIDE DEF v
<1>8. Passes(u, v)
  BY <1>7 DEF Passes, Asks, Queues
<1>9. Idles(v)
  BY <1>6, <1>7, <1>8, IdlesPasses
<1> QED
  BY <1>3, <1>5, <1>7, <1>9

LEMMA CheckSteady ==
  ASSUME Undisturbed, NEW w, Idles(w), NEW stop, NEW check \in Checkings,
         check.first \in Cut(w.session.entries), NEW later
  PROVE  Steady(checkCompaction(w, stop, Events, check, later))
<1> DEFINE v == checkCompaction(w, stop, Events, check, later)
           f == flushCompactionQueue(w, FALSE, later)
           r == Recovered(w)
<1>1. v \in {w, f, CompactsNow(r, "overflow", check.first, later),
             CompactsNow(w, "threshold", check.first, later)}
  BY DEF checkCompaction, CheckHearing, Recovered, CompactsNow
<1>2. check.first \in Nat
  BY DEF Checkings
<1>3. check.first # 0 => CutAt(w.session.entries, check.first)
  BY CutIsAt DEF Idles, Worlds, Sessions, Still, Followed, Path
<1>4. Idles(r) /\ r.session.entries = w.session.entries
  BY RecoveredIdles
<1> HIDE DEF v, r
<1>5. Steady(CompactsNow(r, "overflow", check.first, later))
  BY <1>2, <1>3, <1>4, CompactingSteady
<1>6. Steady(CompactsNow(w, "threshold", check.first, later))
  BY <1>2, <1>3, CompactingSteady
<1>7. Steady(f)
  BY FlushSteady
<1> HIDE DEF f
<1>8. Steady(v)
  BY <1>1, <1>5, <1>6, <1>7, IdlesSteady
<1> QED
  BY <1>8 DEF v

LEMMA EventCheckCuts ==
  ASSUME Orderly(World), NEW check \in EventChecks
  PROVE  check \in Checkings /\ check.first \in Cut(World.session.entries)
<1>1. check \in Checkings
  BY ChecksTyped
<1>2. check.first \in Cut(World.session.entries)
  BY WorldFields DEF EventChecks
<1> QED
  BY <1>1, <1>2

LEMMA ResolvedCheckSteady ==
  ASSUME Undisturbed, NEW w, Idles(w), NEW stop, NEW check \in Checkings,
         check.first \in Cut(w.session.entries), NEW later
  PROVE  Steady(checkCompaction(resolveRetry(w), stop, Events, check, later))
<1> DEFINE v == resolveRetry(w)
<1>1. v \in Worlds /\ Passes(w, v)
  BY ResolvePasses, ResolveKeeps DEF Idles, Keeps
<1>2. Idles(v)
  BY <1>1, IdlesPasses
<1>3. v.session.entries = w.session.entries
  BY <1>1 DEF Passes, Talk
<1> HIDE DEF v
<1>4. Steady(checkCompaction(v, stop, Events, check, later))
  BY <1>2, <1>3, CheckSteady
<1> QED
  BY <1>4 DEF v

\* The world behind the last event of a run.
LEMMA HeardOut ==
  ASSUME Orderly(World), Steady(World), session.events # <<>>, Head(session.events) = AgentEnd,
         NEW w \in Worlds, w.agent = agent, w.ui = ui, w.session.events = Tail(session.events),
         Around(w) = Around(World), w.session.calls = session.calls
  PROVE  Idles(w)
<1>0. session.events \in Seq(Known)
  BY WorldFields DEF Orderly, Worlds, Sessions
<1>1. Len(session.events) \in Nat \ {0} /\ session.events[1] = AgentEnd
      /\ Tail(session.events) \in Seq(Known) /\ Len(Tail(session.events)) = Len(session.events) - 1
  <2>1. Len(session.events) \in Nat \ {0}
    BY <1>0, LenProperties, EmptySeq
  <2> QED
    BY <1>0, <2>1, HeadTailProperties
<1>2. 1 = Len(session.events) /\ agent.run = "idle" /\ session.timers = 0
  <2>1. 1 \in 1..Len(session.events) /\ session.events[1].role = "agent_end"
    BY <1>1, AgentEndIs
  <2> QED
    BY <2>1, WorldFields DEF Steady, Turns, OnePrompt
<1>3. w.session.events = <<>> /\ Len(w.session.events) = 0
  <2> DEFINE rest == Tail(session.events)
  <2>1. rest \in Seq(Known) /\ Len(rest) = 0
    BY <1>1, <1>2
  <2> HIDE DEF rest
  <2>2. rest = <<>>
    BY <2>1, EmptySeq
  <2> QED
    BY <2>1, <2>2 DEF rest
<1>4. ~Waiting(World) /\ Asks(World) = {} /\ OneWait(World)
  <2>1. Going(World)
    BY WorldFields DEF Going
  <2> QED
    BY <2>1, WorldFields DEF Steady, Turns, OnePrompt
<1>5. AroundIs(World, w)
  BY AroundFields
<1>6. Asks(w) = {}
  BY <1>4, WorldFields DEF Asks
<1>7. ~Waiting(w) /\ w.session.connected /\ w.session.timers = 0
  BY <1>2, <1>4, <1>5, WorldFields DEF AroundIs, Waiting, OneWait
<1>8. Path(w) /\ Queues(w) /\ Cutting(w)
  BY <1>5, WorldFields DEF Steady, Followed, AroundIs, Path, Queues, Cutting
<1>9. Heard(w)
  <2>0. w.agent.run = "idle"
    BY <1>2
  <2>1. \A i \in 1..Len(w.session.events) : FALSE
    <3>1. \A i \in 1..0 : FALSE
      OBVIOUS
    <3> QED
      BY <1>3, <3>1
  <2> QED
    BY <2>0, <2>1 DEF Heard
<1> QED
  BY <1>2, <1>3, <1>6, <1>7, <1>8, <1>9 DEF Idles, Still, Followed

LEMMA HandleAgentEndSteady ==
  ASSUME Undisturbed, Orderly(World), Steady(World), HandleAgentEnd
  PROVE  Steady(World')
<1> DEFINE last == session.lastAssistant
           w == [World EXCEPT !.session.events = Tail(@), !.session.lastAssistant = "none"]
           over == [w EXCEPT !.session.retryAttempt = 0]
           u == IF last = "error" THEN over ELSE w
           paused == handleRetryableError(w)
<1>0. World \in Worlds
  BY DEF Orderly
<1>1. PICK check \in EventChecks, later \in Checks :
        \/ Becomes(w)
        \/ MayRetry(World) /\ Becomes(paused)
        \/ Becomes(checkCompaction(resolveRetry(u), last, Events, check, later))
  BY DEF HandleAgentEnd
<1>2. session.events # <<>> /\ Head(session.events) = AgentEnd
  BY DEF HandleAgentEnd
<1>3. check \in Checkings /\ check.first \in Cut(World.session.entries)
  BY EventCheckCuts
<1>4. session \in Sessions
  BY <1>0 DEF World, Worlds
<1>5. /\ w \in Worlds /\ w.agent = agent /\ w.ui = ui /\ Around(w) = Around(World)
      /\ w.session.events = Tail(session.events) /\ w.session.calls = session.calls
  <2> DEFINE ts == Tail(session.events)
             s == [session EXCEPT !.events = ts, !.lastAssistant = "none"]
  <2>1. ts \in Seq(Known)
    BY <1>2, <1>4, HeadTailProperties DEF Sessions
  <2>2. w = [World EXCEPT !.session = s]
    BY <1>4 DEF World, Sessions
  <2> HIDE DEF ts, w
  <2>3. w.agent = agent /\ w.ui = ui /\ w.session = s
    BY <1>0, <2>2, WorldFields DEF Worlds
  <2>4. s \in Sessions /\ s.events = ts /\ s.calls = session.calls
    BY <1>4, <2>1 DEF Sessions
  <2>5. w \in Worlds
    BY <1>0, <2>2, <2>4 DEF Worlds
  <2>6. Around(w) = Around(World)
    BY <1>4, <2>3, WorldFields DEF Around, Sessions
  <2> QED
    BY <2>3, <2>4, <2>5, <2>6 DEF ts
<1> HIDE DEF w
<1>6. Idles(w) /\ w.session.entries = World.session.entries
  <2>1. Idles(w)
    BY <1>2, <1>5, HeardOut
  <2>2. AroundIs(World, w)
    BY <1>5, AroundFields
  <2> QED
    BY <2>1, <2>2 DEF AroundIs
<1>7. ASSUME Becomes(w) PROVE Steady(World')
  BY <1>6, <1>7, IdlesSteady, ReachesSteady
<1>8. ASSUME Becomes(paused) PROVE Steady(World')
  <2> DEFINE ms == TrimAnswer(w.agent.messages)
             m == [w EXCEPT !.agent.messages = ms]
             p == [m EXCEPT !.session.retryAttempt = @ + 1, !.session.retryPromise = TRUE,
                            !.session.backoff = "sleeping"]
  <2>1. ms \in Seq(Known) /\ ResultFollowsCall(ms)
    BY <1>6, TrimResults DEF Idles, Worlds, Agents, Still, Followed, Path
  <2>2. paused = [w EXCEPT !.session.retryAttempt = @ + 1, !.session.retryPromise = TRUE,
                           !.agent.messages = ms, !.session.backoff = "sleeping"]
    BY DEF handleRetryableError
  <2> HIDE DEF ms, paused
  <2>3. paused = p
    BY <1>5, <2>2 DEF Worlds
  <2>4. m \in Worlds /\ Still(m) /\ Waits(m) = Waits(w) /\ Asks(m) = {}
    BY <1>6, <2>1, MessagesStill DEF Idles
  <2> HIDE DEF m
  <2>5. Idles(m)
    BY <1>6, <2>4, StillIdles
  <2>6. /\ p.agent = m.agent /\ p.ui = m.ui /\ p.session.calls = m.session.calls
        /\ p.session.backoff = "sleeping" /\ p.session.timers = m.session.timers
        /\ p.session.compactions = m.session.compactions /\ p.session.manual = m.session.manual
        /\ p.session.cut = m.session.cut /\ p.session.tree = m.session.tree
        /\ p.session.connected = m.session.connected
        /\ p.session.entries = m.session.entries /\ p.session.events = m.session.events
        /\ p.session.pendingBash = m.session.pendingBash
    BY <2>4 DEF Worlds, Sessions
  <2> HIDE DEF p
  <2>7. Asks(p) = {} /\ p.session.timers = 0
    BY <2>5, <2>6 DEF Asks, Idles
  <2>8. OneWait(p) /\ Asked(p)
    BY <2>5, <2>6 DEF Idles, Waiting, OneWait, Asked
  <2>9. Still(p)
    BY <2>5, <2>6, <2>7 DEF Idles, Still, Followed, Path, Heard, Cutting, Queues
  <2>10. Steady(p)
    BY <2>7, <2>8, <2>9, StillWaits
  <2> QED
    BY <1>8, <2>3, <2>10, ReachesSteady
<1>9. ASSUME Becomes(checkCompaction(resolveRetry(u), last, Events, check, later))
      PROVE  Steady(World')
  <2>1. /\ over \in Worlds /\ over.agent = w.agent /\ over.ui = w.ui
        /\ Scene(over) = Scene(w) /\ Talk(over) = Talk(w)
        /\ over.session.calls = w.session.calls /\ over.session.pendingBash = w.session.pendingBash
        /\ over.session.entries = w.session.entries
    <3>1. 0 \in 0..MaxRetries
      BY Numbers
    <3> QED
      BY <1>5, <3>1 DEF Worlds, Sessions, Scene, Talk
  <2> HIDE DEF over
  <2>2. Passes(w, over)
    BY <2>1 DEF Passes, Asks, Queues
  <2>3. Idles(over)
    BY <1>6, <2>1, <2>2, IdlesPasses
  <2>4. Idles(u) /\ u.session.entries = World.session.entries
    BY <1>6, <2>1, <2>3
  <2> HIDE DEF u
  <2>5. Steady(checkCompaction(resolveRetry(u), last, Events, check, later))
    BY <1>3, <2>4, ResolvedCheckSteady
  <2> QED
    BY <1>9, <2>5, ReachesSteady
<1> QED
  BY <1>1, <1>7, <1>8, <1>9

\* An idle agent whose pause is over.
LEMMA PauseOver ==
  ASSUME Orderly(World), Steady(World), World.session.backoff # "none",
         NEW w \in Worlds, w.agent = World.agent, w.ui = World.ui,
         w.session.backoff = "none", w.session.timers = World.session.timers,
         w.session.compactions = World.session.compactions, w.session.manual = World.session.manual,
         w.session.cut = World.session.cut, w.session.tree = World.session.tree,
         w.session.connected = World.session.connected,
         w.session.entries = World.session.entries, w.session.events = World.session.events,
         w.session.calls = World.session.calls, w.session.pendingBash = World.session.pendingBash
  PROVE  Idles(w)
<1>1. ~Going(World) /\ OneWait(World)
  BY DEF Steady, Turns, Waiting
<1>2. /\ w.agent.run = "idle" /\ w.session.events = <<>> /\ Asks(w) = {} /\ w.session.timers = 0
  BY <1>1 DEF Going, Asks
<1>3. ~Waiting(w) /\ w.session.connected
  BY <1>1 DEF OneWait, Waiting
<1>4. Followed(w)
  BY DEF Steady, Followed, Path, Heard, Cutting, Queues
<1> QED
  BY <1>2, <1>3, <1>4 DEF Idles, Still

LEMMA ContinueLaterStill ==
  ASSUME NEW w \in Worlds, Still(w)
  PROVE  LET v == ContinueLater(w) IN
         /\ v \in Worlds /\ Still(v) /\ Asks(v) = Asks(w)
         /\ v.session.backoff = w.session.backoff /\ v.session.compactions = w.session.compactions
         /\ v.session.manual = w.session.manual /\ v.session.tree = w.session.tree
         /\ v.session.connected = w.session.connected
<1> DEFINE v == ContinueLater(w)
<1>0. w.session.timers + 1 \in Nat
  BY DEF Worlds, Sessions
<1>1. /\ v \in Worlds /\ v.agent = w.agent /\ v.ui = w.ui /\ v.session.calls = w.session.calls
      /\ v.session.backoff = w.session.backoff /\ v.session.compactions = w.session.compactions
      /\ v.session.manual = w.session.manual /\ v.session.cut = w.session.cut
      /\ v.session.tree = w.session.tree /\ v.session.connected = w.session.connected
      /\ v.session.entries = w.session.entries /\ v.session.events = w.session.events
      /\ v.session.pendingBash = w.session.pendingBash
  <2> DEFINE n == w.session.timers + 1
  <2>1. v = [w EXCEPT !.session.timers = n] /\ n \in Nat
    BY <1>0 DEF ContinueLater
  <2> HIDE DEF n, v
  <2> QED
    BY <2>1 DEF Worlds, Sessions
<1> HIDE DEF v
<1>2. Asks(v) = Asks(w)
  BY <1>1 DEF Asks
<1>3. Still(v)
  BY <1>1, <1>2 DEF Still, Followed, Path, Heard, Cutting, Queues
<1> QED
  BY <1>1, <1>2, <1>3 DEF v

LEMMA BackoffElapsesSteady ==
  ASSUME Undisturbed, Orderly(World), Steady(World), BackoffElapses
  PROVE  Steady(World')
<1> DEFINE w == [World EXCEPT !.session.backoff = "none"]
           v == ContinueLater(w)
<1>0. World \in Worlds
  BY DEF Orderly
<1>1. World.session.backoff # "none" /\ Becomes(v)
  BY WorldFields DEF BackoffElapses
<1>2. /\ w \in Worlds /\ w.agent = World.agent /\ w.ui = World.ui
      /\ w.session.backoff = "none" /\ w.session.timers = World.session.timers
      /\ w.session.compactions = World.session.compactions /\ w.session.manual = World.session.manual
      /\ w.session.cut = World.session.cut /\ w.session.tree = World.session.tree
      /\ w.session.connected = World.session.connected
      /\ w.session.entries = World.session.entries /\ w.session.events = World.session.events
      /\ w.session.calls = World.session.calls /\ w.session.pendingBash = World.session.pendingBash
  BY <1>0 DEF Worlds, Sessions
<1> HIDE DEF w
<1>3. Idles(w)
  BY <1>1, <1>2, PauseOver
<1>4. /\ Still(v) /\ v.session.backoff = w.session.backoff
      /\ v.session.compactions = w.session.compactions /\ v.session.manual = w.session.manual
      /\ v.session.tree = w.session.tree /\ v.session.connected = w.session.connected
  BY <1>3, ContinueLaterStill DEF Idles
<1> HIDE DEF v
<1>5. ~Waiting(v) /\ v.session.connected
  BY <1>3, <1>4 DEF Idles, Waiting
<1>6. Steady(v)
  BY <1>4, <1>5, StillGoes
<1> QED
  BY <1>1, <1>6, ReachesSteady

LEMMA BackoffAbortedSteady ==
  ASSUME Undisturbed, Orderly(World), Steady(World), BackoffAborted
  PROVE  Steady(World')
<1> DEFINE w == [World EXCEPT !.session.backoff = "none", !.session.retryAttempt = 0]
<1>0. World \in Worlds
  BY DEF Orderly
<1>1. PICK check \in EventChecks, later \in Checks :
        Becomes(checkCompaction(resolveRetry(w), "error", Events, check, later))
  BY DEF BackoffAborted
<1>2. World.session.backoff # "none"
  BY WorldFields DEF BackoffAborted
<1>3. check \in Checkings /\ check.first \in Cut(World.session.entries)
  BY EventCheckCuts
<1>4. /\ w \in Worlds /\ w.agent = World.agent /\ w.ui = World.ui
      /\ w.session.backoff = "none" /\ w.session.timers = World.session.timers
      /\ w.session.compactions = World.session.compactions /\ w.session.manual = World.session.manual
      /\ w.session.cut = World.session.cut /\ w.session.tree = World.session.tree
      /\ w.session.connected = World.session.connected
      /\ w.session.entries = World.session.entries /\ w.session.events = World.session.events
      /\ w.session.calls = World.session.calls /\ w.session.pendingBash = World.session.pendingBash
  <2>1. 0 \in 0..MaxRetries
    BY Numbers
  <2> QED
    BY <1>0, <2>1 DEF Worlds, Sessions
<1> HIDE DEF w
<1>5. Idles(w)
  BY <1>2, <1>4, PauseOver
<1>6. Steady(checkCompaction(resolveRetry(w), "error", Events, check, later))
  BY <1>3, <1>4, <1>5, ResolvedCheckSteady
<1> QED
  BY <1>1, <1>6, ReachesSteady

-----------------------------------------------------------------------------
(* The ends of compactions.                                                 *)

\* A session that waits is idle, and has been heard.
LEMMA WaitingStill ==
  ASSUME NEW w, Steady(w), Waiting(w)
  PROVE  /\ Still(w) /\ Asks(w) = {} /\ w.session.timers = 0 /\ OneWait(w)
         /\ w.agent.run = "idle" /\ w.session.events = <<>>
<1>1. ~Going(w) /\ OneWait(w)
  BY DEF Steady, Turns
<1>2. w.agent.run = "idle" /\ w.session.events = <<>> /\ Asks(w) = {} /\ w.session.timers = 0
  BY <1>1 DEF Going
<1> QED
  BY <1>1, <1>2, SteadyStill

CompactsStill(w, c) ==
  /\ w \in Worlds /\ Still(w) /\ w.session.compactions = {c} /\ c.runner = Events
  /\ w.session.backoff = "none" /\ w.session.manual = "none" /\ w.session.tree # "summary"
  /\ w.session.connected

LEMMA CompactsOn ==
  ASSUME NEW w, NEW c, CompactsStill(w, c), NEW v \in Worlds, Still(v),
         \/ Waits(v) = Waits(w)
         \/ /\ v.session.backoff = w.session.backoff /\ v.session.compactions = w.session.compactions
            /\ v.session.manual = w.session.manual /\ v.session.tree = w.session.tree
            /\ v.session.connected = w.session.connected
  PROVE  CompactsStill(v, c)
<1>1. /\ v.session.backoff = w.session.backoff /\ v.session.compactions = w.session.compactions
      /\ v.session.manual = w.session.manual /\ v.session.tree = w.session.tree
      /\ v.session.connected = w.session.connected
  BY WaitsFields DEF WaitsAre
<1> QED
  BY <1>1 DEF CompactsStill

LEMMA FinishedSteady ==
  ASSUME NEW w, NEW c, CompactsStill(w, c)
  PROVE  Steady(Finished(w, c))
<1> DEFINE v == [w EXCEPT !.session.compactions = @ \ {c}, !.session.controller = Nobody]
<1>1. Finished(w, c) = v
  BY DEF Finished, CompactsStill
<1>2. /\ v.agent = w.agent /\ v.ui = w.ui /\ v.session.calls = w.session.calls
      /\ v.session.backoff = w.session.backoff /\ v.session.compactions = {}
      /\ v.session.manual = w.session.manual /\ v.session.tree = w.session.tree
      /\ v.session.connected = w.session.connected
      /\ v.session.entries = w.session.entries /\ v.session.events = w.session.events
      /\ v.session.pendingBash = w.session.pendingBash
  BY DEF CompactsStill, Worlds, Sessions
<1> HIDE DEF v
<1>3. Asks(v) = Asks(w)
  BY <1>2 DEF Asks
<1>4. Cutting(v)
  BY <1>2 DEF CompactsStill, Cutting
<1>5. Path(v) /\ Heard(v) /\ Queues(v)
  BY <1>2 DEF CompactsStill, Still, Followed, Path, Heard, Queues
<1>6. Still(v)
  BY <1>2, <1>3, <1>4, <1>5 DEF CompactsStill, Still, Followed
<1>7. ~Waiting(v) /\ v.session.connected
  BY <1>2 DEF CompactsStill, Waiting
<1> QED
  BY <1>1, <1>6, <1>7, StillGoes

LEMMA CompactedStill ==
  ASSUME Undisturbed, NEW w, NEW c, CompactsStill(w, c), Asks(w) = {},
         CutAt(w.session.entries, c.first)
  PROVE  CompactsStill(Compacted(w, c), c)
<1> DEFINE entries == Append(w.session.entries, Compaction(c.first))
           saved == [w EXCEPT !.session.entries = entries, !.agent.messages = Context(entries)]
           willRetry == c.reason = "overflow"
           sent == flushCompactionQueue(saved, willRetry, NoCheck)
           ms == sent.agent.messages
           front == [sent EXCEPT !.agent.messages = Front(@)]
           v == Compacted(w, c)
<1>1. v = IF willRetry
          THEN ContinueLater(IF ms # <<>> /\ Failed(Last(ms)) THEN front ELSE sent)
          ELSE IF sent.agent.steering # <<>> \/ sent.agent.followUp # <<>>
          THEN ContinueLater(sent) ELSE sent
  BY DEF Compacted
<1>2. saved \in Worlds /\ Still(saved) /\ Waits(saved) = Waits(w) /\ Asks(saved) = {}
  <2>1. /\ entries \in Seq(Known) /\ ResultFollowsCall(entries) /\ KeptFromCut(entries)
        /\ \A n : CutAt(w.session.entries, n) => CutAt(entries, n)
    BY CompactedPath DEF CompactsStill, Worlds, Sessions, Still, Followed, Path
  <2> HIDE DEF entries
  <2> QED
    BY <2>1, PathStill DEF CompactsStill
<1> HIDE DEF saved, willRetry
<1>3. CompactsStill(saved, c)
  BY <1>2, CompactsOn
<1>4. sent \in Worlds /\ Still(sent) /\ Waits(sent) = Waits(saved)
  BY <1>2, FlushStill
<1> HIDE DEF sent
<1>5. CompactsStill(sent, c)
  BY <1>3, <1>4, CompactsOn
<1>6. ASSUME ms # <<>> PROVE CompactsStill(front, c)
  <2> DEFINE x == Front(ms)
             y == [sent EXCEPT !.agent.messages = x]
  <2>1. x \in Seq(Known) /\ ResultFollowsCall(x)
    BY <1>4, <1>6, TrimResults DEF Worlds, Agents, Still, Followed, Path
  <2> HIDE DEF x
  <2>2. y \in Worlds /\ Still(y) /\ Waits(y) = Waits(sent)
    BY <1>4, <2>1, MessagesStill
  <2>3. front = y
    BY DEF x
  <2> HIDE DEF y, front
  <2> QED
    BY <1>5, <2>2, <2>3, CompactsOn
<1>7. ASSUME NEW u, CompactsStill(u, c) PROVE CompactsStill(ContinueLater(u), c)
  <2> DEFINE y == ContinueLater(u)
  <2>1. /\ y \in Worlds /\ Still(y)
        /\ y.session.backoff = u.session.backoff /\ y.session.compactions = u.session.compactions
        /\ y.session.manual = u.session.manual /\ y.session.tree = u.session.tree
        /\ y.session.connected = u.session.connected
    BY <1>7, ContinueLaterStill DEF CompactsStill
  <2> HIDE DEF y
  <2>2. CompactsStill(y, c)
    BY <1>7, <2>1, CompactsOn
  <2> QED
    BY <2>2 DEF y
<1> HIDE DEF front, v, ms
<1>8. CompactsStill(v, c)
  BY <1>1, <1>5, <1>6, <1>7
<1> QED
  BY <1>8 DEF v

LEMMA CompactionEndsSteady ==
  ASSUME Undisturbed, Orderly(World), Steady(World), NEW c \in session.compactions,
         CompactionSucceeds(c) \/ CompactionFails(c)
  PROVE  Steady(World')
<1>1. c \in World.session.compactions /\ Waiting(World)
  BY WorldFields DEF Waiting
<1>2. Still(World) /\ Asks(World) = {} /\ OneWait(World)
  BY <1>1, WaitingStill
<1>3. World.session.compactions = {c} /\ c.runner = Events
  <2>1. \A d \in World.session.compactions : d.runner = Events
    BY DEF Steady, Turns, Asked
  <2>2. \A d \in World.session.compactions : d = c
    BY <1>1, <2>1 DEF Orderly, RunnersWait, Running
  <2> QED
    BY <1>1, <2>1, <2>2
<1>4. CompactsStill(World, c)
  BY <1>2, <1>3 DEF CompactsStill, Orderly, OneWait
<1>5. CutAt(World.session.entries, c.first)
  BY <1>1 DEF Steady, Followed, Cutting
<1>6. CASE CompactionSucceeds(c)
  <2>1. Becomes(Finished(Compacted(World, c), c))
    BY <1>6 DEF CompactionSucceeds
  <2>2. Steady(Finished(Compacted(World, c), c))
    BY <1>2, <1>4, <1>5, CompactedStill, FinishedSteady
  <2> QED
    BY <2>1, <2>2, ReachesSteady
<1>7. CASE CompactionFails(c)
  <2>1. PICK check \in Checks : Becomes(Finished(flushCompactionQueue(World, FALSE, check), c))
    BY <1>7 DEF CompactionFails
  <2> DEFINE v == flushCompactionQueue(World, FALSE, check)
  <2>2. v \in Worlds /\ Still(v) /\ Waits(v) = Waits(World)
    BY <1>2, FlushStill DEF Orderly
  <2> HIDE DEF v
  <2>3. CompactsStill(v, c)
    BY <1>4, <2>2, CompactsOn
  <2>4. Steady(Finished(v, c))
    BY <2>3, FinishedSteady
  <2> QED
    BY <2>1, <2>4, ReachesSteady DEF v
<1> QED
  BY <1>6, <1>7

-----------------------------------------------------------------------------
(* The ends of manual compactions.                                          *)

ManualStill(w) ==
  /\ w \in Worlds /\ Still(w) /\ Asks(w) = {}
  /\ w.session.backoff = "none" /\ w.session.compactions = {} /\ w.session.tree # "summary"

LEMMA ManualNow ==
  ASSUME Orderly(World), Steady(World), session.manual # "none"
  PROVE  ManualStill(World) /\ World.session.timers = 0
<1>1. Waiting(World)
  BY WorldFields DEF Waiting
<1>2. Still(World) /\ Asks(World) = {} /\ OneWait(World) /\ World.session.timers = 0
  BY <1>1, WaitingStill
<1>3. World.session.backoff = "none" /\ World.session.compactions = {} /\ World.session.tree # "summary"
  BY <1>2, WorldFields DEF OneWait
<1> QED
  BY <1>2, <1>3 DEF ManualStill, Orderly

LEMMA ManualEndsSteady ==
  ASSUME Undisturbed, NEW w, ManualStill(w), NEW check
  PROVE  Steady(ManualEnds(w, check))
<1> DEFINE u == flushCompactionQueue(w, FALSE, check)
           v == [u EXCEPT !.session.manual = "none", !.session.cut = 0, !.session.connected = TRUE]
<1>1. u \in Worlds /\ Still(u) /\ Waits(u) = Waits(w)
  BY FlushStill DEF ManualStill
<1>2. ManualEnds(w, check) = v
  BY DEF ManualEnds
<1> HIDE DEF u
<1>3. WaitsAre(w, u)
  BY <1>1, WaitsFields
<1>4. /\ v.agent = u.agent /\ v.ui = u.ui /\ v.session.calls = u.session.calls
      /\ v.session.backoff = u.session.backoff /\ v.session.compactions = u.session.compactions
      /\ v.session.manual = "none" /\ v.session.tree = u.session.tree /\ v.session.connected
      /\ v.session.entries = u.session.entries /\ v.session.events = u.session.events
      /\ v.session.pendingBash = u.session.pendingBash
  BY <1>1 DEF Worlds, Sessions
<1> HIDE DEF v
<1>5. Asks(v) = Asks(u)
  BY <1>4 DEF Asks
<1>6. v.session.compactions = {}
  BY <1>3, <1>4 DEF WaitsAre, ManualStill
<1>7. Followed(v)
  BY <1>1, <1>4, <1>6 DEF Still, Followed, Path, Heard, Cutting, Queues
<1>8. Still(v)
  BY <1>1, <1>4, <1>5, <1>7 DEF Still
<1>9. ~Waiting(v) /\ v.session.connected
  BY <1>3, <1>4, <1>6 DEF WaitsAre, ManualStill, Waiting
<1> QED
  BY <1>2, <1>8, <1>9, StillGoes

LEMMA CompactPreparesSteady ==
  ASSUME Undisturbed, Orderly(World), Steady(World), CompactPrepares
  PROVE  Steady(World')
<1> DEFINE v(first) == [World EXCEPT !.session.manual = "summary", !.session.cut = first]
<1>0. World \in Worlds /\ session.manual = "waiting"
  BY DEF Orderly, CompactPrepares
<1>1. PICK first \in Cut(session.entries), check \in Checks :
        Becomes(IF first = 0 THEN ManualEnds(World, check) ELSE v(first))
  BY DEF CompactPrepares
<1>2. ManualStill(World) /\ World.session.timers = 0
  BY <1>0, ManualNow
<1>3. CASE first = 0
  BY <1>1, <1>2, <1>3, ManualEndsSteady, ReachesSteady
<1>4. CASE first # 0
  <2>1. CutAt(World.session.entries, first)
    <3>1. /\ World.session.entries \in Seq(Known) /\ KeptFromCut(World.session.entries)
          /\ first \in Cut(World.session.entries)
      BY <1>0, WorldFields DEF Worlds, Sessions, Steady, Followed, Path
    <3> QED
      BY <1>4, <3>1, CutIsAt
  <2> DEFINE u == v(first)
  <2>2. /\ u.agent = World.agent /\ u.ui = World.ui /\ u.session.calls = World.session.calls
        /\ u.session.backoff = World.session.backoff
        /\ u.session.compactions = World.session.compactions
        /\ u.session.manual = "summary" /\ u.session.cut = first
        /\ u.session.tree = World.session.tree /\ u.session.connected = World.session.connected
        /\ u.session.timers = World.session.timers
        /\ u.session.entries = World.session.entries /\ u.session.events = World.session.events
        /\ u.session.pendingBash = World.session.pendingBash
    BY <1>0 DEF Worlds, Sessions
  <2>3. Becomes(u)
    BY <1>1, <1>4
  <2> HIDE DEF v, u
  <2>4. Asks(u) = {}
    BY <1>2, <2>2 DEF ManualStill, Asks
  <2>5. Followed(u)
    BY <2>1, <2>2 DEF Steady, Followed, Path, Heard, Cutting, Queues
  <2>6. Still(u)
    BY <1>2, <2>2, <2>4, <2>5 DEF ManualStill, Still
  <2>7. World.session.manual # "none"
    BY <1>0, WorldFields
  <2>8. OneWait(u) /\ Asked(u)
    BY <1>2, <2>2, <2>7 DEF ManualStill, Steady, Turns, OneWait, Asked
  <2>9. Steady(u)
    BY <1>2, <2>2, <2>4, <2>6, <2>8, StillWaits
  <2> QED
    BY <2>3, <2>9, ReachesSteady
<1> QED
  BY <1>3, <1>4

LEMMA CompactEndsSteady ==
  ASSUME Undisturbed, Orderly(World), Steady(World), CompactSucceeds \/ CompactFails
  PROVE  Steady(World')
<1>1. session.manual # "none"
  BY DEF CompactSucceeds, CompactFails
<1>2. ManualStill(World)
  BY <1>1, ManualNow
<1>3. CASE CompactSucceeds
  <2> DEFINE entries == Append(World.session.entries, Compaction(World.session.cut))
             v == [World EXCEPT !.session.entries = entries, !.agent.messages = Context(entries)]
  <2>1. session.manual = "summary" /\ Becomes(ManualEnds(v, NoCheck))
    BY <1>3, WorldFields DEF CompactSucceeds
  <2>2. CutAt(World.session.entries, World.session.cut)
    BY <2>1, WorldFields DEF Steady, Followed, Cutting
  <2>3. /\ entries \in Seq(Known) /\ ResultFollowsCall(entries) /\ KeptFromCut(entries)
        /\ \A n : CutAt(World.session.entries, n) => CutAt(entries, n)
    BY <1>2, <2>2, CompactedPath DEF ManualStill, Worlds, Sessions, Still, Followed, Path
  <2> HIDE DEF entries
  <2>4. v \in Worlds /\ Still(v) /\ Waits(v) = Waits(World) /\ Asks(v) = {}
    BY <1>2, <2>3, PathStill DEF ManualStill
  <2> HIDE DEF v
  <2>5. WaitsAre(World, v)
    BY <2>4, WaitsFields
  <2>6. ManualStill(v)
    BY <1>2, <2>4, <2>5 DEF ManualStill, WaitsAre
  <2> QED
    BY <2>1, <2>6, ManualEndsSteady, ReachesSteady
<1>4. CASE CompactFails
  <2>1. PICK check \in Checks : Becomes(ManualEnds(World, check))
    BY <1>4 DEF CompactFails
  <2> QED
    BY <1>2, <2>1, ManualEndsSteady, ReachesSteady
<1> QED
  BY <1>3, <1>4

-----------------------------------------------------------------------------
(* Aborts.                                                                  *)

LEMMA AbortedPasses ==
  ASSUME NEW w \in Worlds, NEW b
  PROVE  Passes(w, [w EXCEPT !.agent.aborted = b])
<1> DEFINE v == [w EXCEPT !.agent.aborted = b]
<1>1. /\ v.session = w.session /\ v.ui = w.ui /\ v.agent.run = w.agent.run
      /\ v.agent.messages = w.agent.messages
      /\ v.agent.steering = w.agent.steering /\ v.agent.followUp = w.agent.followUp
  BY DEF Worlds, Agents
<1> HIDE DEF v
<1>2. Passes(w, v)
  BY <1>1 DEF Passes, Scene, Talk, Asks, Queues
<1> QED
  BY <1>2 DEF v

\* A pause that is aborted is one until the code behind it has run.
LEMMA AbortRetrySteady ==
  ASSUME NEW w \in Worlds, Steady(w)
  PROVE  Steady(abortRetry(w))
<1> DEFINE b == IF w.session.backoff = "sleeping" THEN "aborted" ELSE w.session.backoff
           v == [w EXCEPT !.session.backoff = b]
<1>1. abortRetry(w) = resolveRetry(v)
  BY DEF abortRetry
<1>2. b \in {"none", "sleeping", "aborted"} /\ (b = "none" <=> w.session.backoff = "none")
  BY DEF Worlds, Sessions
<1> HIDE DEF b
<1>3. /\ v \in Worlds /\ v.agent = w.agent /\ v.ui = w.ui /\ v.session.calls = w.session.calls
      /\ v.session.backoff = b /\ v.session.compactions = w.session.compactions
      /\ v.session.manual = w.session.manual /\ v.session.cut = w.session.cut
      /\ v.session.tree = w.session.tree /\ v.session.connected = w.session.connected
      /\ v.session.timers = w.session.timers
      /\ v.session.entries = w.session.entries /\ v.session.events = w.session.events
      /\ v.session.pendingBash = w.session.pendingBash
  BY <1>2 DEF Worlds, Sessions
<1> HIDE DEF v
<1>4. Asks(v) = Asks(w)
  BY <1>3 DEF Asks
<1>5. Turns(v)
  BY <1>2, <1>3, <1>4 DEF Steady, Turns, Waiting, Going, OneWait, Asked, OnePrompt
<1>6. Followed(v)
  BY <1>3 DEF Steady, Followed, Path, Heard, Cutting, Queues
<1>7. Passes(v, resolveRetry(v))
  BY <1>3, ResolvePasses
<1> QED
  BY <1>1, <1>5, <1>6, <1>7, PassesSteady DEF Steady

LEMMA RestoredPasses ==
  ASSUME NEW w \in Worlds
  PROVE  Passes(w, Restored(w))
<1> DEFINE u == clearQueue(w)
           v == Restored(w)
<1>1. Passes(w, u) /\ u \in Worlds
  BY ClearQueuePasses, ClearQueueKeeps DEF Keeps
<1>2. v.agent = u.agent /\ v.session = u.session /\ v.ui.acts = u.ui.acts
  <2> HIDE DEF u
  <2> QED BY <1>1 DEF Restored, Worlds, Uis, u
<1> HIDE DEF u, v
<1>3. Passes(u, v)
  BY <1>2, UiPasses
<1>4. Passes(w, v)
  BY <1>1, <1>3, PassesTransitive
<1> QED
  BY <1>4 DEF v

LEMMA AbortsSteady ==
  ASSUME Orderly(World), Steady(World), Dequeue \/ EscapeRun \/ EscapeRetry \/ Abort
  PROVE  Steady(World')
<1> DEFINE r == Restored(World)
           a == abortRetry(World)
           x == [r EXCEPT !.agent.aborted = TRUE]
           y == [a EXCEPT !.agent.aborted = agent.run # "idle"]
<1>0. World \in Worlds
  BY DEF Orderly
<1>1. Becomes(r) \/ Becomes(x) \/ Becomes(a) \/ Becomes(y)
  BY DEF Dequeue, EscapeRun, EscapeRetry, Abort
<1>2. r \in Worlds /\ Steady(r)
  <2>1. r \in Worlds
    BY RestoredOrders DEF Orderly
  <2> QED
    BY <1>0, <2>1, RestoredPasses, PassesSteady
<1>3. a \in Worlds /\ Steady(a)
  BY <1>0, AbortRetryKeeps, AbortRetrySteady DEF Keeps
<1> HIDE DEF r, a
<1>4. Steady(x) /\ Steady(y)
  BY <1>2, <1>3, AbortedPasses, PassesSteady
<1> QED
  BY <1>1, <1>2, <1>3, <1>4, ReachesSteady

LEMMA EscapeCompactionSteady ==
  ASSUME Orderly(World), Steady(World), EscapeCompaction
  PROVE  Steady(World')
<1> DEFINE stops(c) == IF c.runner = session.controller THEN [c EXCEPT !.aborted = TRUE] ELSE c
           cs == {stops(c) : c \in session.compactions}
           m == IF session.manual = "summary" THEN "aborted" ELSE session.manual
           s == [session EXCEPT !.compactions = cs, !.manual = m]
           v == [World EXCEPT !.session = s]
<1>0. World \in Worlds
  BY DEF Orderly
<1>1. session \in Sessions
  BY <1>0 DEF World, Worlds
<1>2. Becomes(v)
  <2>1. Becomes([World EXCEPT
       !.session.compactions =
         {IF c.runner = session.controller THEN [c EXCEPT !.aborted = TRUE] ELSE c : c \in @},
       !.session.manual = IF @ = "summary" THEN "aborted" ELSE @])
    BY DEF EscapeCompaction
  <2>2. [World EXCEPT
       !.session.compactions =
         {IF c.runner = session.controller THEN [c EXCEPT !.aborted = TRUE] ELSE c : c \in @},
       !.session.manual = IF @ = "summary" THEN "aborted" ELSE @] = v
    BY <1>1 DEF World, Sessions
  <2> QED
    BY <2>1, <2>2
<1>3. \A c \in session.compactions : stops(c).runner = c.runner /\ stops(c).first = c.first
  <2>1. \A c \in session.compactions : c \in Started
    BY <1>1 DEF Sessions
  <2> QED
    BY <2>1 DEF Started
<1>4. m # "summary" /\ (m = "none" <=> session.manual = "none")
  OBVIOUS
<1> HIDE DEF m, stops
<1>5. /\ cs = {} <=> session.compactions = {}
      /\ \A d \in cs : \E c \in session.compactions : d.runner = c.runner /\ d.first = c.first
  BY <1>3
<1> HIDE DEF cs
<1>6. /\ v.agent = World.agent /\ v.ui = World.ui /\ v.session.calls = World.session.calls
      /\ v.session.backoff = World.session.backoff /\ v.session.compactions = cs
      /\ v.session.manual = m /\ v.session.cut = World.session.cut
      /\ v.session.tree = World.session.tree /\ v.session.connected = World.session.connected
      /\ v.session.timers = World.session.timers
      /\ v.session.entries = World.session.entries /\ v.session.events = World.session.events
      /\ v.session.pendingBash = World.session.pendingBash
  BY <1>1, WorldFields DEF World, Sessions
<1> HIDE DEF v
<1>7. Asks(v) = Asks(World)
  BY <1>6 DEF Asks
<1>8. OneWait(v) /\ Asked(v) /\ (Waiting(v) <=> Waiting(World))
  <2>1. OneWait(World) /\ Asked(World)
    BY DEF Steady, Turns
  <2>2. OneWait(v) /\ (Waiting(v) <=> Waiting(World))
    BY <1>4, <1>5, <1>6, <2>1, WorldFields DEF OneWait, Waiting
  <2>3. \A c \in v.session.compactions : c.runner = Events
    BY <1>5, <1>6, <2>1, WorldFields DEF Asked
  <2> QED
    BY <1>4, <1>6, <2>1, <2>2, <2>3, WorldFields DEF Asked
<1>9. Turns(v)
  BY <1>6, <1>7, <1>8 DEF Steady, Turns, Going, OnePrompt
<1>10. Cutting(v)
  <2>1. \A c \in World.session.compactions : CutAt(World.session.entries, c.first)
    BY DEF Steady, Followed, Cutting
  <2> QED
    BY <1>4, <1>5, <1>6, <2>1, WorldFields DEF Cutting
<1>11. Path(v) /\ Heard(v) /\ Queues(v)
  BY <1>6 DEF Steady, Followed, Path, Heard, Queues
<1> QED
  BY <1>2, <1>9, <1>10, <1>11, ReachesSteady DEF Steady, Followed

-----------------------------------------------------------------------------
(* Manual compaction and navigation begin when nothing goes on.             *)

LEMMA RestIs ==
  ASSUME Undisturbed, Orderly(World), Steady(World), MayDisturb
  PROVE  Idles(World) /\ session.tree = "none"
<1>1. AtRest
  BY DEF MayDisturb, Undisturbed
<1>2. /\ agent.run = "idle" /\ session.events = <<>> /\ session.timers = 0
      /\ session.manual = "none" /\ session.tree = "none" /\ session.backoff = "none"
      /\ \A c \in session.compactions : c.runner # Events
      /\ \A t \in Text : session.calls[t] = "none"
  BY <1>1, WorldFields DEF AtRest, Blocked, Sleeping, Running, isCompacting
<1>3. session.compactions = {}
  BY <1>2, WorldFields DEF Steady, Turns, Asked
<1>4. Asks(World) = {}
  BY <1>2, WorldFields DEF Asks
<1>5. ~Waiting(World) /\ World.session.connected
  BY <1>2, <1>3, WorldFields DEF Steady, Turns, OneWait, Waiting
<1>6. Still(World)
  BY <1>2, WorldFields, SteadyStill
<1> QED
  BY <1>2, <1>4, <1>5, <1>6, WorldFields DEF Idles, Orderly

LEMMA CompactSteady ==
  ASSUME Undisturbed, Orderly(World), Steady(World), Compact
  PROVE  Steady(World')
<1> DEFINE a == abortRetry(World)
           x == [a EXCEPT !.session.connected = FALSE, !.session.manual = "waiting",
                          !.agent.aborted = agent.run # "idle"]
           v == Acted(x)
<1>0. World \in Worlds
  BY DEF Orderly
<1>1. "compact" \in Uses /\ MayDisturb /\ Becomes(v)
  BY DEF Compact, Acts
<1>2. Idles(World) /\ session.tree = "none"
  BY <1>1, RestIs
<1>3. a \in Worlds /\ Passes(World, a)
  <2>1. World.session.backoff = "none"
    BY <1>2 DEF Idles, Waiting
  <2>2. [World EXCEPT !.session.backoff = IF @ = "sleeping" THEN "aborted" ELSE @] = World
    BY <1>0, <2>1 DEF Worlds, Sessions
  <2>3. a = resolveRetry(World)
    BY <2>2 DEF abortRetry
  <2> QED
    BY <1>0, <2>3, ResolvePasses, ResolveKeeps DEF Keeps
<1> HIDE DEF a
<1>4. Idles(a) /\ a.session.tree # "summary"
  <2>1. Idles(a)
    BY <1>2, <1>3, IdlesPasses
  <2> QED
    BY <2>1 DEF Idles, Waiting
<1>5. /\ v.agent.run = a.agent.run /\ v.agent.messages = a.agent.messages
      /\ v.agent.steering = a.agent.steering /\ v.agent.followUp = a.agent.followUp
      /\ v.session.calls = a.session.calls
      /\ v.session.backoff = a.session.backoff /\ v.session.compactions = a.session.compactions
      /\ v.session.manual = "waiting" /\ v.session.cut = a.session.cut
      /\ v.session.tree = a.session.tree /\ v.session.connected = FALSE
      /\ v.session.timers = a.session.timers
      /\ v.session.entries = a.session.entries /\ v.session.events = a.session.events
      /\ v.session.pendingBash = a.session.pendingBash
      /\ v.ui.acts = a.ui.acts + 1 /\ a.ui.acts \in Nat
  BY <1>3 DEF Acted, Worlds, Agents, Sessions, Uis
<1> HIDE DEF v
<1>6. v.ui.acts >= 1
  BY <1>5
<1>7. Asks(v) = {}
  BY <1>4, <1>5 DEF Idles, Asks
<1>8. OneWait(v) /\ Asked(v) /\ v.session.timers = 0
  BY <1>1, <1>4, <1>5, <1>6 DEF Idles, Waiting, OneWait, Asked
<1>9. Still(v)
  BY <1>4, <1>5, <1>7 DEF Idles, Waiting, Still, Followed, Path, Heard, Cutting, Queues
<1>10. Steady(v)
  BY <1>7, <1>8, <1>9, StillWaits
<1> QED
  BY <1>1, <1>10, ReachesSteady

-----------------------------------------------------------------------------
(* Navigation.                                                              *)

LEMMA KeptPrefix ==
  ASSUME NEW s \in Seq(Known), NEW n \in 0..Len(s), KeptFromCut(s)
  PROVE  KeptFromCut(SubSeq(s, 1, n))
<1>1. Len(s) \in Nat
  BY LenProperties
<1>2. \A i \in 1..n : s[i] \in Known
  BY <1>1, ElementOfSeq
<1> DEFINE r == SubSeq(s, 1, n)
<1>3. Len(r) = n /\ \A i \in 1..n : r[i] = s[i]
  <2>1. 1 \in Int /\ n \in Int
    BY <1>1
  <2>2. /\ Len(SubSeq(s, 1, n)) = IF 1 <= n THEN n - 1 + 1 ELSE 0
        /\ \A i \in 1..(n - 1 + 1) : SubSeq(s, 1, n)[i] = s[1 + i - 1]
    BY <1>2, <2>1, SubSeqProperties
  <2> QED
    BY <1>1, <2>2
<1> HIDE DEF r
<1>4. SUFFICES ASSUME NEW i \in 1..n, r[i].role = "compaction"
               PROVE  r[i].id < i /\ CutAt(r, r[i].id)
  BY <1>3 DEF KeptFromCut, r
<1>5. PICK k : k = s[i].id
  OBVIOUS
<1>6. r[i] = s[i] /\ i \in 1..Len(s)
  BY <1>1, <1>3, <1>4
<1>7. k < i /\ k \in 1..Len(s) /\ s[k].role \notin {"toolResult", "compaction"}
  BY <1>4, <1>5, <1>6 DEF KeptFromCut, CutAt
<1>8. k \in 1..n
  BY <1>1, <1>4, <1>7
<1> QED
  BY <1>3, <1>5, <1>6, <1>7, <1>8 DEF CutAt

LEMMA PrefixPath ==
  ASSUME NEW s \in Seq(Known), NEW n \in Nat, n <= Len(s), ResultFollowsCall(s), KeptFromCut(s)
  PROVE  LET p == SubSeq(s, 1, n)
             q == Append(p, BranchSummary) IN
         /\ p \in Seq(Known) /\ ResultFollowsCall(p) /\ KeptFromCut(p)
         /\ q \in Seq(Known) /\ ResultFollowsCall(q) /\ KeptFromCut(q)
<1> DEFINE p == SubSeq(s, 1, n)
           m == BranchSummary
           q == Append(p, m)
<1>1. Len(s) \in Nat /\ n \in 0..Len(s)
  BY LenProperties
<1>2. p \in Seq(Known) /\ ResultFollowsCall(p) /\ KeptFromCut(p)
  BY <1>1, SubSeqTyped, SubSeqResults, KeptPrefix
<1>3. m \in Known /\ m.role = "branchSummary"
  BY OthersKnown DEF BranchSummary, Msg
<1> HIDE DEF p, m
<1>4. q \in Seq(Known) /\ ResultFollowsCall(q)
  BY <1>2, <1>3, AppendResults, AppendProperties
<1>5. KeptFromCut(q)
  <2>1. q = p \o <<m>> /\ <<m>> \in Seq(Known)
    BY <1>2, <1>3, AppendIsConcat
  <2>2. \A i \in 1..Len(<<m>>) : <<m>>[i].role # "compaction"
    BY <1>3
  <2> HIDE DEF q
  <2> QED
    BY <1>2, <2>1, <2>2, PathGrows
<1> QED
  BY <1>2, <1>4, <1>5 DEF p, m

\* A navigation is over, whether it moved or not.
Navigated(w) ==
  /\ w \in Worlds /\ Still(w)
  /\ w.session.backoff = "none" /\ w.session.compactions = {}
  /\ w.session.manual = "none" /\ w.session.connected

LEMMA NavigatedSteady ==
  ASSUME NEW w, Navigated(w), NEW v, v.agent = w.agent, v.ui = w.ui,
         v.session.backoff = w.session.backoff, v.session.compactions = w.session.compactions,
         v.session.manual = w.session.manual, v.session.cut = w.session.cut,
         v.session.tree # "summary", v.session.connected = w.session.connected,
         v.session.entries = w.session.entries, v.session.events = w.session.events,
         v.session.calls = w.session.calls, v.session.pendingBash = w.session.pendingBash
  PROVE  Steady(v)
<1>1. Asks(v) = Asks(w)
  BY DEF Asks
<1>2. Followed(v)
  BY DEF Navigated, Still, Followed, Path, Heard, Cutting, Queues
<1>3. Still(v)
  BY <1>1, <1>2 DEF Navigated, Still
<1>4. ~Waiting(v) /\ v.session.connected
  BY DEF Navigated, Waiting
<1> QED
  BY <1>3, <1>4, StillGoes

LEMMA MovedSteady ==
  ASSUME NEW w, Navigated(w), NEW path \in Seq(Known), ResultFollowsCall(path), KeptFromCut(path),
         NEW branch \in Nat
  PROVE  LET v == [MoveTo(w, path) EXCEPT !.session.tree = "none", !.session.branch = branch] IN
         v \in Worlds /\ Steady(v)
<1> DEFINE m == MoveTo(w, path)
           v == [m EXCEPT !.session.tree = "none", !.session.branch = branch]
<1>1. m \in Worlds /\ Still(m) /\ Waits(m) = Waits(w)
  BY PathStill DEF Navigated, MoveTo
<1> HIDE DEF m
<1>2. WaitsAre(w, m)
  BY <1>1, WaitsFields
<1>3. Navigated(m)
  BY <1>1, <1>2 DEF Navigated, WaitsAre
<1>4. /\ v \in Worlds /\ v.agent = m.agent /\ v.ui = m.ui
      /\ v.session.backoff = m.session.backoff /\ v.session.compactions = m.session.compactions
      /\ v.session.manual = m.session.manual /\ v.session.cut = m.session.cut
      /\ v.session.tree = "none" /\ v.session.connected = m.session.connected
      /\ v.session.entries = m.session.entries /\ v.session.events = m.session.events
      /\ v.session.calls = m.session.calls /\ v.session.pendingBash = m.session.pendingBash
  BY <1>1 DEF Worlds, Sessions
<1> HIDE DEF v
<1>5. Steady(v)
  BY <1>3, <1>4, NavigatedSteady
<1> QED
  BY <1>4, <1>5 DEF v, m

LEMMA NavigateSteady ==
  ASSUME Undisturbed, Orderly(World), Steady(World), Navigate
  PROVE  Steady(World')
<1> DEFINE path(n) == SubSeq(session.entries, 1, n)
           moved(n) == [MoveTo(World, path(n)) EXCEPT !.session.tree = "none"]
           left(n) == [World EXCEPT !.session.tree = "summary", !.session.branch = n]
<1>0. World \in Worlds /\ session \in Sessions
  BY DEF Orderly, World, Worlds
<1>1. PICK n \in Targets \ {Len(session.entries)} :
        Becomes(Acted(moved(n))) \/ Becomes(Acted(left(n)))
  BY DEF Navigate
<1>2. "tree" \in Uses /\ MayDisturb
  BY DEF Navigate, Acts
<1>3. Idles(World) /\ session.tree = "none"
  BY <1>2, RestIs
<1>4. n \in Nat /\ n <= Len(session.entries) /\ Len(session.entries) \in Nat
  <2>1. DOMAIN session.entries = 1..Len(session.entries) /\ Len(session.entries) \in Nat
    BY <1>0, LenProperties DEF Sessions
  <2> QED
    BY <2>1 DEF Targets
<1>5. ASSUME Becomes(Acted(moved(n))) PROVE Steady(World')
  <2> DEFINE p == path(n)
             v == moved(n)
             x == [MoveTo(World, p) EXCEPT !.session.tree = "none", !.session.branch = session.branch]
  <2>1. p \in Seq(Known) /\ ResultFollowsCall(p) /\ KeptFromCut(p)
    BY <1>0, <1>4, PrefixPath, WorldFields DEF Sessions, Steady, Followed, Path
  <2>2. Navigated(World)
    BY <1>3 DEF Idles, Waiting, Navigated
  <2> HIDE DEF path, p
  <2>3. v = [MoveTo(World, p) EXCEPT !.session.tree = "none"]
    BY DEF p
  <2> HIDE DEF moved, v
  <2>4. v = x
    <3> DEFINE s == [session EXCEPT !.entries = p, !.tree = "none"]
               b == [s EXCEPT !.branch = session.branch]
               u == [World EXCEPT !.agent.messages = Context(p)]
    <3>1. s \in Sessions /\ s.branch = session.branch
      BY <1>0, <2>1 DEF Sessions
    <3>2. v = [u EXCEPT !.session = s] /\ x = [u EXCEPT !.session = b]
      BY <1>0, <2>3 DEF MoveTo, World, Sessions
    <3> HIDE DEF s, u, x
    <3>3. b = s
      BY <3>1 DEF Sessions
    <3> HIDE DEF b
    <3> QED
      BY <3>2, <3>3
  <2>5. session.branch \in Nat
    BY <1>0 DEF Sessions
  <2>6. x \in Worlds /\ Steady(x)
    BY <2>1, <2>2, <2>5, MovedSteady
  <2> HIDE DEF x
  <2>7. Becomes(Acted(v))
    BY <1>5 DEF v
  <2> QED
    BY <2>4, <2>6, <2>7, ActedSteady, ReachesSteady
<1>6. ASSUME Becomes(Acted(left(n))) PROVE Steady(World')
  <2> DEFINE v == Acted(left(n))
  <2>1. /\ v.agent = World.agent /\ v.session.calls = World.session.calls
        /\ v.session.backoff = World.session.backoff
        /\ v.session.compactions = World.session.compactions
        /\ v.session.manual = World.session.manual /\ v.session.cut = World.session.cut
        /\ v.session.tree = "summary" /\ v.session.connected = World.session.connected
        /\ v.session.timers = World.session.timers
        /\ v.session.entries = World.session.entries /\ v.session.events = World.session.events
        /\ v.session.pendingBash = World.session.pendingBash
        /\ v.ui.acts = World.ui.acts + 1 /\ World.ui.acts \in Nat
    BY <1>0 DEF Acted, Worlds, Sessions, Uis
  <2>2. Becomes(v)
    BY <1>6
  <2> HIDE DEF left, v
  <2>3. Asks(v) = {}
    BY <1>3, <2>1 DEF Idles, Asks
  <2>4. Still(v)
    BY <1>3, <2>1, <2>3 DEF Idles, Still, Followed, Path, Heard, Cutting, Queues
  <2>5. v.ui.acts >= 1 /\ v.session.timers = 0
    BY <1>3, <2>1 DEF Idles
  <2>6. OneWait(v) /\ Asked(v)
    BY <1>2, <1>3, <2>1, <2>5 DEF Idles, Waiting, OneWait, Asked
  <2> QED
    BY <2>2, <2>3, <2>4, <2>5, <2>6, StillWaits, ReachesSteady
<1> QED
  BY <1>1, <1>5, <1>6

LEMMA NavigateEndsSteady ==
  ASSUME Orderly(World), Steady(World), NavigateSucceeds \/ NavigateAborts \/ NavigateCancelled
  PROVE  Steady(World')
<1>0. World \in Worlds /\ session \in Sessions
  BY DEF Orderly, World, Worlds
<1>1. session.tree = "summary"
  BY DEF NavigateSucceeds, NavigateAborts, NavigateCancelled
<1>2. Navigated(World)
  <2>1. Waiting(World)
    BY <1>1, WorldFields DEF Waiting
  <2>2. Still(World) /\ OneWait(World)
    BY <2>1, WaitingStill
  <2> QED
    BY <1>0, <1>1, <2>2, WorldFields DEF OneWait, Navigated
<1>3. CASE NavigateSucceeds
  <2> DEFINE path == Append(SubSeq(session.entries, 1, session.branch), BranchSummary)
             v == [MoveTo(World, path) EXCEPT !.session.tree = "none", !.session.branch = 0]
  <2>1. Becomes(v)
    BY <1>3 DEF NavigateSucceeds
  <2>2. session.branch \in Nat /\ session.branch <= Len(session.entries)
    BY <1>0, <1>1, WorldFields DEF Orderly, SummariesLand, Sessions
  <2>3. path \in Seq(Known) /\ ResultFollowsCall(path) /\ KeptFromCut(path)
    BY <1>0, <2>2, PrefixPath, WorldFields DEF Sessions, Steady, Followed, Path
  <2> HIDE DEF path
  <2>4. Steady(v)
    BY <1>2, <2>3, MovedSteady
  <2> QED
    BY <2>1, <2>4, ReachesSteady
<1>4. ASSUME NEW at \in {"none", "left"},
             Becomes([World EXCEPT !.session.tree = at, !.session.branch = 0])
      PROVE  Steady(World')
  <2> DEFINE v == [World EXCEPT !.session.tree = at, !.session.branch = 0]
  <2>1. /\ v.agent = World.agent /\ v.ui = World.ui
        /\ v.session.backoff = World.session.backoff
        /\ v.session.compactions = World.session.compactions
        /\ v.session.manual = World.session.manual /\ v.session.cut = World.session.cut
        /\ v.session.tree # "summary" /\ v.session.connected = World.session.connected
        /\ v.session.entries = World.session.entries /\ v.session.events = World.session.events
        /\ v.session.calls = World.session.calls /\ v.session.pendingBash = World.session.pendingBash
    BY <1>0 DEF Worlds, Sessions
  <2> HIDE DEF v
  <2>2. Steady(v)
    BY <1>2, <2>1, NavigatedSteady
  <2> QED
    BY <1>4, <2>2, ReachesSteady DEF v
<1> QED
  BY <1>3, <1>4 DEF NavigateSucceeds, NavigateAborts, NavigateCancelled

-----------------------------------------------------------------------------
(* Submission, and the theorems.                                            *)

LEMMA PromptedSteady ==
  ASSUME Undisturbed, NEW w, Idles(w), NEW t \in Text, NEW check
  PROVE  Steady(prompt(w, t, check))
<1> DEFINE v == Called(flushPendingBashMessages(w), t)
<1>1. prompt(w, t, check) = v
  BY PromptIs DEF Undisturbed
<1>2. v \in Worlds /\ Still(v) /\ Waits(v) = Waits(w)
  BY PromptStill DEF Idles
<1> HIDE DEF v
<1>3. WaitsAre(w, v)
  BY <1>2, WaitsFields
<1>4. ~Waiting(v) /\ v.session.connected
  BY <1>3 DEF WaitsAre, Idles, Waiting
<1> QED
  BY <1>1, <1>2, <1>4, StillGoes

LEMMA SubmitSteady ==
  ASSUME Undisturbed, Orderly(World), Steady(World), Submit
  PROVE  Steady(World')
<1> DEFINE t == ui.submitted + 1
           w == [World EXCEPT !.ui.submitted = t]
           l == [w EXCEPT !.ui.loop = t]
<1>0. World \in Worlds
  BY DEF Orderly
<1>1. PICK mode \in {"steer"} \cup (Uses \cap {"followUp"}), check \in Checks :
        \/ Becomes([w EXCEPT !.ui.queued = Append(@, [text |-> t, mode |-> mode])])
        \/ Becomes(Queue(w, [text |-> t, mode |-> mode]))
        \/ /\ Client = "interactive" /\ ~isCompacting(w) /\ ~isStreaming(w) /\ MayOverlap
           /\ Becomes(prompt(l, t, check))
        \/ Becomes(w)
        \/ Client = "rpc" /\ ~isStreaming(w) /\ MayOverlap /\ Becomes(prompt(w, t, check))
  BY DEF Submit
<1> DEFINE q == [text |-> t, mode |-> mode]
           k == [w EXCEPT !.ui.queued = Append(@, q)]
<1>2. t \in Text /\ t \in 0..MaxTexts /\ Quiet
  <2>1. ui.submitted < MaxTexts /\ Quiet
    BY DEF Submit
  <2>2. ui.submitted \in 0..MaxTexts
    BY <1>0, WorldFields DEF Worlds, Uis
  <2> QED
    BY <2>1, <2>2, Numbers DEF Text
<1>3. q \in Texts
  BY <1>2 DEF Texts
<1>4. w \in Worlds /\ w.agent = agent /\ w.session = session /\ w.ui.acts = World.ui.acts
  BY <1>0, <1>2, WorldFields DEF Worlds, Uis
<1>5. Passes(World, w)
  BY <1>4, UiPasses, WorldFields
<1>6. Steady(w)
  BY <1>5, PassesSteady
<1> HIDE DEF w, t, q
<1>7. Passes(w, k) /\ Passes(w, Queue(w, q))
  <2>1. k.agent = w.agent /\ k.session = w.session /\ k.ui.acts = w.ui.acts
    BY <1>4 DEF Worlds, Uis
  <2> HIDE DEF k
  <2> QED
    BY <1>3, <1>4, <2>1, UiPasses, QueuePasses
<1>8. session.events = <<>> /\ Asks(World) = {} /\ session.timers = 0
  BY <1>2, QuietNow
<1>9. ASSUME agent.run = "idle", MayOverlap, isCompacting(w) => Client = "rpc"
      PROVE  Idles(w)
  <2>1. session.backoff = "none" /\ session.compactions = {}
    BY <1>9, WorldFields DEF MayOverlap, Undisturbed, Sleeping
  <2>2. session.manual = "none" /\ session.tree # "summary"
    <3>1. CASE isCompacting(w)
      <4>1. Uses \cap {"compact", "tree"} = {}
        BY <1>9, <3>1 DEF Undisturbed
      <4> QED
        BY <4>1, WorldFields DEF Steady, Turns, Asked
    <3>2. CASE ~isCompacting(w)
      <4>1. session.manual \notin {"summary", "aborted"} /\ session.tree = "none"
        BY <1>4, <3>2 DEF isCompacting
      <4>2. session.manual # "waiting"
        BY <1>2, <1>9, <1>8, WorldFields DEF Quiet, Settled, Undisturbed
      <4>3. session.manual \in {"none", "waiting", "summary", "aborted"}
        BY <1>0, WorldFields DEF Worlds, Sessions
      <4> QED
        BY <4>1, <4>2, <4>3
    <3> QED
      BY <3>1, <3>2
  <2>3. ~Waiting(w) /\ w.session.connected
    BY <1>4, <1>6, <2>1, <2>2 DEF Waiting, Steady, Turns, OneWait
  <2>4. Asks(w) = {} /\ w.session.timers = 0
    BY <1>4, <1>8, WorldFields DEF Asks
  <2>5. Still(w)
    BY <1>4, <1>6, <1>8, <1>9, SteadyStill
  <2> QED
    BY <1>4, <2>3, <2>4, <2>5 DEF Idles
<1>10. ASSUME Idles(w) PROVE Steady(prompt(l, t, check)) /\ Steady(prompt(w, t, check))
  <2>1. l \in Worlds /\ l.agent = w.agent /\ l.session = w.session /\ l.ui.acts = w.ui.acts
    BY <1>2, <1>4 DEF Worlds, Uis
  <2> HIDE DEF l
  <2>2. Idles(l)
    BY <1>10, <2>1, UiPasses, IdlesPasses
  <2> QED
    BY <1>2, <1>10, <2>2, PromptedSteady
<1>11. ASSUME ~isStreaming(w) PROVE agent.run = "idle"
  BY <1>4, <1>11 DEF isStreaming
<1>12. ASSUME Becomes(k) PROVE Steady(World')
  BY <1>6, <1>7, <1>12, PassesSteady, ReachesSteady
<1>13. ASSUME Becomes(Queue(w, q)) PROVE Steady(World')
  BY <1>6, <1>7, <1>13, PassesSteady, ReachesSteady
<1>14. ASSUME Becomes(w) PROVE Steady(World')
  BY <1>6, <1>14, ReachesSteady
<1>15. ASSUME Client = "interactive", ~isCompacting(w), ~isStreaming(w), MayOverlap,
              Becomes(prompt(l, t, check))
       PROVE  Steady(World')
  <2>1. Steady(prompt(l, t, check))
    BY <1>9, <1>10, <1>11, <1>15
  <2> QED
    BY <1>15, <2>1, ReachesSteady
<1>16. ASSUME Client = "rpc", ~isStreaming(w), MayOverlap, Becomes(prompt(w, t, check))
       PROVE  Steady(World')
  <2>1. Steady(prompt(w, t, check))
    BY <1>9, <1>10, <1>11, <1>16
  <2> QED
    BY <1>16, <2>1, ReachesSteady
<1> HIDE DEF l, k
<1> QED
  BY <1>1, <1>12, <1>13, <1>14, <1>15, <1>16 DEF q, k

LEMMA InitSteady ==
  ASSUME Init
  PROVE  Steady(World)
<1>1. /\ agent.run = "idle" /\ agent.messages = <<>> /\ agent.steering = <<>> /\ agent.followUp = <<>>
      /\ session.entries = <<>> /\ session.events = <<>> /\ session.connected = TRUE
      /\ session.backoff = "none" /\ session.timers = 0 /\ session.pendingBash = <<>>
      /\ session.compactions = {} /\ session.manual = "none" /\ session.tree = "none"
      /\ session.calls = [t \in Text |-> "none"]
  BY DEF Init
<1>2. Asks(World) = {}
  BY <1>1, WorldFields DEF Asks
<1>3. \A i \in 1..Len(<<>>) : FALSE
  OBVIOUS
<1>4. Path(World)
  <2>1. ResultFollowsCall(<<>>)
    BY DEF ResultFollowsCall
  <2>2. KeptFromCut(<<>>)
    BY <1>3 DEF KeptFromCut
  <2> QED
    BY <1>1, <2>1, <2>2, WorldFields DEF Path
<1>5. Heard(World) /\ Cutting(World)
  BY <1>1, <1>3, WorldFields DEF Heard, Cutting
<1>6. Queues(World)
  <2>1. <<>> \in Seq(Queueable) /\ <<>> \in Seq(BashMessages)
    OBVIOUS
  <2> QED
    BY <1>1, <2>1, WorldFields DEF Queues
<1>7. Still(World)
  BY <1>1, <1>2, <1>4, <1>5, <1>6, WorldFields DEF Still, Followed
<1>8. ~Waiting(World) /\ World.session.connected
  BY <1>1, WorldFields DEF Waiting
<1> QED
  BY <1>7, <1>8, StillGoes

LEMMA NextSteady ==
  ASSUME Undisturbed, Orderly(World), Steady(World), [Next]_vars
  PROVE  Steady(World')
<1>1. CASE Progress
  BY <1>1, StartPromptSteady, AgentAnswersSteady, ToolsFinishSteady, RunFailsSteady,
     ContinueFiresSteady, HandleMessageSteady, HandleAgentEndSteady, BackoffElapsesSteady,
     BackoffAbortedSteady, CompactionEndsSteady, CompactPreparesSteady, CompactEndsSteady,
     NavigateEndsSteady DEF Progress
<1>2. CASE Next /\ ~Progress
  BY <1>2, SubmitSteady, AbortsSteady, EscapeCompactionSteady, BashEndsSteady,
     SendCustomMessageSteady, CompactSteady, NavigateSteady DEF Next
<1>3. CASE UNCHANGED vars
  <2>1. World' = World
    BY <1>3 DEF vars, World
  <2> QED
    BY <2>1
<1> QED
  BY <1>1, <1>2, <1>3

\* When events are handled as they come and nobody starts a run, a compaction or a
\* navigation in between, the session in every state either waits (for a pause of
\* handleRetryableError, for a summary of compact, runAutoCompaction or navigateTree)
\* or something of it goes on (a run, its events, a prompt that starts one, a timer
\* that does), never both; results stand behind their calls on the path and in the
\* transcript, what is heard of a run goes on where the path ends, and no path was
\* ever cut at a result (findValidCutPoints).
THEOREM SteadyTheorem ==
  ASSUME Undisturbed
  PROVE  Spec => []Steady(World)
<1>1. Init => Steady(World)
  BY InitSteady
<1>2. Orderly(World) /\ Steady(World) /\ [Next]_vars => Steady(World)'
  <2> SUFFICES ASSUME Orderly(World), Steady(World), [Next]_vars PROVE Steady(World')
    OBVIOUS
  <2> QED
    BY NextSteady
<1>3. Spec => []Orderly(World)
  BY OrderTheorem
<1> QED
  BY <1>1, <1>2, <1>3, PTL DEF Spec

\* In such a session no context built from the file and no transcript of the agent
\* ever holds a tool's result that does not stand behind its call, whatever is
\* aborted, retried, compacted, navigated or run in a shell meanwhile:
\* recordBashResult defers while a run streams, prompt flushes before it goes on, the
\* retry takes out a failed answer only, and buildSessionContext starts at no result.
THEOREM ResultsTheorem ==
  ASSUME Undisturbed
  PROVE  Spec => []ToolResultsFollowCalls
<1>1. Orderly(World) /\ Steady(World) => ToolResultsFollowCalls
  <2> SUFFICES ASSUME Orderly(World), Steady(World) PROVE ToolResultsFollowCalls
    OBVIOUS
  <2>1. /\ session.entries \in Seq(Known) /\ ResultFollowsCall(session.entries)
        /\ KeptFromCut(session.entries) /\ ResultFollowsCall(agent.messages)
    BY WorldFields DEF Orderly, Worlds, Sessions, Steady, Followed, Path
  <2>2. ResultFollowsCall(Context(session.entries))
    BY <2>1, ContextResults
  <2> QED
    BY <2>1, <2>2 DEF ToolResultsFollowCalls
<1>2. (Spec => []Orderly(World)) /\ (Spec => []Steady(World))
  BY OrderTheorem, SteadyTheorem
<1> QED
  BY <1>1, <1>2, PTL
===============================================================================
