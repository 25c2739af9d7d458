---------------------------- MODULE RecordProofs ----------------------------
(***************************************************************************)
(* What is kept of a conversation, of a Slack channel and of settings.     *)
(*                                                                         *)
(* However often and wherever a path is cut, no message is forgotten: by   *)
(* induction over the compactions. What the last one kept starts at its    *)
(* entry or before it, the next one summarizes from there, and the summary *)
(* in between is handed on, as long as there is history to summarize. What *)
(* is kept starts with no result and is as recent as asked for: the cut is *)
(* at or behind the newest message with which the budget is reached, and   *)
(* nothing kept in front of the cut is a message of the conversation. The  *)
(* agent of a channel knows all of its log, whatever crashes fall in       *)
(* between. And no value of a setting is lost, whether several processes   *)
(* each set one at a time, or one sets several in a row.                   *)
(***************************************************************************)
EXTENDS Compaction, FiniteSetTheorems, SequenceTheorems, WellFoundedInduction, TLAPS

EntryType == [kind : Kinds \cup {"compaction"}, size : Int, first : Int, covers : SUBSET Int]

Typed == path \in Seq(EntryType)

\* A compaction keeps from somewhere in front of it.
KeptIsInFront == \A c \in Compactions(path) : path[c].first \in 1..c

Placed == Typed /\ KeptIsInFront

Inv == Placed /\ NothingIsForgotten

-----------------------------------------------------------------------------
(* The least and the greatest of some positions.                            *)

LEMMA MinExists ==
  ASSUME NEW S, S \subseteq Nat, S # {}
  PROVE  Min(S) \in S /\ \A y \in S : Min(S) <= y
<1>1. PICK x \in S : \A y \in S : ~(<<y, x>> \in OpToRel(<, Nat))
  BY NatLessThanWellFounded, WFMin
<1>2. \A y \in S : ~(y < x)
  BY <1>1 DEF OpToRel
<1>3. \A y \in S : x <= y
  BY <1>2
<1> QED
  BY <1>3 DEF Min

LEMMA MaxExists ==
  ASSUME NEW n \in Nat, NEW S, S \subseteq 0..n, S # {}
  PROVE  Max(S) \in S /\ \A y \in S : Max(S) >= y
<1> DEFINE T == {n - y : y \in S}
<1>0. \A y \in S : n - y \in Nat
  OBVIOUS
<1>1. T \subseteq Nat /\ T # {}
  BY <1>0
<1>2. PICK t \in T : \A u \in T : ~(<<u, t>> \in OpToRel(<, Nat))
  BY <1>1, NatLessThanWellFounded, WFMin
<1>3. PICK x \in S : t = n - x
  BY <1>2
<1>4. \A y \in S : n - y \in T /\ n - y \in Nat /\ n - x \in Nat /\ y \in Int /\ x \in Int
  OBVIOUS
<1>5. \A y \in S : ~(n - y < n - x)
  BY <1>2, <1>3, <1>4 DEF OpToRel
<1>6. \A y \in S : x >= y
  BY <1>4, <1>5
<1> QED
  BY <1>6 DEF Max

-----------------------------------------------------------------------------
(* Where a path is cut.                                                     *)

LEMMA CutInRange ==
  ASSUME NEW p \in Seq(EntryType), NEW start \in 1..Len(p),
         findValidCutPoints(p, start) # {}
  PROVE  CutIndex(p, start) \in start..Len(p)
<1> DEFINE points == findValidCutPoints(p, start)
           reached == {i \in start..Len(p) :
                         p[i].kind \in Messages /\ TokensFrom(p, i) >= KeepRecentTokens}
           behind == {c \in points : \E i \in reached : c >= i /\ \A j \in reached : i >= j}
<1>1. points \subseteq start..Len(p) /\ behind \subseteq points
  BY DEF findValidCutPoints
<1>2. start..Len(p) \subseteq Nat
  OBVIOUS
<1>3. CutIndex(p, start) = IF behind = {} THEN Min(points) ELSE Min(behind)
  BY DEF CutIndex
<1> HIDE DEF points, behind
<1>4. Min(points) \in points
  BY <1>1, <1>2, MinExists DEF points
<1>5. behind # {} => Min(behind) \in behind
  BY <1>1, <1>2, MinExists
<1> QED
  BY <1>1, <1>3, <1>4, <1>5

LEMMA KeptInRange ==
  ASSUME NEW p \in Seq(EntryType), NEW start \in 1..Len(p)
  PROVE  FirstKept(p, start) \in start..Len(p)
<1>1. CASE findValidCutPoints(p, start) = {}
  BY <1>1 DEF FirstKept
<1>2. CASE findValidCutPoints(p, start) # {}
  <2> DEFINE cut == CutIndex(p, start)
             S == {i \in start..cut : \A k \in i..(cut - 1) : p[k].kind \in {"summary", "setting"}}
  <2>1. cut \in start..Len(p)
    BY <1>2, CutInRange
  <2>2. FirstKept(p, start) = Min(S)
    BY <1>2 DEF FirstKept
  <2> HIDE DEF cut
  <2>3. cut \in S
    BY <2>1
  <2>4. S \subseteq Nat /\ S \subseteq start..cut
    BY <2>1
  <2> HIDE DEF S
  <2>5. Min(S) \in S
    BY <2>3, <2>4, MinExists
  <2>6. Min(S) \in start..cut
    BY <2>4, <2>5
  <2>7. \A x \in start..cut : x \in start..Len(p)
    BY <2>1
  <2> QED
    BY <2>2, <2>6, <2>7
<1> QED
  BY <1>1, <1>2

LEMMA HistoryEndIsPosition ==
  ASSUME NEW p \in Seq(EntryType), BoundaryStart(p) \in 1..Len(p)
  PROVE  HistoryEnd(p) \in Int
<1> DEFINE start == BoundaryStart(p)
           first == FirstKept(p, start)
           starts == {i \in start..first : p[i].kind \in {"user", "bash", "summary"}}
<1>1. first \in start..Len(p)
  BY KeptInRange
<1>2. TurnStart(p, start) = 0 \/ (starts # {} /\ TurnStart(p, start) = Max(starts))
  BY DEF TurnStart
<1>3. starts \subseteq 0..Len(p)
  BY <1>1
<1>4. HistoryEnd(p) = IF TurnStart(p, start) # 0 THEN TurnStart(p, start) ELSE first
  BY DEF HistoryEnd
<1>5. Len(p) \in Nat
  OBVIOUS
<1> HIDE DEF starts, start, first
<1>6. starts # {} => Max(starts) \in 0..Len(p)
  BY <1>3, <1>5, MaxExists
<1> QED
  BY <1>1, <1>2, <1>4, <1>6 DEF start

\* What is summarized is all that is not kept, from the last boundary on.
LEMMA SummaryIsWhole ==
  ASSUME NEW p \in Seq(EntryType), BoundaryStart(p) \in 1..Len(p),
         NEW i \in BoundaryStart(p)..(FirstKept(p, BoundaryStart(p)) - 1), HasMessage(p[i])
  PROVE  i \in Summarized(p)
<1>1. HistoryEnd(p) \in Int
  BY HistoryEndIsPosition
<1>2. FirstKept(p, BoundaryStart(p)) \in BoundaryStart(p)..Len(p)
  BY KeptInRange
<1>3. CASE i < HistoryEnd(p)
  <2>1. i \in BoundaryStart(p)..(HistoryEnd(p) - 1)
    BY <1>1, <1>3
  <2> QED
    BY <2>1 DEF Summarized, messagesToSummarize, MessagesIn
<1>4. CASE ~(i < HistoryEnd(p))
  <2>1. i \in HistoryEnd(p)..(FirstKept(p, BoundaryStart(p)) - 1)
    BY <1>1, <1>2, <1>4
  <2> QED
    BY <2>1 DEF Summarized, turnPrefixMessages, MessagesIn
<1> QED
  BY <1>3, <1>4

-----------------------------------------------------------------------------
(* The newest compaction.                                                   *)

LEMMA PreviousIsNewest ==
  ASSUME NEW p \in Seq(EntryType), Compactions(p) # {}
  PROVE  Previous(p) \in Compactions(p) /\ Previous(p) \in 1..Len(p)
<1>1. Compactions(p) \subseteq 0..Len(p) /\ Compactions(p) \subseteq 1..Len(p) /\ Len(p) \in Nat
  BY DEF Compactions
<1> QED
  BY <1>1, MaxExists DEF Previous

LEMMA BoundaryInRange ==
  ASSUME Placed, path # <<>>
  PROVE  BoundaryStart(path) \in 1..Len(path)
<1>1. path \in Seq(EntryType) /\ Len(path) \in Nat /\ Len(path) >= 1
  BY DEF Placed, Typed
<1>2. CASE Compactions(path) = {}
  BY <1>1, <1>2 DEF BoundaryStart
<1>3. CASE Compactions(path) # {}
  <2>1. Previous(path) \in Compactions(path) /\ Previous(path) \in 1..Len(path)
    BY <1>1, <1>3, PreviousIsNewest
  <2>2. path[Previous(path)].first \in 1..Previous(path)
    BY <2>1 DEF Placed, KeptIsInFront
  <2> QED
    BY <1>1, <1>3, <2>1, <2>2 DEF BoundaryStart
<1> QED
  BY <1>2, <1>3

\* What an append leaves, and what becomes the newest compaction.
LEMMA Appended ==
  ASSUME NEW p \in Seq(EntryType), NEW e \in EntryType
  PROVE  LET q == Append(p, e) IN
         /\ q \in Seq(EntryType) /\ Len(q) = Len(p) + 1 /\ q[Len(p) + 1] = e
         /\ \A i \in 1..Len(p) : q[i] = p[i]
         /\ Compactions(q) =
              Compactions(p) \cup (IF e.kind = "compaction" THEN {Len(p) + 1} ELSE {})
<1> DEFINE q == Append(p, e)
<1>1. /\ q \in Seq(EntryType) /\ Len(q) = Len(p) + 1 /\ q[Len(p) + 1] = e
      /\ \A i \in 1..Len(p) : q[i] = p[i]
      /\ DOMAIN q = 1..(Len(p) + 1) /\ DOMAIN p = 1..Len(p) /\ Len(p) \in Nat
  OBVIOUS
<1> HIDE DEF q
<1>2. \A i : i \in DOMAIN q <=> i \in DOMAIN p \/ i = Len(p) + 1
  BY <1>1
<1>3. \A i \in DOMAIN p : i # Len(p) + 1
  BY <1>1
<1>4. \A i : i \in Compactions(q) <=>
          i \in Compactions(p) \/ (i = Len(p) + 1 /\ e.kind = "compaction")
  BY <1>1, <1>2, <1>3 DEF Compactions
<1> QED
  BY <1>1, <1>4 DEF q

LEMMA NewestAfterAppend ==
  ASSUME NEW p \in Seq(EntryType), NEW e \in EntryType, e.kind = "compaction"
  PROVE  Previous(Append(p, e)) = Len(p) + 1
<1> DEFINE q == Append(p, e)
           S == Compactions(q)
<1>1. S = Compactions(p) \cup {Len(p) + 1} /\ Len(p) \in Nat
  BY Appended
<1>2. Compactions(p) \subseteq 1..Len(p)
  BY DEF Compactions
<1>3. S \subseteq 0..(Len(p) + 1) /\ S # {} /\ Len(p) + 1 \in Nat
  BY <1>1, <1>2
<1> HIDE DEF S
<1>4. Max(S) \in S /\ \A y \in S : Max(S) >= y
  BY <1>3, MaxExists
<1>5. Len(p) + 1 \in S
  BY <1>1
<1>6. Max(S) \in 0..(Len(p) + 1) /\ Max(S) >= Len(p) + 1
  BY <1>3, <1>4, <1>5
<1>7. Max(S) = Len(p) + 1
  BY <1>1, <1>6
<1> QED
  BY <1>7 DEF Previous, S

-----------------------------------------------------------------------------
(* The steps.                                                               *)

LEMMA CompactTyped ==
  ASSUME Placed, path # <<>>
  PROVE  /\ CompactionEntry(path) \in EntryType
         /\ CompactionEntry(path).kind = "compaction"
         /\ CompactionEntry(path).first = FirstKept(path, BoundaryStart(path))
         /\ CompactionEntry(path).covers = Summarized(path)
         /\ FirstKept(path, BoundaryStart(path)) \in 1..Len(path)
<1>1. path \in Seq(EntryType)
  BY DEF Placed, Typed
<1>2. BoundaryStart(path) \in 1..Len(path)
  BY BoundaryInRange
<1>3. FirstKept(path, BoundaryStart(path)) \in BoundaryStart(path)..Len(path)
  BY <1>1, <1>2, KeptInRange
<1>4. HistoryEnd(path) \in Int
  BY <1>1, <1>2, HistoryEndIsPosition
<1>5. messagesToSummarize(path) \subseteq Int /\ turnPrefixMessages(path) \subseteq Int
  BY <1>2, <1>3, <1>4 DEF messagesToSummarize, turnPrefixMessages, MessagesIn
<1>6. previousSummary(path) \subseteq Int
  <2>1. CASE Compactions(path) = {}
    BY <2>1 DEF previousSummary
  <2>2. CASE Compactions(path) # {}
    <3>1. Previous(path) \in 1..Len(path)
      BY <1>1, <2>2, PreviousIsNewest
    <3>2. path[Previous(path)] \in EntryType
      BY <1>1, <3>1
    <3> QED
      BY <3>2 DEF EntryType, previousSummary
  <2> QED
    BY <2>1, <2>2
<1>7. Summarized(path) \subseteq Int
  BY <1>5, <1>6 DEF Summarized
<1> QED
  BY <1>2, <1>3, <1>7 DEF CompactionEntry, EntryType

LEMMA AppendAdds ==
  ASSUME CompactionAssumption, AppendEntry
  PROVE  \E e \in EntryType :
           /\ path' = Append(path, e) /\ e.kind # "compaction"
           /\ e.kind = "toolResult" =>
                path # <<>> /\ path[Len(path)].kind \in {"assistant", "toolResult"}
<1>1. PICK kind \in Kinds, size \in Sizes :
        /\ path' = Append(path, Entry(kind, size))
        /\ kind = "toolResult" =>
             path # <<>> /\ path[Len(path)].kind \in {"assistant", "toolResult"}
  BY DEF AppendEntry
<1>2. /\ Entry(kind, size) \in EntryType /\ Entry(kind, size).kind = kind
      /\ Entry(kind, size).kind # "compaction"
  BY DEF Entry, EntryType, Kinds, Messages, CompactionAssumption
<1> QED
  BY <1>1, <1>2

LEMMA CompactAdds ==
  ASSUME Placed, Compact
  PROVE  \E e \in EntryType :
           /\ path' = Append(path, e) /\ path # <<>> /\ e.kind = "compaction"
           /\ e.first = FirstKept(path, BoundaryStart(path)) /\ e.first \in 1..Len(path)
           /\ e.covers = Summarized(path)
<1>1. path' = Append(path, CompactionEntry(path)) /\ path # <<>>
  BY DEF Compact
<1> QED
  BY <1>1, CompactTyped

LEMMA PlacedGrows ==
  ASSUME Placed, NEW e \in EntryType, path' = Append(path, e),
         e.kind = "compaction" => e.first \in 1..Len(path)
  PROVE  Placed'
<1>1. path \in Seq(EntryType) /\ Len(path) \in Nat
  BY DEF Placed, Typed
<1>2. /\ path' \in Seq(EntryType) /\ path'[Len(path) + 1] = e
      /\ \A i \in 1..Len(path) : path'[i] = path[i]
      /\ Compactions(path') =
           Compactions(path) \cup (IF e.kind = "compaction" THEN {Len(path) + 1} ELSE {})
  BY <1>1, Appended
<1>3. Compactions(path) \subseteq 1..Len(path)
  BY <1>1 DEF Compactions
<1>4. \A c \in Compactions(path) : path'[c].first \in 1..c
  BY <1>2, <1>3 DEF Placed, KeptIsInFront
<1>5. e.kind = "compaction" => path'[Len(path) + 1].first \in 1..(Len(path) + 1)
  BY <1>1, <1>2
<1>6. KeptIsInFront'
  BY <1>2, <1>4, <1>5 DEF KeptIsInFront
<1> QED
  BY <1>2, <1>6 DEF Placed, Typed

\* An entry that is no compaction leaves the newest one and what is in front of it.
LEMMA NewestStays ==
  ASSUME Typed, NEW e \in EntryType, path' = Append(path, e), e.kind # "compaction"
  PROVE  /\ Compactions(path') = Compactions(path)
         /\ Compactions(path) # {} =>
              /\ Previous(path') = Previous(path)
              /\ Previous(path) \in Compactions(path) /\ Previous(path) \in 1..Len(path)
              /\ \A i \in 1..Previous(path) : path'[i] = path[i]
<1>1. path \in Seq(EntryType) /\ Len(path) \in Nat
  BY DEF Typed
<1>2. /\ \A i \in 1..Len(path) : path'[i] = path[i]
      /\ Compactions(path') =
           Compactions(path) \cup (IF e.kind = "compaction" THEN {Len(path) + 1} ELSE {})
  BY <1>1, Appended
<1>3. Compactions(path) # {} =>
        Previous(path) \in Compactions(path) /\ Previous(path) \in 1..Len(path)
  BY <1>1, PreviousIsNewest
<1> QED
  BY <1>2, <1>3 DEF Previous

LEMMA AppendKeeps ==
  ASSUME CompactionAssumption, Inv, AppendEntry
  PROVE  Inv'
<1>1. PICK e \in EntryType : path' = Append(path, e) /\ e.kind # "compaction"
  BY AppendAdds
<1>2. Typed
  BY DEF Inv, Placed
<1>3. Placed'
  BY <1>1, PlacedGrows DEF Inv
<1>4. /\ Compactions(path') = Compactions(path)
      /\ Compactions(path) # {} =>
           /\ Previous(path') = Previous(path) /\ Previous(path) \in 1..Len(path)
           /\ \A i \in 1..Previous(path) : path'[i] = path[i]
  BY <1>1, <1>2, NewestStays
<1>5. NothingIsForgotten'
  <2> SUFFICES ASSUME Compactions(path) # {}
               PROVE  \A i \in 1..(Previous(path') - 1) : HasMessage(path'[i]) =>
                        i >= path'[Previous(path')].first \/ i \in path'[Previous(path')].covers
    BY <1>4 DEF NothingIsForgotten
  <2>1. \A i \in 1..(Previous(path) - 1) : path'[i] = path[i]
    BY <1>4
  <2>2. path'[Previous(path)] = path[Previous(path)]
    BY <1>4
  <2> QED
    BY <1>4, <2>1, <2>2 DEF Inv, NothingIsForgotten
<1> QED
  BY <1>3, <1>5 DEF Inv

\* Each message in front of the new compaction is kept, in its summary, or in
\* the summary it was given.
LEMMA CompactCovers ==
  ASSUME Inv, path # <<>>, Compactions(path) = {} \/ ~WithoutHistory(path),
         NEW i \in 1..Len(path), HasMessage(path[i])
  PROVE  i >= FirstKept(path, BoundaryStart(path)) \/ i \in Summarized(path)
<1>1. path \in Seq(EntryType)
  BY DEF Inv, Placed, Typed
<1>2. BoundaryStart(path) \in 1..Len(path)
  BY BoundaryInRange DEF Inv
<1>3. FirstKept(path, BoundaryStart(path)) \in BoundaryStart(path)..Len(path)
  BY <1>1, <1>2, KeptInRange
<1>4. CASE i >= BoundaryStart(path)
  <2>1. CASE i >= FirstKept(path, BoundaryStart(path))
    BY <2>1
  <2>2. CASE ~(i >= FirstKept(path, BoundaryStart(path)))
    <3>1. i \in BoundaryStart(path)..(FirstKept(path, BoundaryStart(path)) - 1)
      BY <1>2, <1>3, <1>4, <2>2
    <3> QED
      BY <1>1, <1>2, <3>1, SummaryIsWhole
  <2> QED
    BY <2>1, <2>2
<1>5. CASE i < BoundaryStart(path)
  <2>1. Compactions(path) # {}
    BY <1>5 DEF BoundaryStart
  <2>2. Previous(path) \in Compactions(path) /\ Previous(path) \in 1..Len(path)
    BY <1>1, <2>1, PreviousIsNewest
  <2>3. BoundaryStart(path) = path[Previous(path)].first
    BY <2>1 DEF BoundaryStart
  <2>4. BoundaryStart(path) \in 1..Previous(path)
    BY <2>2, <2>3 DEF Inv, Placed, KeptIsInFront
  <2>5. i \in 1..(Previous(path) - 1)
    BY <1>5, <2>2, <2>4
  <2>6. ~(i >= path[Previous(path)].first)
    BY <1>2, <1>5, <2>3
  <2>7. i \in path[Previous(path)].covers
    BY <2>1, <2>5, <2>6 DEF Inv, NothingIsForgotten
  <2>8. previousSummary(path) = path[Previous(path)].covers
    BY <2>1 DEF previousSummary
  <2> QED
    BY <2>7, <2>8 DEF Summarized
<1> QED
  BY <1>2, <1>4, <1>5

LEMMA CompactKeeps ==
  ASSUME ~LongFirstTurns, Inv, Compact
  PROVE  Inv'
<1> DEFINE first == FirstKept(path, BoundaryStart(path))
<1>1. PICK e \in EntryType :
        /\ path' = Append(path, e) /\ path # <<>> /\ e.kind = "compaction"
        /\ e.first = first /\ first \in 1..Len(path) /\ e.covers = Summarized(path)
  BY CompactAdds DEF Inv
<1>2. path \in Seq(EntryType) /\ Len(path) \in Nat
  BY DEF Inv, Placed, Typed
<1>3. Compactions(path) = {} \/ ~WithoutHistory(path)
  BY DEF Compact
<1>4. Placed'
  BY <1>1, PlacedGrows DEF Inv
<1> HIDE DEF first
<1>5. path'[Len(path) + 1] = e /\ \A i \in 1..Len(path) : path'[i] = path[i]
  BY <1>1, <1>2, Appended
<1>6. Previous(path') = Len(path) + 1
  BY <1>1, <1>2, NewestAfterAppend
<1>7. NothingIsForgotten'
  <2>1. Previous(path') - 1 = Len(path)
    BY <1>2, <1>6
  <2>2. \A i \in 1..Len(path) : HasMessage(path'[i]) => HasMessage(path[i])
    BY <1>5
  <2>3. \A i \in 1..Len(path) : HasMessage(path[i]) => i >= first \/ i \in Summarized(path)
    BY <1>1, <1>3, CompactCovers DEF first
  <2>4. path'[Previous(path')] = e
    BY <1>5, <1>6
  <2> QED
    BY <1>1, <2>1, <2>2, <2>3, <2>4 DEF NothingIsForgotten
<1> QED
  BY <1>4, <1>7 DEF Inv

-----------------------------------------------------------------------------
LEMMA HistoryInit == Init => Inv
BY DEF Init, Inv, Placed, Typed, KeptIsInFront, NothingIsForgotten, Compactions

LEMMA HistoryNext ==
  ASSUME CompactionAssumption, ~LongFirstTurns
  PROVE  Inv /\ [Next]_path => Inv'
<1> SUFFICES ASSUME Inv, [Next]_path PROVE Inv'
  OBVIOUS
<1>1. CASE AppendEntry
  BY <1>1, AppendKeeps
<1>2. CASE Compact
  BY <1>2, CompactKeeps
<1>3. CASE UNCHANGED path
  BY <1>3 DEF Inv, Placed, Typed, KeptIsInFront, NothingIsForgotten, Compactions, Previous
<1> QED
  BY <1>1, <1>2, <1>3 DEF Next

\* Each message in front of the newest compaction is sent to the model or is in
\* its summary, for every path, budget and number of compactions, unless a
\* compaction cuts the turn the last one kept first (prepareCompaction, compact).
THEOREM HistoryTheorem ==
  ASSUME CompactionAssumption, ~LongFirstTurns
  PROVE  Spec => []NothingIsForgotten
<1>1. Inv => NothingIsForgotten
  BY DEF Inv
<1> QED
  BY <1>1, HistoryInit, HistoryNext, PTL DEF Spec

-----------------------------------------------------------------------------
(* What the newest compaction keeps.                                        *)

\* Results stand right behind calls or results.
ResultsBehindCalls ==
  \A i \in 1..Len(path) :
    path[i].kind = "toolResult" => i > 1 /\ path[i - 1].kind \in {"assistant", "toolResult"}

\* What a compaction keeps starts with no result.
StartsWithoutResult == \A c \in Compactions(path) : path[path[c].first].kind # "toolResult"

\* The sizes at some positions together, and what the sum of the library is: the
\* value of a function that takes one position away at a time.
Total(p, S) == MapThenSumSet(LAMBDA i : p[i].size, S)
AnyOf(s) == CHOOSE x \in s : TRUE
Sums(p, D, g) ==
  g = [s \in D |-> IF s = {} THEN 0 ELSE p[AnyOf(s)].size + g[s \ {AnyOf(s)}]]

LEMMA TotalIsRecursive ==
  ASSUME NEW p, NEW S
  PROVE  Total(p, S) = (CHOOSE g : Sums(p, SUBSET S, g))[S]
BY DEF Total, MapThenSumSet, MapThenFoldSet, Sums, AnyOf

LEMMA SameTotal ==
  ASSUME NEW p, NEW q, NEW S, \A i \in S : p[i].size = q[i].size
  PROVE  Total(p, S) = Total(q, S)
<1>1. \A g : Sums(p, SUBSET S, g) <=> Sums(q, SUBSET S, g)
  BY DEF Sums, AnyOf
<1>2. (CHOOSE g : Sums(p, SUBSET S, g)) = (CHOOSE g : Sums(q, SUBSET S, g))
  BY <1>1
<1> QED
  BY <1>2, TotalIsRecursive

\* There is such a function, for sets of at most n positions first.
LEMMA SumsExist ==
  ASSUME NEW p, NEW S, IsFiniteSet(S)
  PROVE  \E g : Sums(p, SUBSET S, g)
<1> DEFINE Upto(n) == {s \in SUBSET S : Cardinality(s) <= n}
           Bad == {n \in Nat : ~\E g : Sums(p, Upto(n), g)}
<1>1. \A s \in SUBSET S : IsFiniteSet(s) /\ Cardinality(s) \in Nat
  BY FS_Subset, FS_CardinalityType
<1>2. ASSUME NEW s \in SUBSET S, s # {}
      PROVE  /\ AnyOf(s) \in s /\ s \ {AnyOf(s)} \in SUBSET S
             /\ Cardinality(s \ {AnyOf(s)}) = Cardinality(s) - 1
  <2>1. AnyOf(s) \in s
    BY <1>2 DEF AnyOf
  <2> QED
    BY <1>1, <2>1, FS_RemoveElement
<1>3. 0 \notin Bad
  <2>1. \A s \in Upto(0) : s = {}
    BY <1>1, FS_EmptySet
  <2>2. Sums(p, Upto(0), [s \in Upto(0) |-> 0])
    BY <2>1 DEF Sums
  <2> QED
    BY <2>2
<1>4. ASSUME NEW n \in Nat, n \notin Bad PROVE n + 1 \notin Bad
  <2>1. PICK g : Sums(p, Upto(n), g)
    BY <1>4
  <2> DEFINE h == [s \in Upto(n + 1) |->
                     IF s = {} THEN 0 ELSE p[AnyOf(s)].size + g[s \ {AnyOf(s)}]]
  <2>2. \A s \in Upto(n) : s \in Upto(n + 1)
    BY <1>1
  <2>3. \A s \in Upto(n) : h[s] = g[s]
    BY <2>1, <2>2 DEF Sums
  <2>4. \A s \in Upto(n + 1) : s # {} => s \ {AnyOf(s)} \in Upto(n)
    <3> SUFFICES ASSUME NEW s \in Upto(n + 1), s # {} PROVE s \ {AnyOf(s)} \in Upto(n)
      OBVIOUS
    <3>1. Cardinality(s) \in Nat /\ Cardinality(s) <= n + 1 /\ s \in SUBSET S
      BY <1>1
    <3>2. Cardinality(s \ {AnyOf(s)}) = Cardinality(s) - 1 /\ s \ {AnyOf(s)} \in SUBSET S
      BY <1>2, <3>1
    <3> QED
      BY <3>1, <3>2
  <2>5. Sums(p, Upto(n + 1), h)
    BY <2>3, <2>4 DEF Sums
  <2> QED
    BY <2>5
<1>5. Cardinality(S) \notin Bad
  <2> SUFFICES ASSUME Bad # {} PROVE FALSE
    BY <1>1
  <2> HIDE DEF Bad
  <2>1. Bad \subseteq Nat
    BY DEF Bad
  <2>2. Min(Bad) \in Bad /\ \A y \in Bad : Min(Bad) <= y
    BY <2>1, MinExists
  <2>3. Min(Bad) \in Nat /\ Min(Bad) # 0
    BY <1>3, <2>1, <2>2
  <2>4. Min(Bad) - 1 \in Nat /\ Min(Bad) - 1 \notin Bad
    BY <2>1, <2>2, <2>3
  <2>5. (Min(Bad) - 1) + 1 \notin Bad
    BY <1>4, <2>4
  <2> QED
    BY <2>2, <2>3, <2>5
<1>6. Upto(Cardinality(S)) = SUBSET S
  BY FS_Subset, FS_CardinalityType
<1> QED
  BY <1>1, <1>5, <1>6

LEMMA TotalOfNone ==
  ASSUME NEW p
  PROVE  Total(p, {}) = 0
<1> DEFINE g == CHOOSE f : Sums(p, SUBSET {}, f)
<1>1. Sums(p, SUBSET {}, g)
  BY SumsExist, FS_EmptySet
<1> HIDE DEF g
<1>2. g[{}] = 0
  BY <1>1 DEF Sums
<1> QED
  BY <1>2, TotalIsRecursive DEF g

\* Sizes that are numbers add up to one.
LEMMA TotalIsNumber ==
  ASSUME NEW p, NEW S, IsFiniteSet(S), \A i \in S : p[i].size \in Int
  PROVE  Total(p, S) \in Int
<1> DEFINE g == CHOOSE f : Sums(p, SUBSET S, f)
           Bad == {n \in Nat : \E s \in SUBSET S : Cardinality(s) = n /\ g[s] \notin Int}
<1>1. Sums(p, SUBSET S, g)
  BY SumsExist
<1> HIDE DEF g
<1>2. \A s \in SUBSET S : IsFiniteSet(s) /\ Cardinality(s) \in Nat
  BY FS_Subset, FS_CardinalityType
<1>3. Bad = {}
  <2> SUFFICES ASSUME Bad # {} PROVE FALSE
    OBVIOUS
  <2> HIDE DEF Bad
  <2>1. Bad \subseteq Nat
    BY DEF Bad
  <2>2. Min(Bad) \in Bad /\ \A y \in Bad : Min(Bad) <= y
    BY <2>1, MinExists
  <2>3. PICK s \in SUBSET S : Cardinality(s) = Min(Bad) /\ g[s] \notin Int
    BY <2>2 DEF Bad
  <2>4. g[s] = IF s = {} THEN 0 ELSE p[AnyOf(s)].size + g[s \ {AnyOf(s)}]
    BY <1>1 DEF Sums
  <2>5. s # {} /\ AnyOf(s) \in s /\ AnyOf(s) \in S /\ s \ {AnyOf(s)} \in SUBSET S
    BY <2>3, <2>4 DEF AnyOf
  <2>6. Cardinality(s \ {AnyOf(s)}) = Cardinality(s) - 1
    BY <1>2, <2>5, FS_RemoveElement
  <2>7. g[s \ {AnyOf(s)}] \notin Int
    BY <2>3, <2>4, <2>5
  <2>8. Cardinality(s \ {AnyOf(s)}) \in Bad
    BY <1>2, <2>5, <2>7 DEF Bad
  <2>9. Min(Bad) \in Nat /\ Min(Bad) - 1 \in Bad
    BY <2>1, <2>2, <2>3, <2>6, <2>8
  <2> QED
    BY <2>2, <2>9
<1>4. g[S] \in Int
  BY <1>2, <1>3
<1> QED
  BY <1>4, TotalIsRecursive DEF g

LEMMA CutPointIsNoResult ==
  ASSUME NEW p \in Seq(EntryType), NEW start \in 1..Len(p),
         findValidCutPoints(p, start) # {}
  PROVE  p[CutIndex(p, start)].kind # "toolResult"
<1> DEFINE points == findValidCutPoints(p, start)
           reached == {i \in start..Len(p) :
                         p[i].kind \in Messages /\ TokensFrom(p, i) >= KeepRecentTokens}
           behind == {c \in points : \E i \in reached : c >= i /\ \A j \in reached : i >= j}
<1>1. points \subseteq Nat /\ behind \subseteq points
  BY DEF findValidCutPoints
<1>2. CutIndex(p, start) = IF behind = {} THEN Min(points) ELSE Min(behind)
  BY DEF CutIndex
<1> HIDE DEF points, behind
<1>3. Min(points) \in points /\ (behind # {} => Min(behind) \in behind)
  BY <1>1, MinExists DEF points
<1>4. CutIndex(p, start) \in points
  BY <1>1, <1>2, <1>3
<1> QED
  BY <1>4 DEF points, findValidCutPoints

\* What is kept starts at the cut, or with entries in front of it that are no
\* messages of the conversation.
LEMMA KeptReachesCut ==
  ASSUME NEW p \in Seq(EntryType), NEW start \in 1..Len(p),
         findValidCutPoints(p, start) # {}
  PROVE  /\ FirstKept(p, start) \in start..CutIndex(p, start)
         /\ \A k \in FirstKept(p, start)..(CutIndex(p, start) - 1) :
              p[k].kind \in {"summary", "setting"}
<1> DEFINE cut == CutIndex(p, start)
           S == {i \in start..cut : \A k \in i..(cut - 1) : p[k].kind \in {"summary", "setting"}}
<1>1. cut \in start..Len(p)
  BY CutInRange
<1>2. FirstKept(p, start) = Min(S)
  BY DEF FirstKept
<1> HIDE DEF cut
<1>3. cut \in S /\ S \subseteq Nat
  BY <1>1
<1> HIDE DEF S
<1>4. Min(S) \in S
  BY <1>3, MinExists
<1> QED
  BY <1>2, <1>4 DEF S, cut

LEMMA FirstKeptIsNoResult ==
  ASSUME NEW p \in Seq(EntryType), NEW start \in 1..Len(p), p[start].kind # "toolResult"
  PROVE  p[FirstKept(p, start)].kind # "toolResult"
<1> DEFINE first == FirstKept(p, start)
           cut == CutIndex(p, start)
<1>1. CASE findValidCutPoints(p, start) = {}
  BY <1>1 DEF FirstKept
<1>2. CASE findValidCutPoints(p, start) # {}
  <2>1. /\ first \in start..cut /\ \A k \in first..(cut - 1) : p[k].kind \in {"summary", "setting"}
    BY <1>2, KeptReachesCut
  <2>2. cut \in start..Len(p) /\ p[cut].kind # "toolResult"
    BY <1>2, CutInRange, CutPointIsNoResult
  <2> HIDE DEF first, cut
  <2>3. first = cut \/ first \in first..(cut - 1)
    BY <2>1, <2>2
  <2>4. p[first].kind # "toolResult"
    BY <2>1, <2>2, <2>3
  <2> QED
    BY <2>4 DEF first
<1> QED
  BY <1>1, <1>2

\* When the last message kept is no result, the cut is at or behind the newest
\* one that reaches the budget.
LEMMA KeptReachesBudget ==
  ASSUME NEW p \in Seq(EntryType), NEW start \in 1..Len(p),
         NEW m \in FirstKept(p, start)..Len(p), p[m].kind \in Messages,
         NEW r \in (m + 1)..Len(p), p[r].kind \in Messages, TokensFrom(p, r) >= KeepRecentTokens,
         NEW z \in FirstKept(p, start)..Len(p), p[z].kind \in Messages \ {"toolResult"},
         \A i \in FirstKept(p, start)..Len(p) : p[i].kind \in Messages => i <= z
  PROVE  FALSE
<1> DEFINE points == findValidCutPoints(p, start)
           reached == {i \in start..Len(p) :
                         p[i].kind \in Messages /\ TokensFrom(p, i) >= KeepRecentTokens}
           behind == {c \in points : \E i \in reached : c >= i /\ \A j \in reached : i >= j}
           first == FirstKept(p, start)
           cut == CutIndex(p, start)
<1>1. first \in start..Len(p) /\ Len(p) \in Nat
  BY KeptInRange
<1>2. z \in points
  BY <1>1 DEF findValidCutPoints, HasMessage
<1>3. r \in reached
  BY <1>1
<1>4. cut = IF behind = {} THEN Min(points) ELSE Min(behind)
  BY DEF CutIndex
<1>5. points \subseteq Nat /\ reached \subseteq 0..Len(p)
  BY DEF findValidCutPoints
<1>6. \A k \in first..(cut - 1) : p[k].kind \in {"summary", "setting"}
  BY <1>2, KeptReachesCut
<1>7. cut \in start..Len(p)
  BY <1>2, CutInRange
<1>8. \A i \in reached : i >= first => i <= z
  OBVIOUS
<1> HIDE DEF points, reached, first, cut
<1>9. Max(reached) \in reached /\ \A j \in reached : Max(reached) >= j
  BY <1>1, <1>3, <1>5, MaxExists
<1>10. Max(reached) >= r /\ Max(reached) \in Nat
  <2>1. \A i \in 0..Len(p) : i \in Nat
    BY <1>1
  <2>2. Max(reached) \in Nat
    BY <1>5, <1>9, <2>1
  <2> QED
    BY <1>3, <1>9, <2>2
<1>11. Max(reached) <= z
  BY <1>1, <1>8, <1>9, <1>10 DEF first
<1>12. z \in behind
  BY <1>2, <1>9, <1>11
<1>13. behind \subseteq Nat /\ \A c \in behind : c >= Max(reached)
  <2>1. ASSUME NEW c \in behind PROVE c >= Max(reached)
    <3>1. PICK i \in reached : c >= i /\ \A j \in reached : i >= j
      BY <2>1
    <3>2. i >= Max(reached)
      BY <1>9, <3>1
    <3>3. i \in Nat /\ c \in Nat
      <4>1. \A j \in 0..Len(p) : j \in Nat
        BY <1>1
      <4>2. i \in 0..Len(p) /\ c \in points
        BY <1>5, <2>1, <3>1
      <4> QED
        BY <1>5, <4>1, <4>2
    <3> QED
      BY <1>10, <3>1, <3>2, <3>3
  <2> QED
    BY <1>5, <2>1
<1> HIDE DEF behind
<1>14. cut \in behind
  BY <1>4, <1>12, <1>13, MinExists
<1>15. m < cut
  <2>1. m \in Nat /\ r \in Nat /\ r > m
    BY <1>1 DEF first
  <2>2. cut \in Nat /\ cut >= Max(reached)
    BY <1>13, <1>14
  <2> QED
    BY <1>10, <2>1, <2>2
<1>16. m \in first..(cut - 1)
  BY <1>1, <1>7, <1>15 DEF first
<1> QED
  BY <1>6, <1>16 DEF Messages

\* What is kept of a path, and that it is recent.
KeptIn(p, from, to) == {i \in from..to : p[i].kind \in Messages}

Recent(p, kept) ==
  kept # {} =>
    /\ p[Min(kept)].kind # "toolResult"
    /\ \/ Total(p, kept \ {Min(kept)}) < KeepRecentTokens
       \/ p[Max(kept)].kind = "toolResult"
       \/ KeepRecentTokens = 0

NewestIsRecent ==
  Compactions(path) # {} =>
    Recent(path, KeptIn(path, path[Previous(path)].first, Previous(path) - 1))

RecentInv == Placed /\ ResultsBehindCalls /\ StartsWithoutResult /\ NewestIsRecent

LEMMA KeptIsRecent ==
  ASSUME CompactionAssumption, Placed, ResultsBehindCalls,
         NEW start \in 1..Len(path), path[start].kind # "toolResult"
  PROVE  Recent(path, KeptIn(path, FirstKept(path, start), Len(path)))
<1> SUFFICES ASSUME NEW kept, kept = KeptIn(path, FirstKept(path, start), Len(path)), kept # {}
             PROVE  /\ path[Min(kept)].kind # "toolResult"
                    /\ \/ Total(path, kept \ {Min(kept)}) < KeepRecentTokens
                       \/ path[Max(kept)].kind = "toolResult"
                       \/ KeepRecentTokens = 0
  BY DEF Recent
<1> DEFINE first == FirstKept(path, start)
           rest == kept \ {Min(kept)}
<1>1. path \in Seq(EntryType) /\ Len(path) \in Nat /\ KeepRecentTokens \in Nat
  BY DEF Placed, Typed, CompactionAssumption
<1>2. first \in start..Len(path) /\ path[first].kind # "toolResult"
  BY <1>1, KeptInRange, FirstKeptIsNoResult
<1> HIDE DEF first
<1>3. /\ kept = {i \in first..Len(path) : path[i].kind \in Messages}
      /\ kept \subseteq Nat /\ kept \subseteq 0..Len(path)
  BY <1>2 DEF KeptIn, first
<1>4. Min(kept) \in kept /\ \A y \in kept : Min(kept) <= y
  BY <1>3, MinExists
<1>5. Max(kept) \in kept /\ \A y \in kept : Max(kept) >= y
  BY <1>1, <1>3, MaxExists
<1>6. path[Min(kept)].kind # "toolResult"
  <2> SUFFICES ASSUME path[Min(kept)].kind = "toolResult" PROVE FALSE
    OBVIOUS
  <2>1. Min(kept) \in first..Len(path) /\ Min(kept) # first /\ Min(kept) \in 1..Len(path)
    BY <1>2, <1>3, <1>4
  <2>2. path[Min(kept) - 1].kind \in {"assistant", "toolResult"}
    BY <2>1 DEF ResultsBehindCalls
  <2>3. Min(kept) - 1 \in first..Len(path)
    BY <1>2, <2>1
  <2>4. Min(kept) - 1 \in kept
    BY <1>3, <2>2, <2>3 DEF Messages
  <2> QED
    BY <1>4, <2>1, <2>4
<1>7. ASSUME path[Max(kept)].kind # "toolResult", KeepRecentTokens # 0
      PROVE  Total(path, rest) < KeepRecentTokens
  <2>1. CASE rest = {}
    <3>1. Total(path, rest) = 0
      BY <2>1, TotalOfNone
    <3> QED
      BY <1>1, <1>7, <3>1
  <2>2. CASE rest # {}
    <3> DEFINE r == Min(rest)
    <3>1. rest \subseteq kept /\ rest \subseteq Nat
      BY <1>3
    <3>2. r \in rest /\ \A y \in rest : r <= y
      BY <2>2, <3>1, MinExists
    <3>3. r \in kept /\ r # Min(kept) /\ Min(kept) <= r
      BY <1>4, <3>2
    <3> HIDE DEF r
    <3>4. rest = {i \in r..Len(path) : path[i].kind \in Messages}
      <4>1. ASSUME NEW i \in rest PROVE i \in r..Len(path) /\ path[i].kind \in Messages
        BY <1>3, <3>1, <3>2, <3>3
      <4>2. ASSUME NEW i \in r..Len(path), path[i].kind \in Messages PROVE i \in rest
        BY <1>2, <1>3, <1>4, <3>3, <4>2
      <4> QED
        BY <4>1, <4>2
    <3>5. Total(path, rest) = TokensFrom(path, r)
      <4> HIDE DEF rest
      <4> QED
        BY <3>4 DEF TokensFrom, Total
    <3>6. ~(TokensFrom(path, r) >= KeepRecentTokens)
      <4> SUFFICES ASSUME TokensFrom(path, r) >= KeepRecentTokens PROVE FALSE
        OBVIOUS
      <4>1. /\ Min(kept) \in first..Len(path) /\ path[Min(kept)].kind \in Messages
            /\ r \in (Min(kept) + 1)..Len(path) /\ path[r].kind \in Messages
        BY <1>2, <1>3, <1>4, <3>3
      <4>2. /\ Max(kept) \in first..Len(path) /\ path[Max(kept)].kind \in Messages \ {"toolResult"}
            /\ \A i \in first..Len(path) : path[i].kind \in Messages => i <= Max(kept)
        BY <1>2, <1>3, <1>5, <1>7
      <4> QED
        BY <1>1, <4>1, <4>2, KeptReachesBudget DEF first
    <3>7. Total(path, rest) \in Int
      <4>1. \A i \in rest : path[i] \in EntryType
        BY <1>1, <1>2, <1>3, <3>1
      <4>2. IsFiniteSet(rest)
        <5>1. IsFiniteSet(0..Len(path))
          BY <1>1, FS_Interval
        <5>2. rest \subseteq 0..Len(path)
          BY <1>3, <3>1
        <5> HIDE DEF rest
        <5> QED
          BY <5>1, <5>2, FS_Subset
      <4> QED
        BY <4>1, <4>2, TotalIsNumber DEF EntryType
    <3> QED
      BY <1>1, <3>5, <3>6, <3>7
  <2> QED
    BY <2>1, <2>2
<1> QED
  BY <1>6, <1>7

LEMMA RecentByTotal == NewestIsRecent => KeepsWhatIsRecent
BY DEF KeepsWhatIsRecent, NewestIsRecent, Recent, KeptIn, Total

\* It is the same for two paths that agree up to there.
LEMMA RecentCarries ==
  ASSUME NEW p, NEW q, NEW n \in Nat, NEW from \in Nat \ {0}, \A i \in 1..n : p[i] = q[i],
         Recent(p, KeptIn(p, from, n))
  PROVE  Recent(q, KeptIn(q, from, n))
<1> DEFINE kept == KeptIn(p, from, n)
<1>1. from..n \subseteq 1..n
  OBVIOUS
<1>2. kept = KeptIn(q, from, n)
  BY <1>1 DEF KeptIn
<1>3. kept \subseteq 1..n /\ kept \subseteq Nat /\ kept \subseteq 0..n
  BY <1>1 DEF KeptIn
<1> HIDE DEF kept
<1>4. kept # {} => Min(kept) \in kept /\ Max(kept) \in kept
  BY <1>3, MinExists, MaxExists
<1>5. \A i \in kept \ {Min(kept)} : p[i].size = q[i].size
  BY <1>3
<1>6. Total(p, kept \ {Min(kept)}) = Total(q, kept \ {Min(kept)})
  BY <1>5, SameTotal
<1>7. Recent(q, kept)
  BY <1>3, <1>4, <1>6 DEF Recent, kept
<1> QED
  BY <1>2, <1>7

LEMMA ResultsStayBehindCalls ==
  ASSUME Typed, ResultsBehindCalls, NEW e \in EntryType, path' = Append(path, e),
         e.kind = "toolResult" =>
           path # <<>> /\ path[Len(path)].kind \in {"assistant", "toolResult"}
  PROVE  ResultsBehindCalls'
<1>1. path \in Seq(EntryType) /\ Len(path) \in Nat /\ (path # <<>> => Len(path) >= 1)
  BY DEF Typed
<1>2. /\ Len(path') = Len(path) + 1 /\ path'[Len(path) + 1] = e
      /\ \A i \in 1..Len(path) : path'[i] = path[i]
  BY <1>1, Appended
<1> SUFFICES ASSUME NEW i \in 1..(Len(path) + 1), path'[i].kind = "toolResult"
             PROVE  i > 1 /\ path'[i - 1].kind \in {"assistant", "toolResult"}
  BY <1>2 DEF ResultsBehindCalls
<1>3. CASE i \in 1..Len(path)
  <2>1. i > 1 /\ path[i - 1].kind \in {"assistant", "toolResult"}
    BY <1>2, <1>3 DEF ResultsBehindCalls
  <2>2. path'[i - 1] = path[i - 1]
    BY <1>1, <1>2, <1>3, <2>1
  <2> QED
    BY <2>1, <2>2
<1>4. CASE i = Len(path) + 1
  <2>1. Len(path) >= 1 /\ path[Len(path)].kind \in {"assistant", "toolResult"}
    BY <1>1, <1>2, <1>4
  <2>2. i - 1 = Len(path) /\ path'[Len(path)] = path[Len(path)]
    BY <1>1, <1>2, <1>4, <2>1
  <2> QED
    BY <1>1, <1>4, <2>1, <2>2
<1> QED
  BY <1>1, <1>3, <1>4

LEMMA BoundaryIsNoResult ==
  ASSUME Placed, ResultsBehindCalls, StartsWithoutResult, path # <<>>
  PROVE  path[BoundaryStart(path)].kind # "toolResult"
<1>1. path \in Seq(EntryType) /\ Len(path) \in Nat /\ Len(path) >= 1
  BY DEF Placed, Typed
<1>2. CASE Compactions(path) = {}
  <2>1. path[1].kind # "toolResult"
    BY <1>1 DEF ResultsBehindCalls
  <2> QED
    BY <1>2, <2>1 DEF BoundaryStart
<1>3. CASE Compactions(path) # {}
  BY <1>1, <1>3, PreviousIsNewest DEF BoundaryStart, StartsWithoutResult
<1> QED
  BY <1>2, <1>3

LEMMA AppendKeepsRecent ==
  ASSUME CompactionAssumption, RecentInv, AppendEntry
  PROVE  RecentInv'
<1>1. PICK e \in EntryType :
        /\ path' = Append(path, e) /\ e.kind # "compaction"
        /\ e.kind = "toolResult" =>
             path # <<>> /\ path[Len(path)].kind \in {"assistant", "toolResult"}
  BY AppendAdds
<1>2. path \in Seq(EntryType) /\ Len(path) \in Nat /\ Typed
  BY DEF RecentInv, Placed, Typed
<1>3. Placed'
  BY <1>1, PlacedGrows DEF RecentInv
<1>4. ResultsBehindCalls'
  BY <1>1, <1>2, ResultsStayBehindCalls DEF RecentInv
<1>5. /\ Compactions(path') = Compactions(path)
      /\ Compactions(path) # {} =>
           /\ Previous(path') = Previous(path)
           /\ Previous(path) \in Compactions(path) /\ Previous(path) \in 1..Len(path)
           /\ \A i \in 1..Previous(path) : path'[i] = path[i]
  BY <1>1, <1>2, NewestStays
<1>6. StartsWithoutResult'
  <2>1. \A i \in 1..Len(path) : path'[i] = path[i]
    BY <1>1, <1>2, Appended
  <2>2. ASSUME NEW c \in Compactions(path) PROVE path'[path'[c].first] = path[path[c].first]
    <3>1. c \in 1..Len(path) /\ path[c].first \in 1..c
      BY <1>2 DEF RecentInv, Placed, KeptIsInFront, Compactions
    <3>2. path[c].first \in 1..Len(path)
      BY <1>2, <3>1
    <3> QED
      BY <2>1, <3>1, <3>2
  <2> QED
    BY <1>5, <2>2 DEF RecentInv, StartsWithoutResult
<1>7. NewestIsRecent'
  <2> SUFFICES ASSUME Compactions(path) # {}
               PROVE  Recent(path', KeptIn(path', path'[Previous(path')].first, Previous(path') - 1))
    BY <1>5 DEF NewestIsRecent
  <2> DEFINE last == Previous(path)
             from == path[last].first
  <2>1. last \in 1..Len(path) /\ from \in 1..last /\ path'[last] = path[last]
    BY <1>5 DEF RecentInv, Placed, KeptIsInFront
  <2>2. last - 1 \in Nat /\ from \in Nat \ {0} /\ \A i \in 1..(last - 1) : path'[i] = path[i]
    BY <1>2, <1>5, <2>1
  <2>3. Recent(path, KeptIn(path, from, last - 1))
    BY DEF RecentInv, NewestIsRecent
  <2> HIDE DEF last, from
  <2>4. Recent(path', KeptIn(path', from, last - 1))
    BY <2>2, <2>3, RecentCarries
  <2> QED
    BY <1>5, <2>1, <2>4 DEF last, from
<1> QED
  BY <1>3, <1>4, <1>6, <1>7 DEF RecentInv

LEMMA CompactKeepsRecent ==
  ASSUME CompactionAssumption, RecentInv, Compact
  PROVE  RecentInv'
<1> DEFINE start == BoundaryStart(path)
           first == FirstKept(path, start)
           n == Len(path)
<1>1. PICK e \in EntryType :
        /\ path' = Append(path, e) /\ path # <<>> /\ e.kind = "compaction"
        /\ e.first = first /\ first \in 1..n
  BY CompactAdds DEF RecentInv
<1>2. path \in Seq(EntryType) /\ n \in Nat /\ Typed
  BY DEF RecentInv, Placed, Typed
<1>3. start \in 1..n /\ path[start].kind # "toolResult"
  BY <1>1, BoundaryInRange, BoundaryIsNoResult DEF RecentInv
<1>4. path[first].kind # "toolResult"
  BY <1>2, <1>3, FirstKeptIsNoResult
<1>5. Recent(path, KeptIn(path, first, n))
  BY <1>3, KeptIsRecent DEF RecentInv
<1>6. first \in Nat \ {0}
  BY <1>1, <1>2
<1> HIDE DEF start, first
<1>7. /\ path'[n + 1] = e /\ \A i \in 1..n : path'[i] = path[i]
      /\ Compactions(path') = Compactions(path) \cup {n + 1}
  BY <1>1, <1>2, Appended
<1>8. Previous(path') = n + 1
  BY <1>1, <1>2, NewestAfterAppend
<1>9. Placed'
  BY <1>1, PlacedGrows DEF RecentInv
<1>10. ResultsBehindCalls'
  BY <1>1, <1>2, ResultsStayBehindCalls DEF RecentInv
<1>11. StartsWithoutResult'
  <2>1. ASSUME NEW c \in Compactions(path) PROVE path'[path'[c].first] = path[path[c].first]
    <3>1. c \in 1..n /\ path[c].first \in 1..c
      BY <1>2 DEF RecentInv, Placed, KeptIsInFront, Compactions
    <3>2. path[c].first \in 1..n
      BY <1>2, <3>1
    <3> QED
      BY <1>7, <3>1, <3>2
  <2>2. path'[path'[n + 1].first].kind # "toolResult"
    BY <1>1, <1>4, <1>7
  <2> QED
    BY <1>7, <2>1, <2>2 DEF RecentInv, StartsWithoutResult
<1>12. NewestIsRecent'
  <2>1. Recent(path', KeptIn(path', first, n))
    BY <1>2, <1>5, <1>6, <1>7, RecentCarries
  <2>2. Previous(path') - 1 = n /\ path'[Previous(path')].first = first
    BY <1>1, <1>2, <1>7, <1>8
  <2> QED
    BY <2>1, <2>2 DEF NewestIsRecent
<1> QED
  BY <1>9, <1>10, <1>11, <1>12 DEF RecentInv

LEMMA RecentInit == Init => RecentInv
<1> SUFFICES ASSUME path = <<>> PROVE RecentInv
  BY DEF Init
<1>1. path \in Seq(EntryType) /\ Compactions(path) = {} /\ Len(path) = 0
  BY DEF Compactions
<1> QED
  BY <1>1 DEF RecentInv, Placed, Typed, KeptIsInFront, ResultsBehindCalls,
      StartsWithoutResult, NewestIsRecent

LEMMA RecentNext ==
  ASSUME CompactionAssumption
  PROVE  RecentInv /\ [Next]_path => RecentInv'
<1> SUFFICES ASSUME RecentInv, [Next]_path PROVE RecentInv'
  OBVIOUS
<1>1. CASE AppendEntry
  BY <1>1, AppendKeepsRecent
<1>2. CASE Compact
  BY <1>2, CompactKeepsRecent
<1>3. CASE UNCHANGED path
  BY <1>3 DEF RecentInv, Placed, Typed, KeptIsInFront, ResultsBehindCalls,
      StartsWithoutResult, NewestIsRecent, Compactions, Previous
<1> QED
  BY <1>1, <1>2, <1>3 DEF Next

\* For every path and however often it is compacted: the newest compaction keeps
\* no result without its call, and no more than the recent messages asked for and
\* one, unless nothing can be cut behind the last call (findCutPoint).
THEOREM RecentTheorem ==
  ASSUME CompactionAssumption
  PROVE  Spec => []KeepsWhatIsRecent
<1>1. RecentInv => KeepsWhatIsRecent
  BY RecentByTotal DEF RecentInv
<1> QED
  BY <1>1, RecentInit, RecentNext, PTL DEF Spec

-----------------------------------------------------------------------------
(* The context of the agent in a Slack channel (MomChannel).                *)

CONSTANTS MaxMessages, MaxBackfill, MaxRepeats, MaxEvents, QueueLimit, Environment
VARIABLES status, said, startup, since, log, context, answered, queue, run, events
Channel == INSTANCE MomChannel

LEMMA FunctionIsSeq ==
  ASSUME NEW T, NEW n \in Nat, NEW f \in [1..n -> T]
  PROVE  f \in Seq(T) /\ Len(f) = n
<1>1. f \in Seq(T)
  BY SeqDef
<1>2. Len(f) \in Nat /\ 1..Len(f) = 1..n
  BY <1>1, LenProperties
<1>3. n > Len(f) => n \in 1..n /\ n \notin 1..Len(f)
  BY <1>2
<1>4. n < Len(f) => Len(f) \in 1..Len(f) /\ Len(f) \notin 1..n
  BY <1>2
<1> QED
  BY <1>1, <1>2, <1>3, <1>4

LEMMA ChannelOperators ==
  /\ \A S : Channel!Cardinality(S) = Cardinality(S) /\ Channel!Max(S) = Max(S)
  /\ \A f : Channel!Range(f) = {f[i] : i \in DOMAIN f}
BY DEF Channel!Cardinality, Cardinality, Channel!Max, Max, Channel!Range

\* The numbers of S in order, all of them.
Enumerates(f, S) ==
  /\ f \in [1..Cardinality(S) -> S]
  /\ \A x \in S : \E i \in 1..Cardinality(S) : f[i] = x
  /\ \A i, j \in 1..Cardinality(S) : i < j => f[i] < f[j]

LEMMA OrderExists ==
  ASSUME NEW n \in Nat, NEW S, S \subseteq 1..n
  PROVE  IsFiniteSet(S) /\ \E f : Enumerates(f, S)
<1> DEFINE Ordered(T) == \E f : Enumerates(f, T)
           Bad == {k \in Nat : \E T \in SUBSET (1..n) : Cardinality(T) = k /\ ~Ordered(T)}
<1>1. ASSUME NEW T, T \subseteq 1..n
      PROVE  IsFiniteSet(T) /\ Cardinality(T) \in Nat
  <2>1. IsFiniteSet(1..n)
    BY FS_Interval
  <2> QED
    BY <1>1, <2>1, FS_Subset, FS_CardinalityType
<1>2. ASSUME NEW k \in Bad, \A j \in Bad : k <= j
      PROVE  FALSE
  <2>1. PICK T \in SUBSET (1..n) : Cardinality(T) = k /\ ~Ordered(T)
    BY <1>2
  <2>2. CASE T = {}
    <3>1. Cardinality(T) = 0
      BY <2>2, FS_EmptySet
    <3> DEFINE f == [i \in 1..0 |-> 0]
    <3>2. f \in [1..0 -> T] /\ 1..0 = {}
      BY <2>2
    <3>3. Enumerates(f, T)
      BY <2>2, <3>1, <3>2 DEF Enumerates
    <3> QED
      BY <2>1, <3>3
  <2>3. CASE T # {}
    <3> DEFINE m == Max(T)
               U == T \ {m}
               u == Cardinality(U)
    <3>1. m \in T /\ \A y \in T : m >= y
      <4>1. T \subseteq 0..n
        BY <2>1
      <4> QED
        BY <2>3, <4>1, MaxExists
    <3> HIDE DEF m
    <3>2. U \in SUBSET (1..n) /\ u \in Nat /\ Cardinality(T) = u + 1
      <4>1. U \subseteq 1..n
        BY <2>1
      <4>2. U \cup {m} = T /\ m \notin U
        BY <3>1
      <4>3. IsFiniteSet(U) /\ u \in Nat
        BY <1>1, <4>1
      <4> HIDE DEF U
      <4>4. Cardinality(U \cup {m}) = Cardinality(U) + 1
        BY <4>2, <4>3, FS_AddElement
      <4> QED
        BY <4>1, <4>2, <4>3, <4>4
    <3>3. u \notin Bad
      BY <1>2, <2>1, <3>2
    <3>4. Ordered(U)
      BY <3>2, <3>3
    <3>5. PICK g : Enumerates(g, U)
      BY <3>4
    <3> DEFINE f == [i \in 1..(u + 1) |-> IF i = u + 1 THEN m ELSE g[i]]
    <3>6. g \in [1..u -> U] /\ u \in Nat
      BY <3>2, <3>5 DEF Enumerates
    <3>7. \A i \in 1..(u + 1) : i \in 1..u \/ i = u + 1
      BY <3>6
    <3>8. f[u + 1] = m /\ \A i \in 1..u : f[i] = g[i] /\ g[i] \in U
      <4> HIDE DEF u, U
      <4> QED BY <3>6
    <3>9. f \in [1..(u + 1) -> T]
      BY <3>1, <3>6, <3>7
    <3>10. \A x \in T : \E i \in 1..(u + 1) : f[i] = x
      <4> SUFFICES ASSUME NEW x \in T PROVE \E i \in 1..(u + 1) : f[i] = x
        OBVIOUS
      <4>1. CASE x = m
        BY <3>6, <3>8, <4>1
      <4>2. CASE x # m
        <5>1. PICK i \in 1..u : g[i] = x
          BY <3>5, <4>2 DEF Enumerates
        <5> QED
          BY <3>6, <3>8, <5>1
      <4> QED BY <4>1, <4>2
    <3>11. \A i, j \in 1..(u + 1) : i < j => f[i] < f[j]
      <4> SUFFICES ASSUME NEW i \in 1..(u + 1), NEW j \in 1..(u + 1), i < j
                   PROVE  f[i] < f[j]
        OBVIOUS
      <4>1. i \in 1..u
        BY <3>6
      <4>2. CASE j = u + 1
        <5>1. \A x \in T : x \in Int
          BY <2>1
        <5>2. g[i] \in T /\ g[i] # m
          BY <3>8, <4>1
        <5>3. f[i] = g[i] /\ f[j] = m
          BY <3>8, <4>1, <4>2
        <5>4. g[i] \in Int /\ m \in Int /\ m >= g[i] /\ g[i] # m
          BY <3>1, <5>1, <5>2
        <5> HIDE DEF f
        <5> QED
          BY <5>3, <5>4
      <4>3. CASE j \in 1..u
        <5>1. g[i] < g[j]
          BY <3>5, <4>1, <4>3 DEF Enumerates
        <5> HIDE DEF f
        <5> QED
          BY <3>8, <4>1, <4>3, <5>1
      <4> QED BY <3>7, <4>2, <4>3
    <3> HIDE DEF f, u
    <3>12. Enumerates(f, T)
      BY <3>2, <3>9, <3>10, <3>11 DEF Enumerates
    <3> QED
      BY <2>1, <3>12
  <2> QED BY <2>2, <2>3
<1>3. Bad = {}
  <2>1. Bad \subseteq Nat
    OBVIOUS
  <2> HIDE DEF Bad
  <2>2. Bad # {} => Min(Bad) \in Bad /\ \A j \in Bad : Min(Bad) <= j
    BY <2>1, MinExists
  <2> QED BY <1>2, <2>2
<1>4. IsFiniteSet(S) /\ Cardinality(S) \in Nat
  BY <1>1
<1>5. Ordered(S)
  BY <1>3, <1>4
<1> QED BY <1>4, <1>5

LEMMA InOrderIs ==
  ASSUME NEW n \in Nat, NEW S, S \subseteq 1..n
  PROVE  Enumerates(Channel!InOrder(S), S)
<1> DEFINE P(f) == /\ f \in [1..Cardinality(S) -> S]
                   /\ {f[i] : i \in DOMAIN f} = S
                   /\ \A i, j \in DOMAIN f : i < j => f[i] < f[j]
<1>1. \A f : Enumerates(f, S) <=> P(f)
  BY DEF Enumerates
<1>2. \E f : P(f)
  BY <1>1, OrderExists
<1>3. Channel!InOrder(S) = CHOOSE f : P(f)
  BY ChannelOperators DEF Channel!InOrder
<1> HIDE DEF P
<1> QED
  BY <1>1, <1>2, <1>3

-----------------------------------------------------------------------------
LogLines == [ts : Nat, bot : BOOLEAN]
Texts == {"name"} \X Nat
Named(m) == <<"name", m>>
Phases == {"idle", "posting", "preparing", "prompting", "reporting"}
RunRecords == [phase : Phases, message : Nat, synced : SUBSET Nat]
Plain == [text : Nat, known : BOOLEAN]

\* Each message says something new, and users are known to the bot.
SaidIsPlain(messages) ==
  /\ messages \in Seq(Plain)
  /\ \A m \in 1..Len(messages) : messages[m] = Channel!Message(m, TRUE)

\* A log of n messages, in any order and some of them again.
LogFits(ls, n) ==
  /\ ls \in Seq(LogLines)
  /\ \A i \in 1..Len(ls) : ls[i].ts <= n /\ (ls[i].bot \/ ls[i].ts # 0)

LoggedIn(ls) == {ls[i].ts : i \in {j \in 1..Len(ls) : ~ls[j].bot}}

\* What was said behind the message from is logged, or it is newer than any line and
\* the bot has yet to ask for it.
MissesNothing(ls, n, from, up) ==
  \A m \in 1..n :
    \/ m \in LoggedIn(ls) \/ m <= from
    \/ ~up /\ \A i \in 1..Len(ls) : ls[i].ts < m

\* What the context holds, each once and each of what was said.
Known(texts) == {texts[i] : i \in 1..Len(texts)}
ContextFits(texts, n) ==
  /\ texts \in Seq(Texts) /\ Known(texts) \subseteq {Named(m) : m \in 1..n}
  /\ \A i, j \in 1..Len(texts) : texts[i] = texts[j] => i = j

\* A run goes on while the bot is up. The message it answers is new to the context
\* until it is prompted, when all that was logged before is known.
RunFits(r, texts, n, up) ==
  /\ r.phase \in Phases /\ r.message \in 0..n /\ r.synced \subseteq 1..n
  /\ r.phase = "idle" \/ up
  /\ r.phase \in {"posting", "preparing"} /\ r.message # 0 => Named(r.message) \notin Known(texts)
  /\ r.phase = "preparing" => \A m \in r.synced : m = r.message \/ Named(m) \in Known(texts)
  /\ r.phase = "prompting" =>
       \A m \in r.synced \cup ({r.message} \ {0}) : Named(m) \in Known(texts)

Up == status = "up"
ChannelInv ==
  /\ SaidIsPlain(said) /\ LogFits(log, Len(said)) /\ MissesNothing(log, Len(said), since, Up)
  /\ ContextFits(context, Len(said)) /\ RunFits(run, context, Len(said), Up)
  /\ status \in {"down", "starting", "up"} /\ run \in RunRecords
  /\ startup \in Nat /\ since \in Nat

LEMMA LineIs ==
  ASSUME NEW ls \in Seq(LogLines)
  PROVE  \A i \in 1..Len(ls) : ls[i].ts \in Nat /\ ls[i].bot \in BOOLEAN
<1>1. \A i \in 1..Len(ls) : ls[i] \in LogLines
  BY ElementOfSeq
<1> QED
  BY <1>1 DEF LogLines

LEMMA ChannelTyped ==
  ASSUME ChannelInv
  PROVE  /\ Len(said) \in Nat /\ DOMAIN said = 1..Len(said)
         /\ Len(log) \in Nat /\ DOMAIN log = 1..Len(log)
         /\ Len(context) \in Nat /\ DOMAIN context = 1..Len(context)
         /\ Channel!Logged = LoggedIn(log) /\ LoggedIn(log) \subseteq 1..Len(said)
         /\ \A m \in 1..Len(said) :
              Channel!LoggedText(m) = Named(m) /\ Channel!PromptText(m) = Named(m)
<1>1. /\ Len(said) \in Nat /\ DOMAIN said = 1..Len(said)
      /\ Len(log) \in Nat /\ DOMAIN log = 1..Len(log)
      /\ Len(context) \in Nat /\ DOMAIN context = 1..Len(context)
  BY LenProperties DEF ChannelInv, SaidIsPlain, LogFits, ContextFits
<1>2. Channel!Logged = LoggedIn(log)
  BY <1>1 DEF Channel!Logged, LoggedIn
<1>3. LoggedIn(log) \subseteq 1..Len(said)
  <2>1. \A i \in 1..Len(log) : log[i] \in LogLines
    BY ElementOfSeq DEF ChannelInv, LogFits
  <2> QED
    BY <1>1, <2>1 DEF ChannelInv, LogFits, LoggedIn, LogLines
<1>4. ASSUME NEW m \in 1..Len(said)
      PROVE  Channel!LoggedText(m) = Named(m) /\ Channel!PromptText(m) = Named(m)
  <2>1. said[m].known /\ said[m].text = m
    <3>1. said[m] = [text |-> m, known |-> TRUE]
      BY DEF ChannelInv, SaidIsPlain, Channel!Message
    <3> QED BY <3>1
  <2> QED
    BY <2>1 DEF Channel!LoggedText, Channel!PromptText, Named
<1> QED
  BY <1>1, <1>2, <1>3, <1>4

LEMMA LinesAdded ==
  ASSUME NEW n \in Nat, NEW k \in Nat, n <= k, NEW ls, LogFits(ls, n), NEW more \in Seq(LogLines),
         \A i \in 1..Len(more) : more[i].ts <= k /\ (more[i].bot \/ more[i].ts # 0)
  PROVE  /\ LogFits(ls \o more, k)
         /\ LoggedIn(ls \o more) = LoggedIn(ls) \cup LoggedIn(more)
<1> DEFINE all == ls \o more
           l == Len(ls)
<1>1. ls \in Seq(LogLines) /\ l \in Nat /\ Len(more) \in Nat
  BY LenProperties DEF LogFits
<1>2. /\ all \in Seq(LogLines) /\ Len(all) = l + Len(more)
      /\ \A i \in 1..(l + Len(more)) : all[i] = IF i <= l THEN ls[i] ELSE more[i - l]
  BY <1>1, ConcatProperties
<1>3. /\ \A i \in 1..l : i \in 1..Len(all) /\ all[i] = ls[i]
      /\ \A i \in 1..Len(more) : i + l \in 1..Len(all) /\ all[i + l] = more[i]
  BY <1>1, <1>2
<1>4. \A i \in 1..Len(all) : i \in 1..l \/ (i - l \in 1..Len(more) /\ i = (i - l) + l)
  BY <1>1, <1>2
<1>5. /\ \A i \in 1..l : ls[i].ts \in Nat /\ ls[i].bot \in BOOLEAN
      /\ \A i \in 1..Len(more) : more[i].ts \in Nat /\ more[i].bot \in BOOLEAN
  BY <1>1, LineIs
<1> HIDE DEF all, l
<1>6. \A i \in 1..Len(all) : all[i].ts <= k /\ (all[i].bot \/ all[i].ts # 0)
  <2> SUFFICES ASSUME NEW i \in 1..Len(all) PROVE all[i].ts <= k /\ (all[i].bot \/ all[i].ts # 0)
    OBVIOUS
  <2>1. CASE i \in 1..l
    BY <1>3, <1>5, <2>1 DEF LogFits, l
  <2>2. CASE i - l \in 1..Len(more) /\ i = (i - l) + l
    BY <1>3, <1>5, <2>2
  <2> QED BY <1>4, <2>1, <2>2
<1>7. LoggedIn(all) = LoggedIn(ls) \cup LoggedIn(more)
  <2>1. LoggedIn(all) \subseteq LoggedIn(ls) \cup LoggedIn(more)
    <3> SUFFICES ASSUME NEW i \in 1..Len(all), ~all[i].bot
                 PROVE  all[i].ts \in LoggedIn(ls) \cup LoggedIn(more)
      BY DEF LoggedIn
    <3>1. CASE i \in 1..l
      BY <1>3, <3>1 DEF LoggedIn, l
    <3>2. CASE i - l \in 1..Len(more) /\ i = (i - l) + l
      BY <1>3, <3>2 DEF LoggedIn
    <3> QED BY <1>4, <3>1, <3>2
  <2>2. LoggedIn(ls) \subseteq LoggedIn(all) /\ LoggedIn(more) \subseteq LoggedIn(all)
    BY <1>3 DEF LoggedIn, l
  <2> QED BY <2>1, <2>2
<1> QED
  BY <1>2, <1>6, <1>7 DEF LogFits, all

\* A line of a message of the channel, whether it has one or not.
LEMMA LineAdded ==
  ASSUME NEW n \in Nat, NEW k \in Nat, n <= k, NEW ls, LogFits(ls, n), NEW m \in 1..k
  PROVE  /\ LogFits(Append(ls, Channel!UserLine(m)), k)
         /\ LoggedIn(Append(ls, Channel!UserLine(m))) = LoggedIn(ls) \cup {m}
<1> DEFINE line == Channel!UserLine(m)
           more == <<line>>
<1>1. line \in LogLines /\ line.ts = m /\ ~line.bot
  <2>1. Channel!UserLine(m) = [ts |-> m, bot |-> FALSE] /\ m \in Nat
    BY DEF Channel!UserLine
  <2> QED
    BY <2>1 DEF LogLines
<1> HIDE DEF line
<1>2. more \in Seq(LogLines) /\ Len(more) = 1 /\ more[1] = line
  BY <1>1
<1>3. Append(ls, line) = ls \o more
  BY <1>1, AppendIsConcat DEF LogFits
<1> HIDE DEF more
<1>4. LoggedIn(more) = {m}
  BY <1>1, <1>2 DEF LoggedIn
<1>5. \A i \in 1..Len(more) : more[i].ts <= k /\ (more[i].bot \/ more[i].ts # 0)
  BY <1>1, <1>2
<1>6. LogFits(ls \o more, k) /\ LoggedIn(ls \o more) = LoggedIn(ls) \cup LoggedIn(more)
  <2>1. LogFits(ls, n) /\ n \in Nat /\ k \in Nat /\ n <= k /\ more \in Seq(LogLines)
    BY <1>2
  <2> QED
    BY <1>5, <2>1, LinesAdded
<1> QED
  BY <1>3, <1>4, <1>6 DEF line

LEMMA MoreSaid ==
  ASSUME NEW n \in Nat, NEW ls, NEW texts, NEW r, NEW up,
         LogFits(ls, n), ContextFits(texts, n), RunFits(r, texts, n, up)
  PROVE  /\ LogFits(ls, n + 1) /\ ContextFits(texts, n + 1) /\ RunFits(r, texts, n + 1, up)
         /\ Named(n + 1) \notin Known(texts)
<1>1. LogFits(ls, n + 1)
  <2>1. \A i \in 1..Len(ls) : ls[i].ts \in Nat
    BY LineIs DEF LogFits
  <2> QED
    BY <2>1 DEF LogFits
<1>2. 1..n \subseteq 1..(n + 1) /\ n + 1 \notin 1..n
  OBVIOUS
<1>3. ContextFits(texts, n + 1)
  BY <1>2 DEF ContextFits
<1>4. RunFits(r, texts, n + 1, up)
  BY <1>2 DEF RunFits
<1>5. Named(n + 1) \notin Known(texts)
  BY <1>2 DEF ContextFits, Named
<1> QED
  BY <1>1, <1>3, <1>4, <1>5

LEMMA RunStarts ==
  ASSUME NEW n \in Nat, NEW m \in 0..n, NEW texts, NEW up
  PROVE  /\ RunFits(Channel!Idle, texts, n, up)
         /\ up /\ (m = 0 \/ Named(m) \notin Known(texts)) =>
              RunFits(Channel!Started(m), texts, n, up)
         /\ Channel!Idle \in RunRecords
         /\ Channel!Started(m) \in RunRecords
<1>1. /\ Channel!Idle = [phase |-> "idle", message |-> 0, synced |-> {}]
      /\ Channel!Started(m) = [phase |-> "posting", message |-> m, synced |-> {}]
  <2>1. Channel!Idle = [phase |-> "idle", message |-> 0, synced |-> {}]
    BY DEF Channel!Idle
  <2>2. Channel!Started(m) = [Channel!Idle EXCEPT !.phase = "posting", !.message = m]
    BY DEF Channel!Started
  <2> QED BY <2>1, <2>2
<1>2. m \in Nat /\ "idle" \in Phases /\ "posting" \in Phases
  BY DEF Phases
<1>3. RunFits(Channel!Idle, texts, n, up)
  BY <1>1 DEF RunFits, Phases
<1>4. up /\ (m = 0 \/ Named(m) \notin Known(texts)) => RunFits(Channel!Started(m), texts, n, up)
  BY <1>1 DEF RunFits, Phases
<1> QED
  BY <1>1, <1>2, <1>3, <1>4 DEF RunRecords

LEMMA SayKeeps ==
  ASSUME ChannelInv, Environment \subseteq {"crash"}, NEW toBot \in BOOLEAN, NEW known \in BOOLEAN,
         NEW text \in 1..MaxMessages, Channel!Say(toBot, text, known)
  PROVE  ChannelInv'
<1> DEFINE n == Len(said)
<1>1. n \in Nat
  BY ChannelTyped
<1>2. /\ known /\ text = n + 1 /\ said' = Append(said, Channel!Message(n + 1, TRUE))
      /\ UNCHANGED <<status, startup, since, context>>
  BY DEF Channel!Say
<1>3. SaidIsPlain(said') /\ Len(said') = n + 1
  <2>1. Channel!Message(n + 1, TRUE) \in Plain /\ said \in Seq(Plain)
    BY <1>1 DEF Channel!Message, Plain, ChannelInv, SaidIsPlain
  <2>2. /\ said' \in Seq(Plain) /\ Len(said') = n + 1
        /\ \A i \in 1..n : said'[i] = said[i]
        /\ said'[n + 1] = Channel!Message(n + 1, TRUE)
    <3> DEFINE m == Channel!Message(n + 1, TRUE)
    <3>1. m \in Plain /\ said' = Append(said, m)
      BY <1>2, <2>1
    <3> HIDE DEF m
    <3>2. /\ Append(said, m) \in Seq(Plain)
          /\ Len(Append(said, m)) = Len(said) + 1
          /\ \A i \in 1..Len(said) : Append(said, m)[i] = said[i]
          /\ Append(said, m)[Len(said) + 1] = m
      BY <2>1, <3>1, AppendProperties
    <3> QED
      BY <3>1, <3>2 DEF m
  <2>3. \A i \in 1..(n + 1) : i \in 1..n \/ i = n + 1
    BY <1>1
  <2>4. \A i \in 1..n : said[i] = Channel!Message(i, TRUE)
    BY DEF ChannelInv, SaidIsPlain
  <2> HIDE DEF n
  <2> QED
    BY <2>2, <2>3, <2>4 DEF SaidIsPlain
<1>4. /\ LogFits(log, n + 1) /\ ContextFits(context, n + 1) /\ RunFits(run, context, n + 1, Up)
      /\ Named(n + 1) \notin Known(context)
  BY <1>1, MoreSaid DEF ChannelInv
<1>5. CASE Up
  <2>1. log' = Append(log, Channel!UserLine(n + 1))
    BY <1>5 DEF Channel!Say, Channel!Deliver, Up
  <2>2. RunFits(run', context, n + 1, Up) /\ run' \in RunRecords
    <3>1. run' = run \/ run' = Channel!Started(n + 1)
      BY <1>5 DEF Channel!Say, Channel!Deliver, Up
    <3>2. n + 1 \in Nat /\ n + 1 \in 0..(n + 1)
      BY <1>1
    <3> QED
      BY <1>4, <1>5, <3>1, <3>2, RunStarts DEF ChannelInv
  <2>3. LogFits(log', n + 1) /\ LoggedIn(log') = LoggedIn(log) \cup {n + 1}
    <3>1. n + 1 \in Nat /\ n <= n + 1 /\ n + 1 \in 1..(n + 1) /\ LogFits(log, n)
      BY <1>1 DEF ChannelInv
    <3> HIDE DEF n
    <3> QED
      BY <1>1, <2>1, <3>1, LineAdded
  <2>4. MissesNothing(log', n + 1, since, TRUE)
    <3> SUFFICES ASSUME NEW m \in 1..(n + 1)
                 PROVE  m \in LoggedIn(log') \/ m <= since
      BY DEF MissesNothing
    <3>1. CASE m = n + 1
      BY <2>3, <3>1
    <3>2. CASE m \in 1..n
      BY <1>5, <2>3, <3>2 DEF ChannelInv, MissesNothing
    <3> QED BY <1>1, <3>1, <3>2
  <2> QED
    BY <1>2, <1>3, <1>4, <1>5, <2>2, <2>3, <2>4 DEF ChannelInv, Up
<1>6. CASE ~Up
  <2>1. log' = log /\ run' = run
    BY <1>6 DEF Channel!Say, Up
  <2>2. \A j \in 1..Len(log) : log[j].ts \in Nat /\ log[j].ts <= n
    BY LineIs DEF ChannelInv, LogFits
  <2>3. MissesNothing(log, n + 1, since, FALSE)
    <3> SUFFICES ASSUME NEW m \in 1..(n + 1)
                 PROVE  m \in LoggedIn(log) \/ m <= since \/ \A i \in 1..Len(log) : log[i].ts < m
      BY DEF MissesNothing
    <3>1. CASE m = n + 1
      BY <1>1, <2>2, <3>1
    <3>2. CASE m \in 1..n
      BY <3>2 DEF ChannelInv, MissesNothing
    <3> QED BY <1>1, <3>1, <3>2
  <2> QED
    BY <1>2, <1>3, <1>4, <1>6, <2>1, <2>3 DEF ChannelInv, Up
<1> QED BY <1>5, <1>6

\* What is delivered again is old, so that it starts nothing and tells the context
\* nothing new.
LEMMA ReplayKeeps ==
  ASSUME ChannelInv, Environment \subseteq {"crash"}, NEW toBot \in BOOLEAN,
         NEW m \in 1..MaxMessages, Channel!Replay(m, toBot)
  PROVE  ChannelInv'
<1> DEFINE n == Len(said)
<1>1. n \in Nat /\ m \in 1..n
  BY ChannelTyped DEF Channel!Replay
<1>2. /\ Up /\ m <= startup /\ startup \in Nat
      /\ log' = Append(log, Channel!UserLine(m))
      /\ UNCHANGED <<status, said, startup, since, context>>
  BY DEF Channel!Replay, Channel!Deliver, ChannelInv, Up
<1>3. run' = run
  <2>1. ~(m > startup) /\ "hasty" \notin Environment
    BY <1>1, <1>2
  <2> QED
    BY <2>1 DEF Channel!Replay, Channel!Deliver
<1>4. LogFits(log', n) /\ LoggedIn(log) \subseteq LoggedIn(log')
  <2>1. LogFits(log, n) /\ n <= n
    BY <1>1 DEF ChannelInv
  <2> HIDE DEF n
  <2> QED
    BY <1>1, <1>2, <2>1, LineAdded
<1>5. MissesNothing(log', n, since, TRUE)
  BY <1>2, <1>4 DEF ChannelInv, MissesNothing
<1> QED
  BY <1>2, <1>3, <1>4, <1>5 DEF ChannelInv, Up

LEMMA RunGoes ==
  ASSUME ChannelInv, UNCHANGED <<status, said, startup, since, log, context>>,
         RunFits(run', context, Len(said), Up),
         run' \in RunRecords
  PROVE  ChannelInv'
BY DEF ChannelInv, SaidIsPlain, Up

\* handleEvent returns while the bot is up.
LEMMA EndFits ==
  ASSUME ChannelInv, Up, Channel!RunEnds, NEW texts
  PROVE  /\ RunFits(run', texts, Len(said), Up)
         /\ run' \in RunRecords
<1>1. run' = Channel!Started(0) \/ run' = Channel!Idle
  BY DEF Channel!RunEnds
<1>2. Len(said) \in Nat /\ 0 \in 0..Len(said)
  BY ChannelTyped
<1> QED
  BY <1>1, <1>2, RunStarts

LEMMA EventKeeps ==
  ASSUME ChannelInv, Environment \subseteq {"crash"}, Channel!EventDue
  PROVE  ChannelInv'
<1>1. Up /\ (run' = run \/ run' = Channel!Started(0))
  BY DEF Channel!EventDue, Up
<1>2. Len(said) \in Nat /\ 0 \in 0..Len(said)
  BY ChannelTyped
<1>3. /\ RunFits(run', context, Len(said), Up)
      /\ run' \in RunRecords
  BY <1>1, <1>2, RunStarts DEF ChannelInv
<1> QED
  BY <1>3, RunGoes DEF Channel!EventDue

LEMMA ReportKeeps ==
  ASSUME ChannelInv, Channel!Report
  PROVE  ChannelInv'
<1>1. Up
  BY DEF Channel!Report, ChannelInv, RunFits
<1> QED
  BY <1>1, EndFits, RunGoes DEF Channel!Report

\* What the context takes up besides is new to it.
LEMMA ContextGrows ==
  ASSUME NEW n \in Nat, NEW texts, ContextFits(texts, n), NEW more \in Seq(Texts),
         Known(more) \subseteq {Named(m) : m \in 1..n}, Known(more) \cap Known(texts) = {},
         \A i, j \in 1..Len(more) : more[i] = more[j] => i = j
  PROVE  /\ ContextFits(texts \o more, n)
         /\ Known(texts \o more) = Known(texts) \cup Known(more)
<1> DEFINE all == texts \o more
           l == Len(texts)
<1>1. texts \in Seq(Texts) /\ l \in Nat /\ Len(more) \in Nat
  BY LenProperties DEF ContextFits
<1>2. /\ all \in Seq(Texts) /\ Len(all) = l + Len(more)
      /\ \A i \in 1..(l + Len(more)) : all[i] = IF i <= l THEN texts[i] ELSE more[i - l]
  BY <1>1, ConcatProperties
<1>3. /\ \A i \in 1..l : i \in 1..Len(all) /\ all[i] = texts[i]
      /\ \A i \in 1..Len(more) : i + l \in 1..Len(all) /\ all[i + l] = more[i]
  BY <1>1, <1>2
<1>4. \A i \in 1..Len(all) : i \in 1..l \/ (i - l \in 1..Len(more) /\ i = (i - l) + l)
  BY <1>1, <1>2
<1> HIDE DEF all, l
<1>5. Known(all) = Known(texts) \cup Known(more)
  <2>1. Known(all) \subseteq Known(texts) \cup Known(more)
    <3> SUFFICES ASSUME NEW i \in 1..Len(all)
                 PROVE  all[i] \in Known(texts) \cup Known(more)
      BY DEF Known
    <3>1. CASE i \in 1..l
      BY <1>3, <3>1 DEF Known, l
    <3>2. CASE i - l \in 1..Len(more) /\ i = (i - l) + l
      BY <1>3, <3>2 DEF Known
    <3> QED BY <1>4, <3>1, <3>2
  <2>2. Known(texts) \subseteq Known(all) /\ Known(more) \subseteq Known(all)
    BY <1>3 DEF Known, l
  <2> QED BY <2>1, <2>2
<1>6. \A i, j \in 1..Len(all) : all[i] = all[j] => i = j
  <2> SUFFICES ASSUME NEW i \in 1..Len(all), NEW j \in 1..Len(all), all[i] = all[j]
               PROVE  i = j
    OBVIOUS
  <2>1. \A k \in 1..l : texts[k] \in Known(texts)
    BY DEF Known, l
  <2>2. \A k \in 1..Len(more) : more[k] \in Known(more)
    BY DEF Known
  <2>3. CASE i \in 1..l /\ j \in 1..l
    BY <1>3, <2>3 DEF ContextFits, l
  <2>4. CASE i - l \in 1..Len(more) /\ i = (i - l) + l /\ j - l \in 1..Len(more) /\ j = (j - l) + l
    <3>1. more[i - l] = more[j - l]
      BY <1>3, <2>4
    <3>2. i - l = j - l
      BY <2>4, <3>1
    <3> QED BY <2>4, <3>2
  <2>5. CASE i \in 1..l /\ j - l \in 1..Len(more) /\ j = (j - l) + l
    BY <1>3, <2>1, <2>2, <2>5
  <2>6. CASE j \in 1..l /\ i - l \in 1..Len(more) /\ i = (i - l) + l
    BY <1>3, <2>1, <2>2, <2>6
  <2> QED BY <1>4, <2>3, <2>4, <2>5, <2>6
<1>7. Known(texts) \subseteq {Named(m) : m \in 1..n}
  BY DEF ContextFits
<1>8. ContextFits(all, n)
  BY <1>2, <1>5, <1>6, <1>7 DEF ContextFits
<1> QED
  BY <1>5, <1>8 DEF all

LEMMA SyncKeeps ==
  ASSUME ChannelInv, Channel!Sync
  PROVE  ChannelInv'
<1> DEFINE n == Len(said)
           new == Channel!Unsynced
           order == Channel!InOrder(new)
           more == [i \in 1..Cardinality(new) |-> Named(order[i])]
<1>1. /\ n \in Nat /\ Channel!Logged = LoggedIn(log) /\ LoggedIn(log) \subseteq 1..n
      /\ \A m \in 1..n : Channel!LoggedText(m) = Named(m)
      /\ Known(context) = Channel!Range(context)
  BY ChannelTyped, ChannelOperators DEF Known
<1>2. new = {m \in LoggedIn(log) \ {run.message} : Named(m) \notin Known(context)}
  BY <1>1 DEF Channel!Unsynced
<1>3. new \subseteq 1..n
  BY <1>1, <1>2
<1> HIDE DEF new
<1>4. {m \in new : \A o \in new : Channel!LoggedText(o) = Channel!LoggedText(m) => m <= o} = new
  <2>1. \A m, o \in new : Channel!LoggedText(o) = Channel!LoggedText(m) => m <= o
    <3> SUFFICES ASSUME NEW m \in new, NEW o \in new,
                        Channel!LoggedText(o) = Channel!LoggedText(m)
                 PROVE  m <= o
      OBVIOUS
    <3>1. Named(o) = Named(m) /\ m \in Int
      BY <1>1, <1>3
    <3> QED
      BY <3>1 DEF Named
  <2> QED BY <2>1
<1>5. Enumerates(order, new) /\ Cardinality(new) \in Nat
  BY <1>1, <1>3, InOrderIs, OrderExists, FS_CardinalityType
<1>6. order \in [1..Cardinality(new) -> new]
  BY <1>5 DEF Enumerates
<1>7. context' = context \o more
  <2>1. context' = context \o [i \in DOMAIN order |-> Channel!LoggedText(order[i])]
    BY <1>4 DEF Channel!Sync, new
  <2>2. DOMAIN order = 1..Cardinality(new) /\ \A i \in 1..Cardinality(new) : order[i] \in 1..n
    BY <1>3, <1>6
  <2>3. [i \in DOMAIN order |-> Channel!LoggedText(order[i])] = more
    BY <1>1, <2>2
  <2> QED BY <2>1, <2>3
<1>8. more \in Seq(Texts) /\ Len(more) = Cardinality(new)
  <2>0. \A i \in 1..Cardinality(new) : Named(order[i]) \in Texts
    <3> HIDE DEF order
    <3>1. \A i \in 1..Cardinality(new) : order[i] \in Nat
      <4>1. \A m \in new : m \in Nat
        BY <1>1, <1>3
      <4>2. \A i \in 1..Cardinality(new) : order[i] \in new
        BY <1>6
      <4> QED BY <4>1, <4>2
    <3> QED
      BY <3>1 DEF Named, Texts
  <2>1. more \in [1..Cardinality(new) -> Texts]
    BY <2>0
  <2> HIDE DEF more
  <2> QED
    BY <1>5, <2>1, FunctionIsSeq
<1>9. Known(more) = {Named(m) : m \in new}
  <2>1. Known(more) \subseteq {Named(m) : m \in new}
    BY <1>6, <1>8 DEF Known
  <2>2. ASSUME NEW m \in new PROVE Named(m) \in Known(more)
    <3>1. PICK i \in 1..Cardinality(new) : order[i] = m
      BY <1>5 DEF Enumerates
    <3>2. more[i] = Named(m)
      BY <3>1
    <3> HIDE DEF more
    <3> QED
      BY <1>8, <3>2 DEF Known
  <2> QED BY <2>1, <2>2
<1>10. \A i, j \in 1..Len(more) : more[i] = more[j] => i = j
  <2> SUFFICES ASSUME NEW i \in 1..Cardinality(new), NEW j \in 1..Cardinality(new),
                      more[i] = more[j]
               PROVE  i = j
    BY <1>8
  <2>1. order[i] = order[j]
    BY DEF Named
  <2> HIDE DEF order
  <2>2. order[i] \in Int /\ order[j] \in Int
    <3>1. order[i] \in new /\ order[j] \in new
      BY <1>6
    <3>2. \A m \in new : m \in Int
      BY <1>1, <1>3
    <3> QED BY <3>1, <3>2
  <2>3. ~(order[i] < order[j]) /\ ~(order[j] < order[i])
    BY <2>1, <2>2
  <2>4. ~(i < j) /\ ~(j < i)
    BY <1>5, <2>3 DEF Enumerates
  <2> QED BY <1>5, <2>4
<1> HIDE DEF more, order
<1>11. ContextFits(context', n) /\ Known(context') = Known(context) \cup {Named(m) : m \in new}
  <2>1. {Named(m) : m \in new} \subseteq {Named(m) : m \in 1..n}
    BY <1>3
  <2>2. {Named(m) : m \in new} \cap Known(context) = {}
    BY <1>2
  <2>3. ContextFits(context, n)
    BY DEF ChannelInv
  <2>4. Known(more) \subseteq {Named(m) : m \in 1..n} /\ Known(more) \cap Known(context) = {}
    BY <1>9, <2>1, <2>2
  <2>5. n \in Nat
    BY <1>1
  <2> HIDE DEF n
  <2>6. /\ ContextFits(context \o more, n)
        /\ Known(context \o more) = Known(context) \cup Known(more)
    BY <1>8, <1>10, <2>3, <2>4, <2>5, ContextGrows
  <2> QED
    BY <1>7, <1>9, <2>6
<1>12. /\ run' = [run EXCEPT !.phase = "preparing", !.synced = LoggedIn(log)] /\ run.phase = "posting"
       /\ UNCHANGED <<status, said, startup, since, log>>
  BY <1>1 DEF Channel!Sync
<1>13. /\ run' \in RunRecords /\ run'.phase = "preparing" /\ run'.message = run.message
       /\ run'.synced = LoggedIn(log)
  <2>1. run \in RunRecords /\ LoggedIn(log) \subseteq Nat /\ "preparing" \in Phases
    BY <1>1 DEF ChannelInv, Phases
  <2> QED
    BY <1>12, <2>1 DEF RunRecords
<1>14. \A m \in LoggedIn(log) : m = run.message \/ Named(m) \in Known(context')
  BY <1>2, <1>11
<1>15. Named(run.message) \notin {Named(m) : m \in new}
  BY <1>2 DEF Named
<1>16. RunFits(run', context', n, Up)
  <2>1. RunFits(run, context, n, Up)
    BY DEF ChannelInv
  <2>2. Up /\ run.message \in 0..n /\ (run.message # 0 => Named(run.message) \notin Known(context))
    BY <1>12, <2>1 DEF RunFits
  <2>3. run.message # 0 => Named(run.message) \notin Known(context')
    BY <1>11, <1>15, <2>2
  <2> HIDE DEF n
  <2> QED
    BY <1>1, <1>13, <1>14, <2>2, <2>3 DEF RunFits, Phases
<1> QED
  BY <1>11, <1>12, <1>13, <1>16 DEF ChannelInv, Up

LEMMA PromptKeeps ==
  ASSUME ChannelInv, Channel!Prompt
  PROVE  ChannelInv'
<1> DEFINE n == Len(said)
<1>1. /\ n \in Nat /\ \A m \in 1..n : Channel!PromptText(m) = Named(m)
      /\ UNCHANGED <<status, said, startup, since, log>> /\ run.phase = "preparing"
  BY ChannelTyped DEF Channel!Prompt
<1>2. /\ ContextFits(context, n) /\ RunFits(run, context, n, Up) /\ run \in RunRecords
  BY DEF ChannelInv
<1>3. Up /\ run.message \in 0..n /\ run.synced \subseteq 1..n
  BY <1>1, <1>2 DEF RunFits
<1>4. CASE Channel!RunEnds /\ UNCHANGED context
  BY <1>1, <1>3, <1>4, EndFits, RunGoes
<1>5. CASE /\ run' = [run EXCEPT !.phase = "prompting"]
           /\ context' = IF run.message = 0 THEN context
                         ELSE Append(context, Channel!PromptText(run.message))
  <2>1. /\ run' \in RunRecords /\ run'.phase = "prompting" /\ run'.message = run.message
        /\ run'.synced = run.synced
    <3>1. "prompting" \in Phases
      BY DEF Phases
    <3> QED
      BY <1>2, <1>5, <3>1 DEF RunRecords
  <2>2. \A m \in run.synced : m = run.message \/ Named(m) \in Known(context)
    BY <1>1, <1>2 DEF RunFits
  <2>3. CASE run.message = 0
    <3>1. context' = context /\ \A m \in run.synced : m # 0
      BY <1>3, <1>5, <2>3
    <3>2. RunFits(run', context', n, Up)
      BY <1>3, <2>1, <2>2, <2>3, <3>1 DEF RunFits, Phases
    <3> QED
      BY <1>1, <2>1, <3>1, <3>2, RunGoes
  <2>4. CASE run.message # 0
    <3> DEFINE e == Named(run.message)
               more == <<e>>
    <3>1. run.message \in 1..n /\ e \in Texts /\ e \notin Known(context)
      BY <1>1, <1>2, <1>3, <2>4 DEF RunFits, Named, Texts
    <3> HIDE DEF e
    <3>2. more \in Seq(Texts) /\ Len(more) = 1 /\ more[1] = e /\ Known(more) = {e}
      BY <3>1 DEF Known
    <3>3. context' = context \o more
      <4>1. context' = Append(context, e) /\ context \in Seq(Texts)
        BY <1>1, <1>2, <1>5, <2>4, <3>1 DEF ContextFits, e
      <4> QED
        BY <3>1, <4>1, AppendIsConcat
    <3> HIDE DEF more
    <3>4. /\ Known(more) \subseteq {Named(m) : m \in 1..n} /\ Known(more) \cap Known(context) = {}
          /\ \A i, j \in 1..Len(more) : more[i] = more[j] => i = j
      <4>1. e \in {Named(m) : m \in 1..n}
        BY <3>1 DEF e
      <4> QED BY <3>1, <3>2, <4>1
    <3>5. ContextFits(context', n) /\ Known(context') = Known(context) \cup {e}
      BY <1>1, <1>2, <3>2, <3>3, <3>4, ContextGrows
    <3>6. \A m \in run.synced \cup {run.message} : Named(m) \in Known(context')
      BY <2>2, <3>5 DEF e
    <3>7. RunFits(run', context', n, Up)
      BY <1>3, <2>1, <3>6 DEF RunFits, Phases
    <3> QED
      BY <1>1, <2>1, <3>5, <3>7 DEF ChannelInv, Up
  <2> QED BY <2>3, <2>4
<1> QED
  BY <1>4, <1>5 DEF Channel!Prompt

\* What the bot says is logged behind what was said last.
LEMMA AnswerKeeps ==
  ASSUME ChannelInv, Channel!Answer
  PROVE  ChannelInv'
<1> DEFINE n == Len(said)
           more == <<Channel!BotLine>>
<1>1. /\ UNCHANGED <<status, said, startup, since, context>> /\ run.phase = "prompting"
      /\ run' = [run EXCEPT !.phase = "reporting"]
      /\ log' = log \/ log' = Append(log, Channel!BotLine)
  BY DEF Channel!Answer
<1>2. n \in Nat /\ RunFits(run, context, n, Up) /\ run \in RunRecords /\ LogFits(log, n)
  BY ChannelTyped DEF ChannelInv
<1>3. Up /\ run' \in RunRecords /\ RunFits(run', context, n, Up)
  <2>1. "reporting" \in Phases
    BY DEF Phases
  <2>2. run' \in RunRecords /\ run'.phase = "reporting" /\ run'.message = run.message
        /\ run'.synced = run.synced
    BY <1>1, <1>2, <2>1 DEF RunRecords
  <2> QED
    BY <1>1, <1>2, <2>1, <2>2 DEF RunFits
<1>4. CASE log' = log
  BY <1>1, <1>3, <1>4, RunGoes
<1>5. CASE log' = Append(log, Channel!BotLine)
  <2>1. Channel!BotLine \in LogLines /\ log \in Seq(LogLines)
    BY <1>2 DEF Channel!BotLine, LogLines, LogFits
  <2>2. more \in Seq(LogLines) /\ Len(more) = 1 /\ more[1].ts = n /\ more[1].bot
    BY <2>1 DEF Channel!BotLine
  <2>3. log' = log \o more
    BY <1>5, <2>1, AppendIsConcat
  <2> HIDE DEF more
  <2> HIDE DEF n
  <2>4. LogFits(log', n) /\ LoggedIn(log') = LoggedIn(log) \cup LoggedIn(more)
    <3>1. \A i \in 1..Len(more) : more[i].ts <= n /\ (more[i].bot \/ more[i].ts # 0)
      BY <1>2, <2>2
    <3>2. n <= n
      BY <1>2
    <3> QED
      BY <1>2, <2>2, <2>3, <3>1, <3>2, LinesAdded
  <2>5. MissesNothing(log', n, since, TRUE)
    BY <1>3, <2>4 DEF ChannelInv, MissesNothing, n
  <2> QED
    BY <1>1, <1>3, <2>4, <2>5 DEF ChannelInv, Up, n
<1> QED BY <1>1, <1>4, <1>5

LEMMA DownKeeps ==
  ASSUME ChannelInv, UNCHANGED <<said, startup, since, log>>, status' \in {"down", "starting"},
         run' = Channel!Idle, context' = context \/ context' = <<>>
  PROVE  ChannelInv'
<1> DEFINE n == Len(said)
<1>1. n \in Nat /\ 0 \in 0..n
  BY ChannelTyped
<1>2. ContextFits(context', n)
  <2>1. ContextFits(<<>>, n)
    BY DEF ContextFits, Known
  <2> QED
    BY <2>1 DEF ChannelInv
<1>3. RunFits(run', context', n, FALSE) /\ run' \in RunRecords
  BY <1>1, RunStarts
<1>4. MissesNothing(log, n, since, FALSE)
  BY DEF ChannelInv, MissesNothing
<1>5. Up' = FALSE /\ status' \in {"down", "starting", "up"}
  BY DEF Up
<1> HIDE DEF n
<1>6. Len(said)' = n /\ SaidIsPlain(said') /\ LogFits(log', n)
      /\ MissesNothing(log', n, since', FALSE) /\ startup' \in Nat /\ since' \in Nat
  BY <1>4 DEF ChannelInv, n
<1> QED
  BY <1>2, <1>3, <1>5, <1>6 DEF ChannelInv

LEMMA CrashKeeps ==
  ASSUME ChannelInv, Channel!Crash
  PROVE  ChannelInv'
BY DownKeeps DEF Channel!Crash

\* A bot that is down runs nothing.
LEMMA DownIsIdle ==
  ASSUME ChannelInv, ~Up
  PROVE  run.phase = "idle"
BY DEF ChannelInv, RunFits

LEMMA RunPhase ==
  ASSUME NEW n \in Nat, NEW r, NEW texts, r.phase = "idle", RunFits(r, texts, n, FALSE)
  PROVE  RunFits(r, texts, n, TRUE)
BY DEF RunFits

LEMMA StartKeeps ==
  ASSUME ChannelInv, Channel!Start
  PROVE  ChannelInv'
<1>1. Up = FALSE /\ Up' = FALSE /\ status' = "starting"
      /\ UNCHANGED <<said, startup, since, log, context, run>>
  BY DEF Channel!Start, Up
<1> QED
  BY <1>1 DEF ChannelInv

LEMMA SinceGrows ==
  ASSUME NEW n \in Nat, NEW old \in Nat, MaxBackfill \in Nat, NEW few \in BOOLEAN, NEW new,
         new = IF few THEN old ELSE Max({old, n - MaxBackfill})
  PROVE  new \in Nat /\ old <= new /\ (few \/ n - MaxBackfill <= new)
<1>1. CASE few
  BY <1>1
<1>2. CASE ~few
  <2> DEFINE S == {old, n - MaxBackfill}
             Greatest(x) == x \in S /\ \A y \in S : x >= y
  <2>1. Greatest(old) \/ Greatest(n - MaxBackfill)
    OBVIOUS
  <2>2. Max(S) = CHOOSE x : Greatest(x)
    BY DEF Max
  <2>3. Greatest(Max(S))
    <3> HIDE DEF Greatest
    <3> QED BY <2>1, <2>2
  <2> QED BY <1>2, <2>3
<1> QED BY <1>1, <1>2

LEMMA ConnectKeeps ==
  ASSUME ChannelInv, Channel!ChannelAssumption, Environment \subseteq {"crash"}, Channel!Connect
  PROVE  ChannelInv'
<1> DEFINE n == Len(said)
<1>1. /\ Up = FALSE /\ Up' = TRUE /\ status' = "up" /\ UNCHANGED <<said, context, run>>
      /\ n \in Nat /\ startup' = n
      /\ \/ /\ log # <<>>
            /\ log' = log \o [i \in DOMAIN Channel!Backfill |-> Channel!UserLine(Channel!Backfill[i])]
            /\ since' = IF Cardinality(Channel!Behind) <= MaxBackfill THEN since
                        ELSE Max({since, n - MaxBackfill})
         \/ log = <<>> /\ log' = log /\ since' = n
  BY ChannelTyped, ChannelOperators DEF Channel!Connect, Up
<1>2. RunFits(run', context', n, TRUE)
  <2>1. run.phase = "idle"
    BY <1>1, DownIsIdle
  <2>2. RunFits(run, context, n, FALSE)
    BY <1>1 DEF ChannelInv
  <2> HIDE DEF n
  <2> QED
    BY <1>1, <2>1, <2>2, RunPhase
<1>3. CASE log = <<>> /\ log' = log /\ since' = n
  <2>1. MissesNothing(log', n, since', TRUE)
    BY <1>1, <1>3 DEF MissesNothing
  <2> QED
    BY <1>1, <1>2, <1>3, <2>1 DEF ChannelInv
<1>4. CASE /\ log # <<>>
           /\ log' = log \o [i \in DOMAIN Channel!Backfill |-> Channel!UserLine(Channel!Backfill[i])]
           /\ since' = IF Cardinality(Channel!Behind) <= MaxBackfill THEN since
                       ELSE Max({since, n - MaxBackfill})
  <2> DEFINE times == {log[i].ts : i \in DOMAIN log}
             newest == Max(times)
             S == (Channel!Behind \ Channel!Beyond) \ Channel!Logged
             order == Channel!InOrder(S)
             more == [i \in 1..Cardinality(S) |-> Channel!UserLine(order[i])]
  <2>1. /\ DOMAIN said = 1..n /\ DOMAIN log = 1..Len(log) /\ Len(log) \in Nat
        /\ Channel!Logged = LoggedIn(log) /\ 1 \in 1..Len(log)
    BY <1>4, ChannelTyped, EmptySeq DEF ChannelInv, LogFits
  <2>2. \A j \in 1..Len(log) : log[j].ts \in Nat /\ log[j].ts <= n /\ log[j].bot \in BOOLEAN
    BY LineIs DEF ChannelInv, LogFits
  <2>3. newest \in times /\ \A y \in times : newest >= y
    <3>1. times \subseteq 0..n /\ times # {}
      BY <1>1, <2>1, <2>2
    <3> HIDE DEF times
    <3> QED
      BY <1>1, <3>1, MaxExists
  <2>4. newest \in Nat /\ \A j \in 1..Len(log) : log[j].ts <= newest
    <3>1. \A j \in 1..Len(log) : log[j].ts \in times
      BY <2>1
    <3>2. times \subseteq Nat
      BY <2>1, <2>2
    <3> HIDE DEF times, newest
    <3> QED
      BY <2>2, <2>3, <3>1, <3>2
  <2>5. Channel!Backfill = order
    BY ChannelOperators DEF Channel!Backfill
  <2> HIDE DEF newest
  <2>6. /\ Channel!Behind = {m \in 1..n : m > newest}
        /\ S = {m \in 1..n : m > newest /\ ~(m + MaxBackfill <= n) /\ m \notin LoggedIn(log)}
    BY <2>1, ChannelOperators DEF Channel!Behind, Channel!Beyond, newest
  <2> HIDE DEF S
  <2>7. S \subseteq 1..n /\ \A m \in S : m \in Nat /\ m <= n /\ m # 0 /\ m > newest
    BY <1>1, <2>6
  <2>8. Enumerates(order, S) /\ Cardinality(S) \in Nat
    BY <1>1, <2>7, InOrderIs, OrderExists, FS_CardinalityType
  <2> HIDE DEF order
  <2>9. order \in [1..Cardinality(S) -> S]
    BY <2>8 DEF Enumerates
  <2>10. log' = log \o more
    BY <1>4, <2>5, <2>9
  <2>11. \A i \in 1..Cardinality(S) :
           /\ order[i] \in S /\ more[i] = [ts |-> order[i], bot |-> FALSE]
           /\ more[i] \in LogLines
    <3> SUFFICES ASSUME NEW i \in 1..Cardinality(S)
                 PROVE  /\ order[i] \in S /\ more[i] = [ts |-> order[i], bot |-> FALSE]
                        /\ more[i] \in LogLines
      OBVIOUS
    <3>1. order[i] \in S /\ order[i] \in Nat
      BY <2>7, <2>9
    <3>2. more[i] = [ts |-> order[i], bot |-> FALSE]
      BY DEF Channel!UserLine
    <3>3. [ts |-> order[i], bot |-> FALSE] \in LogLines
      BY <3>1 DEF LogLines
    <3> HIDE DEF more
    <3> QED
      BY <3>1, <3>2, <3>3
  <2>12. more \in Seq(LogLines) /\ Len(more) = Cardinality(S)
    <3>1. more \in [1..Cardinality(S) -> LogLines]
      BY <2>11
    <3> HIDE DEF more
    <3> QED
      BY <2>8, <3>1, FunctionIsSeq
  <2> HIDE DEF more
  <2>13. \A i \in 1..Len(more) : ~more[i].bot /\ more[i].ts = order[i] /\ more[i].ts \in S
    BY <2>11, <2>12
  <2>14. \A i \in 1..Len(more) : more[i].ts <= n /\ (more[i].bot \/ more[i].ts # 0)
    BY <2>7, <2>13
  <2>16. LoggedIn(more) = S
    <3>1. \A m \in S : \E i \in 1..Len(more) : ~more[i].bot /\ more[i].ts = m
      BY <2>8, <2>12, <2>13 DEF Enumerates
    <3> QED
      BY <2>13, <3>1 DEF LoggedIn
  <2>17. LogFits(log, n) /\ n <= n /\ n \in Nat
    BY <1>1 DEF ChannelInv
  <2> HIDE DEF n
  <2>18. LogFits(log', n) /\ LoggedIn(log') = LoggedIn(log) \cup S
    <3>1. more \in Seq(LogLines)
      BY <2>12
    <3> QED
      BY <2>10, <2>14, <2>16, <2>17, <3>1, LinesAdded
  <2>19. /\ since' \in Nat /\ since <= since'
         /\ Cardinality(Channel!Behind) <= MaxBackfill \/ n - MaxBackfill <= since'
    <3> DEFINE few == Cardinality(Channel!Behind) <= MaxBackfill
               next == since'
    <3>1. few \in BOOLEAN /\ MaxBackfill \in Nat /\ since \in Nat
      BY DEF ChannelInv, Channel!ChannelAssumption
    <3>2. next = IF few THEN since ELSE Max({since, n - MaxBackfill})
      BY <1>4
    <3> HIDE DEF few, next
    <3>3. next \in Nat /\ since <= next /\ (few \/ n - MaxBackfill <= next)
      BY <2>17, <3>1, <3>2, SinceGrows
    <3> QED
      BY <3>3 DEF few, next
  <2>20. MissesNothing(log', n, since', TRUE)
    <3> SUFFICES ASSUME NEW m \in 1..n
                 PROVE  m \in LoggedIn(log') \/ m <= since'
      BY DEF MissesNothing
    <3>1. CASE m \in LoggedIn(log) \/ m <= since
      BY <2>17, <2>18, <2>19, <3>1 DEF ChannelInv
    <3>2. CASE m \notin LoggedIn(log) /\ \A i \in 1..Len(log) : log[i].ts < m
      <4>1. \A y \in times : y < m
        BY <2>1, <3>2
      <4>2. newest < m
        BY <2>3, <4>1
      <4>3. CASE ~(m + MaxBackfill <= n)
        BY <2>4, <2>6, <2>18, <3>2, <4>2, <4>3
      <4>4. CASE m + MaxBackfill <= n
        <5>1. ~(Cardinality(Channel!Behind) <= MaxBackfill)
          <6>1. (newest + 1)..n = Channel!Behind
            BY <2>4, <2>6, <2>17
          <6>2. Cardinality((newest + 1)..n) = n - newest
            <7>1. newest + 1 \in Int /\ n \in Int /\ ~(newest + 1 > n)
              BY <2>4, <2>17, <4>2
            <7>2. Cardinality((newest + 1)..n) = n - (newest + 1) + 1
              BY <7>1, FS_Interval
            <7> QED BY <2>4, <2>17, <7>2
          <6>3. Cardinality(Channel!Behind) = n - newest
            BY <6>1, <6>2
          <6>4. MaxBackfill \in Nat /\ m \in Nat /\ newest \in Nat
            BY <2>4, <2>17 DEF Channel!ChannelAssumption
          <6> DEFINE behind == Cardinality(Channel!Behind)
          <6>5. behind = n - newest
            BY <6>3
          <6> HIDE DEF behind
          <6>6. ~(behind <= MaxBackfill)
            BY <2>17, <4>2, <4>4, <6>4, <6>5
          <6> QED
            BY <6>6 DEF behind
        <5>2. n - MaxBackfill <= since' /\ MaxBackfill \in Nat
          BY <2>19, <5>1 DEF Channel!ChannelAssumption
        <5> QED
          BY <2>17, <2>19, <4>4, <5>2
      <4> QED BY <4>3, <4>4
    <3> QED
      BY <3>1, <3>2 DEF ChannelInv, MissesNothing, n
  <2> QED
    BY <1>1, <1>2, <2>17, <2>18, <2>19, <2>20 DEF ChannelInv, n
<1> QED BY <1>1, <1>3, <1>4

-----------------------------------------------------------------------------
LEMMA ChannelInit ==
  ASSUME Channel!Init
  PROVE  ChannelInv
<1>1. /\ status = "starting" /\ said = <<>> /\ log = <<>> /\ context = <<>>
      /\ run = Channel!Idle /\ startup = 0 /\ since = 0
  BY DEF Channel!Init
<1>2. SaidIsPlain(<<>>) /\ LogFits(<<>>, 0) /\ MissesNothing(<<>>, 0, 0, FALSE) /\ ContextFits(<<>>, 0)
  BY DEF SaidIsPlain, LogFits, MissesNothing, ContextFits, Known
<1>3. RunFits(run, <<>>, 0, FALSE) /\ run \in RunRecords
  <2>1. 0 \in Nat /\ 0 \in 0..0
    OBVIOUS
  <2> QED
    BY <1>1, <2>1, RunStarts
<1>4. Up = FALSE /\ Len(said) = 0
  BY <1>1 DEF Up
<1> QED
  BY <1>1, <1>2, <1>3, <1>4 DEF ChannelInv

LEMMA ChannelStep ==
  ASSUME ChannelInv, Channel!ChannelAssumption, Environment \subseteq {"crash"},
         [Channel!Next]_Channel!vars
  PROVE  ChannelInv'
<1>1. CASE UNCHANGED Channel!vars
  BY <1>1 DEF ChannelInv, Channel!vars, Up
<1>2. ASSUME NEW toBot \in BOOLEAN, NEW known \in BOOLEAN, NEW text \in 1..MaxMessages,
             Channel!Say(toBot, text, known)
      PROVE  ChannelInv'
  BY <1>2, SayKeeps
<1>3. ASSUME NEW m \in 1..MaxMessages, NEW toBot \in BOOLEAN, Channel!Replay(m, toBot)
      PROVE  ChannelInv'
  BY <1>3, ReplayKeeps
<1> QED
  BY <1>1, <1>2, <1>3, EventKeeps, SyncKeeps, PromptKeeps, AnswerKeeps, ReportKeeps, CrashKeeps,
     StartKeeps, ConnectKeeps DEF Channel!Next

\* What the invariant is for.
LEMMA LogComplete ==
  ASSUME ChannelInv
  PROVE  Channel!LogIsComplete
<1> SUFFICES ASSUME Up, NEW m \in 1..Len(said), m > since
             PROVE  m \in Channel!Logged
  BY ChannelTyped DEF Channel!LogIsComplete, Up
<1>1. ~(m <= since) /\ Channel!Logged = LoggedIn(log)
  BY ChannelTyped DEF ChannelInv
<1> QED
  BY <1>1 DEF ChannelInv, MissesNothing

LEMMA AnswersKnow ==
  ASSUME ChannelInv
  PROVE  Channel!AnswersKnowTheLog
<1> SUFFICES ASSUME run.phase = "prompting", NEW m \in run.synced \cup ({run.message} \ {0})
             PROVE  Channel!Times(m) = 1
  BY DEF Channel!AnswersKnowTheLog
<1>1. /\ Len(said) \in Nat /\ Len(context) \in Nat /\ DOMAIN context = 1..Len(context)
      /\ \A k \in 1..Len(said) : Channel!LoggedText(k) = Named(k) /\ Channel!PromptText(k) = Named(k)
  BY ChannelTyped
<1>2. m \in 1..Len(said) /\ Named(m) \in Known(context)
  BY <1>1 DEF ChannelInv, RunFits
<1>3. PICK i \in 1..Len(context) : context[i] = Named(m)
  BY <1>2 DEF Known
<1>4. \A j \in 1..Len(context) : context[j] = Named(m) => j = i
  BY <1>3 DEF ChannelInv, ContextFits
<1>5. {j \in DOMAIN context : context[j] \in {Channel!LoggedText(m), Channel!PromptText(m)}} = {i}
  BY <1>1, <1>2, <1>3, <1>4
<1>6. Channel!Times(m) = Cardinality({i})
  BY <1>5, ChannelOperators DEF Channel!Times
<1> QED
  BY <1>6, FS_Singleton

LEMMA ChannelHolds == ASSUME ChannelInv PROVE Channel!ContextFollowsChannel
  BY LogComplete, AnswersKnow DEF Channel!ContextFollowsChannel

\* While users are known to the bot and say each text once, while Slack can be
\* asked and no event is due before the bot is up, and while Slack delivers again
\* only what is older than the connection: a bot that may crash at any time has, when
\* it is up, all that was said since there is a log in it, but for what a backfill's
\* pages did not hold, and answers knowing all that was logged, none of it twice,
\* however often old messages are logged (slack.ts, context.ts).
THEOREM ChannelTheorem ==
  ASSUME Channel!ChannelAssumption, Environment \subseteq {"crash"}
  PROVE  Channel!Spec => []Channel!ContextFollowsChannel
<1>1. ChannelInv => Channel!ContextFollowsChannel
  BY ChannelHolds
<1>2. Channel!Init => ChannelInv
  BY ChannelInit
<1>3. ChannelInv /\ [Channel!Next]_Channel!vars => ChannelInv'
  BY ChannelStep
<1> QED
  BY <1>1, <1>2, <1>3, PTL DEF Channel!Spec

-----------------------------------------------------------------------------
(* The settings, which the processes share in the same way (SettingsManager) *)

CONSTANTS Process, Field, MaxSets, MaxReloads, Happens
VARIABLES settings, managers, sets, stored, latest, reloads
Settings == INSTANCE SettingsManager

\* A file that exists and can be read, and a manager that writes a value before it is
\* told of the next one.
Orderly == Happens \cap {"burst", "missing", "unreadable"} = {}

Values == [Field -> Nat]
Snapshots == [data : Values, modified : SUBSET Field]
Managers ==
  [data : Values, modified : SUBSET Field, loadError : {FALSE},
   queue : {<<>>} \cup {<<w>> : w \in Snapshots}, awaits : Int, creating : {<<>>}]

SettingsType ==
  /\ settings \in [exists : {TRUE}, fields : Values]
  /\ managers \in [Process -> Managers]
  /\ sets \in Nat /\ stored \subseteq 0..sets /\ latest \in Values

\* What the file holds was stored, and nothing newer was.
FileIsLatest == settings.fields = latest /\ \A f \in Field : settings.fields[f] \in stored

\* A manager is to store a value of a field: it is marked, or its write is queued.
Owes(p, f, x) ==
  \/ f \in managers[p].modified /\ x = managers[p].data[f]
  \/ \E w \in Snapshots : managers[p].queue = <<w>> /\ f \in w.modified /\ x = w.data[f]

\* What is still to be stored was set, once, and was not stored.
OwedIsNew ==
  /\ \A p \in Process, f \in Field, x \in Nat : Owes(p, f, x) => x <= sets /\ x \notin stored
  /\ \A p, q \in Process, f, g \in Field, x \in Nat :
       Owes(p, f, x) /\ Owes(q, g, x) => p = q /\ f = g

\* A write that is queued has all that is marked.
QueueHasMarks ==
  \A p \in Process, w \in Snapshots : managers[p].queue = <<w>> =>
    \A f \in managers[p].modified : f \in w.modified /\ w.data[f] = managers[p].data[f]

\* What a manager shows and is not stored is marked.
UnstoredIsMarked ==
  \A p \in Process, f \in Field :
    managers[p].data[f] \in stored \/ f \in managers[p].modified

SettingsInv ==
  SettingsType /\ FileIsLatest /\ OwedIsNew /\ QueueHasMarks /\ UnstoredIsMarked

\* The queue of one write, and its manager.
LEMMA OneWrite ==
  ASSUME NEW w
  PROVE  /\ Append(<<>>, w) = <<w>> /\ Head(<<w>>) = w /\ Tail(<<w>>) = <<>> /\ <<w>> # <<>>
         /\ \A v : <<v>> = <<w>> => v = w
<1>1. Append(<<>>, w) = <<w>>
  OBVIOUS
<1>2. Head(<<w>>) = w /\ <<w>> # <<>>
  OBVIOUS
<1>3. Tail(<<w>>) = <<>>
  OBVIOUS
<1>4. \A v : <<v>> = <<w>> => v = w
  OBVIOUS
<1> QED
  BY <1>1, <1>2, <1>3, <1>4

LEMMA OneManager ==
  ASSUME SettingsType, NEW p \in Process, NEW m, Settings!Becomes(p, m)
  PROVE  \A q \in Process : managers'[q] = IF q = p THEN m ELSE managers[q]
  BY DEF SettingsType, Settings!Becomes

LEMMA OneManagerTyped ==
  ASSUME SettingsType, NEW p \in Process, NEW m \in Managers, Settings!Becomes(p, m)
  PROVE  managers' \in [Process -> Managers]
  BY DEF SettingsType, Settings!Becomes

LEMMA SettingsInit == ASSUME Orderly, Settings!Init PROVE SettingsInv
<1>1. SettingsType
  <2>1. Settings!AtFirst \in Values
    BY DEF Settings!AtFirst, Values
  <2>2. Settings!NewManager \in Managers
    BY <2>1 DEF Settings!NewManager, Managers
  <2>3. managers \in [Process -> Managers]
    BY <2>2 DEF Settings!Init
  <2>4. settings \in [exists : {TRUE}, fields : Values] /\ latest \in Values
    BY <2>1 DEF Settings!Init, Orderly
  <2>5. sets \in Nat /\ stored \subseteq 0..sets
    BY DEF Settings!Init
  <2> QED
    BY <2>3, <2>4, <2>5 DEF SettingsType
<1>2. \A p \in Process : /\ managers[p].modified = {} /\ managers[p].queue = <<>>
                         /\ managers[p].data = Settings!AtFirst
  BY DEF Settings!Init, Settings!NewManager
<1>3. \A p \in Process, f \in Field, x \in Nat : ~Owes(p, f, x)
  BY <1>2, OneWrite DEF Owes
<1>4. FileIsLatest /\ UnstoredIsMarked
  BY <1>2 DEF Settings!Init, Settings!AtFirst, FileIsLatest, UnstoredIsMarked
<1>5. QueueHasMarks
  BY <1>2, OneWrite DEF QueueHasMarks
<1> QED
  BY <1>1, <1>3, <1>4, <1>5 DEF SettingsInv, OwedIsNew

LEMMA SetKeeps ==
  ASSUME Orderly, SettingsInv, NEW p \in Process, NEW f \in Field, Settings!Set(p, f)
  PROVE  SettingsInv'
<1> USE DEF SettingsInv
<1>1. PICK m \in Managers : m = managers[p]
  BY DEF SettingsType
<1>2. PICK x \in Nat : x = sets + 1
  BY DEF SettingsType
<1> DEFINE data == [m.data EXCEPT ![f] = x]
           w == [data |-> data, modified |-> m.modified \cup {f}]
           m2 == [m EXCEPT !.data = data, !.modified = m.modified \cup {f}, !.queue = <<w>>]
<1>3. /\ m.queue = <<>> /\ sets' = x /\ Settings!Becomes(p, m2)
      /\ UNCHANGED <<settings, stored, latest>>
  <2>1. m.queue = <<>> /\ m.loadError = FALSE
    BY <1>1 DEF Settings!Set, Orderly, Managers
  <2>2. Settings!Becomes(p, [m EXCEPT !.data = data, !.modified = m.modified \cup {f},
                                      !.queue = Append(m.queue, w)])
    BY <1>1, <1>2, <2>1 DEF Settings!Set, Managers
  <2> QED
    <3>1. Append(m.queue, w) = <<w>>
      <4> HIDE DEF w
      <4> QED
        BY <2>1, OneWrite
    <3>2. sets' = x /\ UNCHANGED <<settings, stored, latest>>
      BY <1>2 DEF Settings!Set
    <3> QED
      BY <2>1, <2>2, <3>1, <3>2
<1>4. w \in Snapshots /\ m2 \in Managers
  BY <1>1, <1>2, ZenonT(30) DEF Managers, Snapshots, Values
<1>5. /\ m2.data[f] = x /\ m2.modified = m.modified \cup {f} /\ m2.queue = <<w>>
      /\ w.data = m2.data /\ w.modified = m2.modified
      /\ \A g \in Field : g # f => m2.data[g] = m.data[g]
  BY <1>1 DEF Managers, Values
<1> HIDE DEF w, m2
<1>6. /\ managers'[p] = m2 /\ \A q \in Process : q # p => managers'[q] = managers[q]
  BY <1>3, OneManager
<1>7. SettingsType'
  <2>1. managers' \in [Process -> Managers]
    BY <1>3, <1>4, OneManagerTyped
  <2>2. sets \in Nat /\ stored \subseteq 0..sets
    BY DEF SettingsType
  <2>3. sets' \in Nat /\ stored' \subseteq 0..sets'
    BY <1>2, <1>3, <2>2
  <2>4. settings' \in [exists : {TRUE}, fields : Values] /\ latest' \in Values
    BY <1>3 DEF SettingsType
  <2> QED
    BY <2>1, <2>3, <2>4 DEF SettingsType
<1>8. \A q \in Process, g \in Field, y \in Nat :
        (Owes(q, g, y))' => Owes(q, g, y) \/ (q = p /\ g = f /\ y = x)
  <2>1. ASSUME NEW g \in Field, NEW y \in Nat, (Owes(p, g, y))'
        PROVE  Owes(p, g, y) \/ (g = f /\ y = x)
    <3>1. g \in m2.modified /\ y = m2.data[g]
      BY <1>5, <1>6, <2>1, OneWrite DEF Owes
    <3> QED
      BY <1>1, <1>5, <3>1 DEF Owes
  <2> QED
    BY <1>6, <2>1 DEF Owes
<1>9. OwedIsNew'
  <2>1. x \notin stored /\ \A q \in Process, g \in Field : ~Owes(q, g, x)
    BY <1>2 DEF OwedIsNew, SettingsType
  <2> QED
    BY <1>2, <1>3, <1>8, <2>1 DEF OwedIsNew, SettingsType
<1>10. QueueHasMarks'
  BY <1>5, <1>6, OneWrite DEF QueueHasMarks
<1>11. FileIsLatest' /\ UnstoredIsMarked'
  BY <1>1, <1>3, <1>5, <1>6 DEF FileIsLatest, UnstoredIsMarked
<1> QED
  BY <1>7, <1>9, <1>10, <1>11

\* What the file held and what is written into it are its values from now on.
LEMMA StoresLatest ==
  ASSUME FileIsLatest, NEW fields \in Values, Settings!Stores(fields),
         \A f \in Field : fields[f] \in stored => fields[f] = settings.fields[f]
  PROVE  /\ settings' \in [exists : {TRUE}, fields : Values]
         /\ settings'.exists = TRUE /\ settings'.fields = fields
         /\ latest' \in Values /\ FileIsLatest'
         /\ stored' = stored \cup {fields[f] : f \in Field}
<1>1. settings' = [exists |-> TRUE, fields |-> fields] /\ stored' = stored \cup {fields[f] : f \in Field}
  BY DEF Settings!Stores
<1>2. \A f \in Field : (IF fields[f] \notin stored THEN fields[f] ELSE latest[f]) = fields[f]
  BY DEF FileIsLatest
<1>3. latest' = [f \in Field |-> fields[f]]
  BY <1>2 DEF Settings!Stores
<1>4. latest' = fields
  BY <1>3 DEF Values
<1> QED
  BY <1>1, <1>4 DEF FileIsLatest

\* A manager owes nothing more that it has stored or forgotten, and nothing new.
LEMMA OwesLess ==
  ASSUME SettingsInv, NEW p \in Process, NEW m \in Managers, Settings!Becomes(p, m),
         m.queue \in {managers[p].queue, <<>>},
         m.modified = {} \/ (m.modified = managers[p].modified /\ m.data = managers[p].data),
         sets' = sets, stored \subseteq stored', stored' \subseteq 0..sets,
         \A q \in Process, f \in Field, x \in Nat :
           Owes(q, f, x) /\ x \in stored' => q = p /\ m.queue = <<>> /\ m.modified = {},
         \A f \in Field : m.data[f] \in stored' \/ f \in m.modified
  PROVE  managers' \in [Process -> Managers] /\ OwedIsNew' /\ QueueHasMarks' /\ UnstoredIsMarked'
<1> USE DEF SettingsInv
<1>1. managers' \in [Process -> Managers]
  BY OneManagerTyped
<1>2. managers'[p] = m /\ \A q \in Process : q # p => managers'[q] = managers[q]
  BY OneManager
<1>3. \A q \in Process, f \in Field, x \in Nat : (Owes(q, f, x))' => Owes(q, f, x)
  <2>1. ASSUME NEW f \in Field, NEW x \in Nat, (Owes(p, f, x))' PROVE Owes(p, f, x)
    BY <1>2, <2>1, OneWrite DEF Owes
  <2> QED
    BY <1>2, <2>1 DEF Owes
<1>4. \A f \in Field, x \in Nat : m.queue = <<>> /\ m.modified = {} => ~(Owes(p, f, x))'
  BY <1>2, OneWrite DEF Owes
<1>5. OwedIsNew'
  BY <1>3, <1>4 DEF OwedIsNew
<1>6. QueueHasMarks'
  <2>1. ASSUME NEW w \in Snapshots, m.queue = <<w>>, NEW f \in m.modified
        PROVE  f \in w.modified /\ w.data[f] = m.data[f]
    BY <2>1, OneWrite DEF QueueHasMarks
  <2> QED
    BY <1>2, <2>1 DEF QueueHasMarks
<1>7. UnstoredIsMarked'
  BY <1>2 DEF UnstoredIsMarked
<1> QED
  BY <1>1, <1>5, <1>6, <1>7

LEMMA WriteKeeps ==
  ASSUME Orderly, SettingsInv, NEW p \in Process, Settings!Write(p)
  PROVE  SettingsInv'
<1> USE DEF SettingsInv
<1>1. PICK m \in Managers : m = managers[p]
  BY DEF SettingsType
<1>2. PICK w \in Snapshots : m.queue = <<w>>
  BY <1>1 DEF Settings!Write, Managers
<1>3. Head(m.queue) = w /\ Tail(m.queue) = <<>>
  BY <1>2, OneWrite
<1>4. PICK d \in Managers : d = [m EXCEPT !.queue = <<>>, !.awaits = IF @ > 0 THEN @ - 1 ELSE @]
  <2>1. PICK n \in Int : n = IF m.awaits > 0 THEN m.awaits - 1 ELSE m.awaits
    BY DEF Managers
  <2>2. [m EXCEPT !.queue = <<>>, !.awaits = n] \in Managers
    BY DEF Managers
  <2> QED
    BY <2>1, <2>2
<1>5. Settings!Done(m) = d
  BY <1>3, <1>4 DEF Settings!Done
<1>6. d.data = m.data /\ d.modified = m.modified /\ d.queue = <<>>
  BY <1>4 DEF Managers
<1>7. settings.exists = TRUE /\ UNCHANGED <<sets, reloads>>
  BY DEF SettingsType, Settings!Write
<1>8. CASE Settings!Becomes(p, Settings!Fails(m)) /\ UNCHANGED <<settings, stored, latest>>
  <2>1. Settings!Becomes(p, d)
    BY <1>5, <1>8 DEF Settings!Fails
  <2>2. managers' \in [Process -> Managers] /\ OwedIsNew' /\ QueueHasMarks' /\ UnstoredIsMarked'
    <3>1. \A f \in Field : d.data[f] \in stored \/ f \in d.modified
      BY <1>1, <1>6 DEF UnstoredIsMarked
    <3>2. \A q \in Process, f \in Field, x \in Nat : Owes(q, f, x) => x \notin stored
      BY DEF OwedIsNew
    <3>3. sets' = sets /\ stored' = stored /\ stored \subseteq 0..sets
      BY <1>7, <1>8 DEF SettingsType
    <3> QED
      BY <1>1, <1>6, <2>1, <3>1, <3>2, <3>3, OwesLess
  <2> QED
    BY <1>7, <1>8, <2>2 DEF SettingsType, FileIsLatest
<1>9. CASE /\ Settings!Stores(Settings!Merged(settings.fields, w))
           /\ Settings!Becomes(p, [Settings!Done(m) EXCEPT !.modified = {}])
  <2> DEFINE fields == Settings!Merged(settings.fields, w)
  <2>1. fields \in Values
    BY DEF Settings!Merged, SettingsType, Snapshots, Values
  <2>2. \A f \in Field : fields[f] = IF f \in w.modified THEN w.data[f] ELSE settings.fields[f]
    BY DEF Settings!Merged
  <2> HIDE DEF fields
  <2>3. \A f \in Field : f \in w.modified => fields[f] \in Nat /\ Owes(p, f, fields[f])
    BY <1>1, <1>2, <2>1, <2>2 DEF Owes, Values
  <2>4. \A f \in Field : fields[f] \in stored => fields[f] = settings.fields[f]
    BY <2>2, <2>3 DEF OwedIsNew
  <2>5. /\ settings' \in [exists : {TRUE}, fields : Values] /\ latest' \in Values
        /\ FileIsLatest' /\ stored' = stored \cup {fields[f] : f \in Field}
    <3>1. Settings!Stores(fields)
      BY <1>9 DEF fields
    <3> QED
      BY <2>1, <2>4, <3>1, StoresLatest
  <2>6. \A f \in Field : fields[f] \in 0..sets
    <3>1. \A f \in Field : f \in w.modified => fields[f] <= sets
      BY <2>3 DEF OwedIsNew
    <3>2. \A f \in Field : f \notin w.modified => fields[f] \in 0..sets
      BY <2>2 DEF FileIsLatest, SettingsType
    <3> QED
      BY <2>1, <3>1, <3>2 DEF Values, SettingsType
  <2>7. sets' = sets /\ stored \subseteq stored' /\ stored' \subseteq 0..sets
    BY <1>7, <2>5, <2>6 DEF SettingsType
  <2>8. PICK e \in Managers : e = [d EXCEPT !.modified = {}]
    BY DEF Managers
  <2>9. e.data = m.data /\ e.modified = {} /\ e.queue = <<>> /\ Settings!Becomes(p, e)
    BY <1>5, <1>6, <1>9, <2>8 DEF Managers
  <2>10. ASSUME NEW q \in Process, NEW f \in Field, NEW x \in Nat, Owes(q, f, x), x \in stored'
         PROVE  q = p
    <3>1. x \notin stored
      BY <2>10 DEF OwedIsNew
    <3>2. PICK g \in Field : x = fields[g]
      BY <2>5, <2>10, <3>1
    <3>3. g \in w.modified
      BY <2>2, <3>1, <3>2 DEF FileIsLatest
    <3> QED
      BY <2>3, <2>10, <3>2, <3>3 DEF OwedIsNew
  <2>11. \A f \in Field : m.data[f] \in stored'
    <3>1. \A f \in m.modified : f \in w.modified /\ w.data[f] = m.data[f]
      BY <1>1, <1>2 DEF QueueHasMarks
    <3> QED
      BY <1>1, <2>2, <2>5, <3>1 DEF UnstoredIsMarked
  <2>12. managers' \in [Process -> Managers] /\ OwedIsNew' /\ QueueHasMarks' /\ UnstoredIsMarked'
    BY <1>1, <2>7, <2>9, <2>10, <2>11, OwesLess
  <2> QED
    BY <1>7, <2>5, <2>7, <2>12 DEF SettingsType
<1> QED
  BY <1>1, <1>3, <1>7, <1>8, <1>9 DEF Settings!Write

LEMMA EditKeeps ==
  ASSUME SettingsInv, NEW f \in Field, Settings!Edit(f)
  PROVE  SettingsInv'
<1> USE DEF SettingsInv
<1>1. PICK x \in Nat : x = sets + 1
  BY DEF SettingsType
<1> DEFINE fields == [settings.fields EXCEPT ![f] = x]
<1>2. sets' = x /\ Settings!Stores(fields) /\ UNCHANGED <<managers, reloads>>
  BY <1>1 DEF Settings!Edit
<1>3. fields \in Values /\ fields[f] = x /\ \A g \in Field : g # f => fields[g] = settings.fields[g]
  BY DEF SettingsType, Values
<1> HIDE DEF fields
<1>4. stored \subseteq 0..sets /\ sets \in Nat /\ x \notin stored
  BY <1>1 DEF SettingsType
<1>5. /\ settings' \in [exists : {TRUE}, fields : Values] /\ latest' \in Values
      /\ FileIsLatest' /\ stored' = stored \cup {fields[g] : g \in Field}
  BY <1>2, <1>3, <1>4, StoresLatest
<1>6. stored' = stored \cup {x}
  BY <1>3, <1>5 DEF FileIsLatest
<1>7. SettingsType'
  <2>1. sets' \in Nat /\ stored' \subseteq 0..sets'
    BY <1>1, <1>2, <1>4, <1>6
  <2> QED
    BY <1>2, <1>5, <2>1 DEF SettingsType
<1>8. OwedIsNew'
  <2>1. \A q \in Process, g \in Field, y \in Nat : (Owes(q, g, y))' <=> Owes(q, g, y)
    BY <1>2 DEF Owes
  <2> QED
    BY <1>1, <1>2, <1>4, <1>6, <2>1 DEF OwedIsNew
<1>9. QueueHasMarks' /\ UnstoredIsMarked'
  BY <1>2, <1>6 DEF QueueHasMarks, UnstoredIsMarked
<1> QED
  BY <1>5, <1>7, <1>8, <1>9

LEMMA ReloadKeeps ==
  ASSUME Orderly, SettingsInv, NEW p \in Process, Settings!Reload(p) \/ Settings!Reloaded(p)
  PROVE  SettingsInv'
<1> USE DEF SettingsInv
<1>1. PICK m \in Managers : m = managers[p]
  BY DEF SettingsType
<1>2. PICK n \in Int : n = Len(m.queue)
  <2>1. m.queue = <<>> \/ \E w \in Snapshots : m.queue = <<w>>
    BY DEF Managers
  <2> QED
    BY <2>1
<1>3. UNCHANGED <<settings, sets, stored, latest>>
  BY DEF Settings!Reload, Settings!Reloaded
<1>4. stored \subseteq 0..sets /\ settings.fields \in Values /\ \A f \in Field : settings.fields[f] \in stored
  BY DEF SettingsType, FileIsLatest
<1>5. \A q \in Process, f \in Field, x \in Nat : Owes(q, f, x) => x \notin stored
  BY DEF OwedIsNew
<1>6. PICK e \in Managers :
        /\ Settings!Becomes(p, e) /\ e.queue = m.queue
        /\ \/ e.modified = m.modified /\ e.data = m.data
           \/ e.modified = {} /\ e.data = settings.fields
  <2>1. CASE Settings!Reload(p)
    <3> DEFINE e == [m EXCEPT !.awaits = n]
    <3>1. Settings!Becomes(p, e)
      BY <1>1, <1>2, <2>1 DEF Settings!Reload
    <3>2. e \in Managers /\ e.queue = m.queue /\ e.modified = m.modified /\ e.data = m.data
      BY <1>1, <1>2 DEF Managers
    <3> QED
      BY <3>1, <3>2
  <2>2. CASE Settings!Reloaded(p)
    <3> DEFINE d == [m EXCEPT !.awaits = -1, !.modified = {}]
               e == [d EXCEPT !.data = settings.fields, !.loadError = FALSE]
    <3>1. Settings!Becomes(p, e)
      BY <1>1, <2>2 DEF Settings!Reloaded, Orderly
    <3>2. PICK v \in Values : v = settings.fields
      BY <1>4
    <3>3. d \in Managers /\ d.modified = {} /\ d.queue = m.queue
      <4>1. -1 \in Int
        OBVIOUS
      <4> QED
        BY <4>1 DEF Managers
    <3> HIDE DEF d
    <3>4. e \in Managers /\ e.queue = m.queue /\ e.modified = {} /\ e.data = v
      BY <3>2, <3>3 DEF Managers
    <3> QED
      BY <3>1, <3>2, <3>4
  <2> QED
    BY <2>1, <2>2
<1>7. \A f \in Field : e.data[f] \in stored \/ f \in e.modified
  BY <1>1, <1>4, <1>6 DEF UnstoredIsMarked
<1>8. managers' \in [Process -> Managers] /\ OwedIsNew' /\ QueueHasMarks' /\ UnstoredIsMarked'
  BY <1>1, <1>3, <1>4, <1>5, <1>6, <1>7, OwesLess
<1> QED
  BY <1>3, <1>8 DEF SettingsType, FileIsLatest

LEMMA SettingsHold == ASSUME SettingsInv PROVE Settings!SettingsSurvive
  BY DEF SettingsInv, FileIsLatest, UnstoredIsMarked, Settings!SettingsSurvive

LEMMA SettingsNext ==
  ASSUME Orderly, SettingsInv, [Settings!Next]_Settings!vars PROVE SettingsInv'
<1>1. CASE UNCHANGED Settings!vars
  <2>1. UNCHANGED <<settings, managers, sets, stored, latest>>
    BY <1>1 DEF Settings!vars
  <2>2. \A p \in Process, f \in Field, x \in Nat : (Owes(p, f, x))' <=> Owes(p, f, x)
    BY <2>1 DEF Owes
  <2>3. OwedIsNew'
    BY <2>1, <2>2 DEF SettingsInv, OwedIsNew
  <2> QED
    BY <2>1, <2>3 DEF SettingsInv, SettingsType, FileIsLatest, QueueHasMarks,
                            UnstoredIsMarked
<1>2. ASSUME NEW p \in Process, Settings!Create(p) PROVE FALSE
  BY <1>2 DEF Settings!Create, Settings!Idle, SettingsInv, SettingsType, Managers
<1> QED
  BY <1>1, <1>2, SetKeeps, WriteKeeps, EditKeeps, ReloadKeeps DEF Settings!Next

\* However many processes set values, reload, and fail to lock the file, and whatever the
\* user edits meanwhile, no value of a field that reached the file gives way to an older
\* one, and what a manager shows was stored or is marked (persistScopedSettings,
\* enqueueWrite, clearModifiedScope); if writes do not queue up and the file is there.
THEOREM SettingsTheorem ==
  ASSUME Orderly PROVE Settings!Spec => []Settings!SettingsSurvive
  BY SettingsInit, SettingsNext, SettingsHold, PTL DEF Settings!Spec

-----------------------------------------------------------------------------
(* One process by itself: its writes may queue up, and its file need not exist. *)

Alone == Happens \subseteq {"burst", "missing"} /\ \E p : Process = {p}

Lined ==
  [data : Values, modified : SUBSET Field, loadError : {FALSE}, queue : Seq(Snapshots),
   awaits : Int, creating : {<<>>} \cup {<<v>> : v \in Values}]

\* What is to be written, the next first, and behind it what is marked.
Spots(m) == 1..(Len(m.queue) + 1)
Waiting(m, k) ==
  IF k = Len(m.queue) + 1 THEN [data |-> m.data, modified |-> m.modified] ELSE m.queue[k]

\* What waits was set after what waits before it.
Rises(m) ==
  \A j, k \in Spots(m) : j <= k =>
    \A f \in Waiting(m, j).modified \cap Waiting(m, k).modified :
      Waiting(m, j).data[f] <= Waiting(m, k).data[f]

\* It was set after what the file holds, unless it is that.
Follows(m, n, fields, done) ==
  \A k \in Spots(m) : \A f \in Waiting(m, k).modified :
    LET x == Waiting(m, k).data[f] IN
    x \in 1..n /\ fields[f] <= x /\ (x \in done => x = fields[f])

\* A value is of one field.
Separate(m) ==
  \A j, k \in Spots(m) : \A f \in Waiting(m, j).modified, g \in Waiting(m, k).modified :
    Waiting(m, j).data[f] = Waiting(m, k).data[g] => f = g

\* What is shown was stored, or it is queued.
Shown(m, done) ==
  \A f \in Field :
    \/ m.data[f] \in done
    \/ \E k \in 1..Len(m.queue) : f \in m.queue[k].modified /\ m.queue[k].data[f] = m.data[f]

\* A manager that creates the file does so for the write at the head of its queue.
Creates(m) ==
  m.creating # <<>> =>
    /\ m.queue # <<>> /\ settings.exists = FALSE
    /\ m.creating = <<Settings!Merged(settings.fields, Head(m.queue))>>

InTurn(m) ==
  /\ m \in Lined /\ Rises(m) /\ Separate(m) /\ Shown(m, stored) /\ Creates(m)
  /\ Follows(m, sets, settings.fields, stored)

AloneInv ==
  /\ settings \in [exists : BOOLEAN, fields : Values] /\ latest \in Values
  /\ settings.exists = FALSE => settings.fields = Settings!AtFirst
  /\ sets \in Nat /\ stored \subseteq 0..sets /\ FileIsLatest
  /\ managers \in [Process -> Lined]
  /\ \A p \in Process : InTurn(managers[p])

LEMMA AloneInit == ASSUME Alone, Settings!Init PROVE AloneInv
<1>1. Settings!AtFirst \in Values /\ \A f \in Field : Settings!AtFirst[f] = 0
  BY DEF Settings!AtFirst, Values
<1> DEFINE m == Settings!NewManager
<1>2. /\ m \in Lined /\ m.queue = <<>> /\ m.modified = {} /\ m.creating = <<>>
      /\ \A f \in Field : m.data[f] = 0
  <2>1. <<>> \in Seq(Snapshots) /\ -1 \in Int
    OBVIOUS
  <2> QED
    BY <1>1, <2>1 DEF Settings!NewManager, Lined
<1> HIDE DEF m
<1>3. /\ settings \in [exists : BOOLEAN, fields : Values] /\ latest \in Values
      /\ settings.fields = Settings!AtFirst /\ sets = 0 /\ stored = {0} /\ latest = Settings!AtFirst
  BY <1>1 DEF Settings!Init
<1>4. managers = [p \in Process |-> m]
  BY DEF Settings!Init, m
<1>5. \A k \in Spots(m) : Waiting(m, k).modified = {}
  BY <1>2 DEF Spots, Waiting
<1>6. InTurn(m)
  BY <1>2, <1>3, <1>5 DEF InTurn, Rises, Separate, Shown, Creates, Follows
<1>7. FileIsLatest
  BY <1>1, <1>3 DEF FileIsLatest
<1> QED
  BY <1>2, <1>3, <1>4, <1>6, <1>7 DEF AloneInv

\* What waits is typed.
LEMMA WaitingTyped ==
  ASSUME NEW m \in Lined
  PROVE  /\ Len(m.queue) \in Nat /\ m.queue \in Seq(Snapshots) /\ m.data \in Values
         /\ \A k \in Spots(m) : Waiting(m, k).modified \subseteq Field /\ Waiting(m, k).data \in Values
<1>1. Len(m.queue) \in Nat /\ m.queue \in Seq(Snapshots) /\ m.data \in Values /\ m.modified \subseteq Field
  BY DEF Lined
<1>2. \A k \in 1..Len(m.queue) : m.queue[k] \in Snapshots
  BY <1>1
<1>3. \A k \in Spots(m) : k = Len(m.queue) + 1 \/ k \in 1..Len(m.queue)
  BY <1>1 DEF Spots
<1> QED
  BY <1>1, <1>2, <1>3 DEF Waiting, Snapshots

\* What is left of what waits waits as it did.
LEMMA FewerWait ==
  ASSUME NEW m \in Lined, NEW d \in Lined, NEW e \in {0, 1},
         Len(d.queue) + e = Len(m.queue), Rises(m), Separate(m),
         \A k \in Spots(d) : \A f \in Waiting(d, k).modified :
           f \in Waiting(m, k + e).modified /\ Waiting(d, k).data[f] = Waiting(m, k + e).data[f]
  PROVE  Rises(d) /\ Separate(d)
<1>1. \A k \in Spots(d) : k + e \in Spots(m) /\ k \in Nat
  BY WaitingTyped DEF Spots
<1>2. Rises(d)
  <2> SUFFICES ASSUME NEW j \in Spots(d), NEW k \in Spots(d), j <= k,
                      NEW f \in Waiting(d, j).modified \cap Waiting(d, k).modified
               PROVE  Waiting(d, j).data[f] <= Waiting(d, k).data[f]
    BY DEF Rises
  <2>1. j + e \in Spots(m) /\ k + e \in Spots(m) /\ j + e <= k + e
    BY <1>1
  <2>2. f \in Waiting(m, j + e).modified \cap Waiting(m, k + e).modified
    OBVIOUS
  <2> QED
    BY <2>1, <2>2 DEF Rises
<1>3. Separate(d)
  BY <1>1 DEF Separate
<1> QED
  BY <1>2, <1>3

LEMMA SetAlone ==
  ASSUME Alone, AloneInv, NEW p \in Process, NEW f \in Field, Settings!Set(p, f)
  PROVE  AloneInv'
<1>1. PICK m \in Lined : m = managers[p]
  BY DEF AloneInv
<1>2. PICK x \in Nat : x = sets + 1 /\ sets \in Nat /\ stored \subseteq 0..sets
  BY DEF AloneInv
<1>3. InTurn(m)
  BY <1>1 DEF AloneInv
<1> DEFINE data == [m.data EXCEPT ![f] = x]
           w == [data |-> data, modified |-> m.modified \cup {f}]
           line == Append(m.queue, w)
           d == [m EXCEPT !.data = data, !.modified = m.modified \cup {f}, !.queue = line]
<1>4. m.creating = <<>> /\ sets' = x /\ UNCHANGED <<settings, stored, latest>>
  BY <1>1, <1>2 DEF Settings!Set, Settings!Idle
<1>5. Settings!Becomes(p, d)
  <2>1. m.loadError = FALSE
    BY DEF Lined
  <2> QED
    BY <1>1, <1>2, <2>1 DEF Settings!Set
<1>6. /\ w \in Snapshots /\ w.data \in Values /\ w.modified = m.modified \cup {f}
      /\ w.data[f] = x /\ \A g \in Field : g # f => w.data[g] = m.data[g]
  BY DEF Lined, Snapshots, Values
<1>7. d.data = w.data /\ d.modified = w.modified /\ d.queue = line /\ d.creating = m.creating
  BY DEF Lined
<1> HIDE DEF w
<1>8. /\ line \in Seq(Snapshots) /\ Len(line) = Len(m.queue) + 1 /\ Len(m.queue) \in Nat
      /\ line[Len(m.queue) + 1] = w
      /\ \A k \in 1..Len(m.queue) : line[k] = m.queue[k]
  BY <1>6, WaitingTyped
<1> HIDE DEF line
<1>9. d \in Lined
  <2>1. PICK v \in Values, s \in SUBSET Field : v = data /\ s = m.modified \cup {f}
    BY <1>2 DEF Lined, Values
  <2>2. [m EXCEPT !.data = v, !.modified = s, !.queue = line] \in Lined
    BY <1>8 DEF Lined
  <2> QED
    BY <2>1, <2>2
<1> HIDE DEF data, d
<1>10. /\ \A k \in Spots(d) : k \in 1..Len(m.queue) \/ k \in {Len(m.queue) + 1, Len(m.queue) + 2}
       /\ 1..Len(m.queue) \subseteq Spots(m) /\ Len(m.queue) + 1 \in Spots(m)
  BY <1>7, <1>8 DEF Spots
<1>11. /\ \A k \in 1..Len(m.queue) : Waiting(d, k) = Waiting(m, k)
       /\ \A k \in {Len(m.queue) + 1, Len(m.queue) + 2} :
            Waiting(d, k).data = w.data /\ Waiting(d, k).modified = w.modified
  BY <1>7, <1>8 DEF Waiting
<1> DEFINE Last == Len(m.queue) + 1
<1>12. Waiting(m, Last).data = m.data /\ Waiting(m, Last).modified = m.modified
  BY DEF Waiting
<1>13. \A k \in Spots(m) : \A g \in Waiting(m, k).modified :
         Waiting(m, k).data[g] \in 1..sets /\ g \in Field
  BY <1>3, WaitingTyped DEF InTurn, Follows
<1>14. Rises(d)
  <2> SUFFICES ASSUME NEW j \in Spots(d), NEW k \in Spots(d), j <= k,
                      NEW g \in Waiting(d, j).modified \cap Waiting(d, k).modified
               PROVE  Waiting(d, j).data[g] <= Waiting(d, k).data[g]
    BY DEF Rises
  <2>1. CASE k \in 1..Len(m.queue)
    <3>1. j \in 1..Len(m.queue)
      <4> DEFINE l == Len(m.queue)
      <4>1. l \in Nat /\ j <= l /\ (j \in 1..l \/ j \in {l + 1, l + 2})
        <5>1. l \in Nat /\ k \in 1..l /\ (j \in 1..l \/ j \in {l + 1, l + 2})
          BY <1>8, <1>10, <2>1
        <5> HIDE DEF l
        <5> QED BY <5>1
      <4> HIDE DEF l
      <4>2. j \in 1..l
        BY <4>1
      <4> QED BY <4>2 DEF l
    <3> QED
      BY <1>3, <1>10, <1>11, <2>1, <3>1 DEF InTurn, Rises
  <2>2. CASE k \notin 1..Len(m.queue) /\ j \in 1..Len(m.queue)
    <3>1. Waiting(d, k).data = w.data /\ g \in w.modified
      BY <1>10, <1>11, <2>2
    <3>2. CASE g = f
      <4>1. Waiting(m, j).data[g] \in 1..sets
        BY <1>10, <1>11, <1>13, <2>2
      <4> QED
        BY <1>2, <1>6, <1>11, <2>2, <3>1, <3>2, <4>1
    <3>3. CASE g # f
      <4>1. g \in m.modified /\ g \in Field /\ w.data[g] = m.data[g]
        BY <1>6, <3>1, <3>3 DEF Lined
      <4>2. j <= Last /\ Last \in Spots(m) /\ j \in Spots(m)
        BY <1>8, <1>10, <2>2
      <4>3. Waiting(m, j).data[g] <= Waiting(m, Last).data[g]
        BY <1>3, <1>11, <1>12, <2>2, <4>1, <4>2 DEF InTurn, Rises
      <4> QED
        BY <1>11, <1>12, <2>2, <3>1, <4>1, <4>3
    <3> QED
      BY <3>2, <3>3
  <2>3. CASE k \notin 1..Len(m.queue) /\ j \notin 1..Len(m.queue)
    <3>1. Waiting(d, k).data = w.data /\ Waiting(d, j).data = w.data /\ g \in w.modified
      BY <1>10, <1>11, <2>3
    <3>2. w.data[g] \in Nat
      BY <1>6, <3>1 DEF Snapshots, Values
    <3> QED
      BY <3>1, <3>2
  <2> QED
    BY <2>1, <2>2, <2>3
\* What waits waited before, or it is the value just set.
<1>15. ASSUME NEW k \in Spots(d), NEW g \in Waiting(d, k).modified
       PROVE  \/ g = f /\ Waiting(d, k).data[g] = x
              \/ \E h \in Spots(m) : /\ g \in Waiting(m, h).modified
                                     /\ Waiting(m, h).data[g] = Waiting(d, k).data[g]
  <2>1. CASE k \in 1..Len(m.queue)
    BY <1>10, <1>11, <1>15, <2>1
  <2>2. CASE k \notin 1..Len(m.queue)
    <3>1. Waiting(d, k).data = w.data /\ g \in w.modified
      BY <1>10, <1>11, <1>15, <2>2
    <3>2. g # f => g \in m.modified /\ g \in Field /\ w.data[g] = m.data[g]
      BY <1>6, <3>1 DEF Lined
    <3> QED
      BY <1>6, <1>10, <1>12, <3>1, <3>2
  <2> QED
    BY <2>1, <2>2
<1>16. Separate(d)
  <2> SUFFICES ASSUME NEW j \in Spots(d), NEW k \in Spots(d),
                      NEW g \in Waiting(d, j).modified, NEW h \in Waiting(d, k).modified,
                      Waiting(d, j).data[g] = Waiting(d, k).data[h]
               PROVE  g = h
    BY DEF Separate
  <2>1. ASSUME NEW i \in Spots(m), NEW b \in Waiting(m, i).modified PROVE Waiting(m, i).data[b] # x
    BY <1>2, <1>13, <2>1
  <2> QED
    BY <1>3, <1>15, <2>1 DEF InTurn, Separate
<1>17. Follows(d, x, settings.fields, stored)
  <2> SUFFICES ASSUME NEW k \in Spots(d), NEW g \in Waiting(d, k).modified
               PROVE  /\ Waiting(d, k).data[g] \in 1..x
                      /\ settings.fields[g] <= Waiting(d, k).data[g]
                      /\ Waiting(d, k).data[g] \in stored => Waiting(d, k).data[g] = settings.fields[g]
    BY DEF Follows
  <2>1. PICK y \in 0..sets : y = settings.fields[f]
    BY <1>2 DEF AloneInv, FileIsLatest
  <2>4. x \in 1..x /\ y <= x /\ x \notin 0..sets
    BY <1>2
  <2>2. x \in 1..x /\ settings.fields[f] <= x /\ x \notin stored
    BY <1>2, <2>1, <2>4
  <2>3. 1..sets \subseteq 1..x
    BY <1>2
  <2> QED
    BY <1>3, <1>15, <2>2, <2>3 DEF InTurn, Follows
<1>18. Shown(d, stored)
  <2> SUFFICES ASSUME NEW g \in Field, d.data[g] \notin stored
               PROVE  \E k \in 1..Len(d.queue) : g \in d.queue[k].modified /\ d.queue[k].data[g] = d.data[g]
    BY DEF Shown
  <2>1. Last \in 1..Len(d.queue) /\ 1..Len(m.queue) \subseteq 1..Len(d.queue)
    BY <1>7, <1>8
  <2>2. CASE g = f
    BY <1>6, <1>7, <1>8, <2>1, <2>2
  <2>3. CASE g # f
    <3>1. d.data[g] = m.data[g]
      BY <1>6, <1>7, <2>3
    <3>2. PICK k \in 1..Len(m.queue) : g \in m.queue[k].modified /\ m.queue[k].data[g] = m.data[g]
      BY <1>3, <3>1 DEF InTurn, Shown
    <3> QED
      BY <1>7, <1>8, <2>1, <3>1, <3>2
  <2> QED
    BY <2>2, <2>3
<1>19. (InTurn(d))'
  BY <1>2, <1>4, <1>7, <1>9, <1>14, <1>16, <1>17, <1>18 DEF InTurn, Creates
<1>20. managers' = [managers EXCEPT ![p] = d]
  BY <1>5 DEF Settings!Becomes
<1>21. \A q \in Process : q = p
  BY DEF Alone
<1> QED
  BY <1>2, <1>4, <1>9, <1>19, <1>20, <1>21 DEF AloneInv, FileIsLatest

\* The write at the head of the queue is stored.
LEMMA StoreAlone ==
  ASSUME AloneInv, NEW p \in Process, Process = {p}, NEW d \in Lined, NEW w,
         managers[p].queue # <<>>, w = Head(managers[p].queue),
         Settings!Stores(Settings!Merged(settings.fields, w)), Settings!Becomes(p, d),
         d.data = managers[p].data, d.modified = {}, d.creating = <<>>,
         d.queue = Tail(managers[p].queue), sets' = sets
  PROVE  AloneInv'
<1>1. PICK m \in Lined : m = managers[p] /\ InTurn(m)
  BY DEF AloneInv
<1>2. /\ Len(m.queue) \in Nat \ {0} /\ w = m.queue[1] /\ w \in Snapshots
      /\ Len(d.queue) = Len(m.queue) - 1 /\ \A k \in 1..Len(d.queue) : d.queue[k] = m.queue[k + 1]
  BY <1>1, WaitingTyped
<1> DEFINE fields == Settings!Merged(settings.fields, w)
<1>3. /\ fields \in Values
      /\ \A f \in Field : fields[f] = IF f \in w.modified THEN w.data[f] ELSE settings.fields[f]
  BY <1>2 DEF AloneInv, Settings!Merged, Snapshots, Values
<1>4. Settings!Stores(fields)
  OBVIOUS
<1> HIDE DEF fields
<1>5. 1 \in Spots(m) /\ Waiting(m, 1) = w
  BY <1>2 DEF Spots, Waiting
<1>6. \A f \in w.modified : /\ fields[f] \in 1..sets /\ f \in Field /\ settings.fields[f] <= fields[f]
                            /\ fields[f] \in stored => fields[f] = settings.fields[f]
  <2>1. w.modified \subseteq Field
    BY <1>2 DEF Snapshots
  <2> QED
    BY <1>1, <1>3, <1>5, <2>1 DEF InTurn, Follows
<1>7. \A f \in Field : fields[f] \in stored => fields[f] = settings.fields[f]
  BY <1>3, <1>6
<1>8. FileIsLatest
  BY DEF AloneInv
<1>9. /\ settings' \in [exists : {TRUE}, fields : Values] /\ settings'.exists = TRUE
      /\ settings'.fields = fields
      /\ latest' \in Values /\ FileIsLatest' /\ stored' = stored \cup {fields[f] : f \in Field}
  BY <1>3, <1>4, <1>7, <1>8, StoresLatest
<1>10. \A f \in Field : fields[f] \in 0..sets /\ settings.fields[f] <= fields[f]
  <2>1. \A f \in Field : settings.fields[f] \in 0..sets
    BY <1>8 DEF AloneInv, FileIsLatest
  <2>2. \A y \in 0..sets : y <= y
    OBVIOUS
  <2>3. 1..sets \subseteq 0..sets
    BY DEF AloneInv
  <2> QED
    BY <1>3, <1>6, <2>1, <2>2, <2>3
<1>11. stored' \subseteq 0..sets
  BY <1>9, <1>10 DEF AloneInv
<1>12. \A k \in Spots(d) : k + 1 \in Spots(m) /\ 1 <= k + 1
  BY <1>2 DEF Spots
<1>13. \A k \in Spots(d) : \A f \in Waiting(d, k).modified :
         f \in Waiting(m, k + 1).modified /\ Waiting(d, k).data[f] = Waiting(m, k + 1).data[f]
  <2>1. \A k \in Spots(d) : k \in 1..Len(d.queue) \/ k = Len(d.queue) + 1
    BY <1>2 DEF Spots
  <2>2. \A k \in 1..Len(d.queue) : k # Len(d.queue) + 1 /\ k + 1 # Len(m.queue) + 1
    BY <1>2
  <2> QED
    BY <1>2, <2>1, <2>2 DEF Waiting
<1>14. Rises(d) /\ Separate(d)
  <2>1. Len(d.queue) + 1 = Len(m.queue) /\ 1 \in {0, 1}
    BY <1>2
  <2> QED
    BY <1>1, <1>13, <2>1, FewerWait DEF InTurn
<1>15. Follows(d, sets, fields, stored')
  <2> SUFFICES ASSUME NEW k \in Spots(d), NEW f \in Waiting(d, k).modified, NEW x, x = Waiting(d, k).data[f]
               PROVE  x \in 1..sets /\ fields[f] <= x /\ (x \in stored' => x = fields[f])
    BY DEF Follows
  <2>1. /\ x \in 1..sets /\ settings.fields[f] <= x /\ f \in Field
        /\ x \in stored => x = settings.fields[f]
        /\ f \in Waiting(m, k + 1).modified /\ Waiting(m, k + 1).data[f] = x
    BY <1>1, <1>12, <1>13, WaitingTyped DEF InTurn, Follows
  <2>2. fields[f] <= x
    <3>1. CASE f \in w.modified
      BY <1>1, <1>3, <1>5, <1>12, <2>1, <3>1 DEF InTurn, Rises
    <3>2. CASE f \notin w.modified
      BY <1>3, <2>1, <3>2
    <3> QED
      BY <3>1, <3>2
  <2>3. ASSUME x \in stored PROVE x = fields[f]
    <3>1. fields[f] <= x /\ x <= fields[f] /\ x \in Int /\ fields[f] \in Int
      BY <1>10, <2>1, <2>2, <2>3
    <3> QED
      BY <3>1
  <2>4. ASSUME NEW g \in Field, x = fields[g], x \notin stored PROVE x = fields[f]
    <3>1. g \in w.modified
      BY <1>3, <1>8, <2>4 DEF FileIsLatest
    <3>2. Waiting(m, 1).data[g] = Waiting(m, k + 1).data[f]
      BY <1>3, <1>5, <2>1, <2>4, <3>1
    <3>3. g = f
      BY <1>1, <1>5, <1>12, <2>1, <3>1, <3>2 DEF InTurn, Separate
    <3> QED
      BY <2>4, <3>3
  <2> QED
    BY <1>9, <2>1, <2>2, <2>3, <2>4
<1>16. Shown(d, stored')
  <2> SUFFICES ASSUME NEW f \in Field, m.data[f] \notin stored'
               PROVE  \E k \in 1..Len(d.queue) : f \in d.queue[k].modified /\ d.queue[k].data[f] = m.data[f]
    BY <1>1 DEF Shown
  <2>1. PICK k \in 1..Len(m.queue) : f \in m.queue[k].modified /\ m.queue[k].data[f] = m.data[f]
    BY <1>1, <1>9 DEF InTurn, Shown
  <2>2. k # 1
    BY <1>2, <1>3, <1>9, <2>1
  <2>3. k - 1 \in 1..Len(d.queue) /\ (k - 1) + 1 = k
    BY <1>2, <2>2
  <2> QED
    BY <1>2, <2>1, <2>3
<1>17. (InTurn(d))'
  BY <1>9, <1>14, <1>15, <1>16 DEF InTurn, Creates
<1>18. managers' = [managers EXCEPT ![p] = d]
  BY DEF Settings!Becomes
<1> QED
  BY <1>9, <1>11, <1>17, <1>18 DEF AloneInv

\* A manager that changes neither its queue nor the values that are marked.
LEMMA RestAlone ==
  ASSUME AloneInv, NEW p \in Process, Process = {p}, NEW d \in Lined, Settings!Becomes(p, d),
         d.queue = managers[p].queue, Creates(d),
         \/ d.modified = managers[p].modified /\ d.data = managers[p].data
         \/ d.modified = {} /\ d.data = settings.fields,
         UNCHANGED <<settings, sets, stored, latest>>
  PROVE  AloneInv'
<1>1. PICK m \in Lined : m = managers[p] /\ InTurn(m)
  BY DEF AloneInv
<1>2. \A k \in Spots(d) : k \in Spots(m) /\ \A f \in Waiting(d, k).modified :
         f \in Waiting(m, k).modified /\ Waiting(d, k).data[f] = Waiting(m, k).data[f]
  BY <1>1 DEF Spots, Waiting
<1>3. Rises(d) /\ Separate(d)
  <2>1. \A k \in Spots(d) : k + 0 = k
    BY WaitingTyped DEF Spots
  <2>2. Len(d.queue) + 0 = Len(m.queue)
    BY <1>1, WaitingTyped
  <2> QED
    BY <1>1, <1>2, <2>1, <2>2, FewerWait DEF InTurn
<1>4. Follows(d, sets, settings.fields, stored)
  BY <1>1, <1>2 DEF InTurn, Follows
<1>5. Shown(d, stored)
  BY <1>1 DEF InTurn, Shown, AloneInv, FileIsLatest
<1>6. (InTurn(d))'
  BY <1>3, <1>4, <1>5 DEF InTurn, Creates
<1>7. managers' = [managers EXCEPT ![p] = d]
  BY DEF Settings!Becomes
<1> QED
  BY <1>6, <1>7 DEF AloneInv, FileIsLatest

LEMMA DoneTyped ==
  ASSUME NEW m \in Lined, m.queue # <<>>
  PROVE  /\ Settings!Done(m) \in Lined /\ Settings!Done(m).queue = Tail(m.queue)
         /\ Settings!Done(m).data = m.data /\ Settings!Done(m).modified = m.modified
         /\ Settings!Done(m).creating = m.creating
<1>1. PICK n \in Int : n = IF m.awaits > 0 THEN m.awaits - 1 ELSE m.awaits
  BY DEF Lined
<1>2. PICK q \in Seq(Snapshots) : q = Tail(m.queue)
  <2>1. m.queue \in Seq(Snapshots)
    BY DEF Lined
  <2> QED
    BY <2>1, HeadTailProperties
<1>3. Settings!Done(m) = [m EXCEPT !.queue = q, !.awaits = n]
  BY <1>1, <1>2 DEF Settings!Done, Lined
<1> QED
  BY <1>2, <1>3 DEF Lined

LEMMA WriteAlone ==
  ASSUME Alone, AloneInv, NEW p \in Process, Settings!Write(p) \/ Settings!Create(p)
  PROVE  AloneInv'
<1>1. PICK m \in Lined : m = managers[p] /\ InTurn(m)
  BY DEF AloneInv
<1>2. Process = {p}
  BY DEF Alone
<1>3. m.queue # <<>>
  BY <1>1 DEF Settings!Write, Settings!Create, Settings!Idle, InTurn, Creates
<1>4. PICK w \in Snapshots : w = Head(m.queue)
  BY <1>3 DEF Lined
<1>5. PICK c \in Lined : c = Settings!Done(m)
  BY <1>3, DoneTyped
<1>6. c.queue = Tail(m.queue) /\ c.data = m.data /\ c.modified = m.modified /\ c.creating = m.creating
  BY <1>3, <1>5, DoneTyped
<1>7. sets' = sets
  BY DEF Settings!Write, Settings!Create
<1>8. CASE /\ Settings!Write(p) /\ settings.exists
           /\ Settings!Stores(Settings!Merged(settings.fields, Head(m.queue)))
           /\ Settings!Becomes(p, [Settings!Done(m) EXCEPT !.modified = {}])
  <2>1. PICK d \in Lined : d = [c EXCEPT !.modified = {}]
    BY DEF Lined
  <2>2. d.queue = Tail(m.queue) /\ d.data = m.data /\ d.modified = {} /\ d.creating = <<>>
    BY <1>1, <1>6, <1>8, <2>1 DEF Lined, Settings!Write, Settings!Idle
  <2>3. Settings!Becomes(p, d)
    BY <1>5, <1>8, <2>1
  <2> QED
    BY <1>1, <1>2, <1>3, <1>4, <1>7, <1>8, <2>2, <2>3, StoreAlone
<1>9. CASE /\ Settings!Write(p) /\ ~settings.exists
           /\ Settings!Becomes(p, [m EXCEPT !.creating = <<Settings!Merged(Settings!AtFirst, Head(m.queue))>>])
           /\ UNCHANGED <<settings, stored, latest>>
  <2>1. settings.fields = Settings!AtFirst /\ settings.exists = FALSE
    BY <1>9 DEF AloneInv
  <2>2. PICK v \in Values : v = Settings!Merged(settings.fields, w)
    BY DEF AloneInv, Settings!Merged, Snapshots, Values
  <2>3. PICK d \in Lined : d = [m EXCEPT !.creating = <<v>>]
    BY DEF Lined
  <2>4. /\ d.queue = m.queue /\ d.modified = m.modified /\ d.data = m.data /\ d.creating = <<v>>
    BY <2>3 DEF Lined
  <2>5. Settings!Becomes(p, d) /\ Creates(d)
    BY <1>3, <1>4, <1>9, <2>1, <2>2, <2>3, <2>4 DEF Creates
  <2> QED
    BY <1>1, <1>2, <1>7, <1>9, <2>4, <2>5, RestAlone
<1>10. CASE Settings!Create(p)
  <2>1. m.creating = <<Settings!Merged(settings.fields, w)>>
    BY <1>1, <1>4, <1>10 DEF Settings!Create, Settings!Idle, InTurn, Creates
  <2>2. Settings!Stores(Settings!Merged(settings.fields, w))
    BY <1>1, <1>10, <2>1 DEF Settings!Create
  <2>3. PICK d \in Lined : d = [c EXCEPT !.modified = {}, !.creating = <<>>]
    BY DEF Lined
  <2>4. d.queue = Tail(m.queue) /\ d.data = m.data /\ d.modified = {} /\ d.creating = <<>>
    BY <1>6, <2>3 DEF Lined
  <2>5. Settings!Becomes(p, d)
    BY <1>1, <1>5, <1>10, <2>3 DEF Settings!Create
  <2> QED
    BY <1>1, <1>2, <1>3, <1>4, <1>7, <2>2, <2>4, <2>5, StoreAlone
<1> QED
  BY <1>1, <1>8, <1>9, <1>10 DEF Settings!Write, Alone

LEMMA ReloadAlone ==
  ASSUME Alone, AloneInv, NEW p \in Process, Settings!Reload(p) \/ Settings!Reloaded(p)
  PROVE  AloneInv'
<1>1. PICK m \in Lined : m = managers[p] /\ m.creating = <<>>
  BY DEF AloneInv, Settings!Reload, Settings!Reloaded, Settings!Idle
<1>2. UNCHANGED <<settings, sets, stored, latest>> /\ Process = {p}
  BY DEF Alone, Settings!Reload, Settings!Reloaded
<1>3. CASE Settings!Reload(p)
  <2>1. PICK n \in Int : n = Len(m.queue)
    BY WaitingTyped
  <2>2. PICK d \in Lined : d = [m EXCEPT !.awaits = n]
    BY DEF Lined
  <2>3. /\ Settings!Becomes(p, d) /\ d.queue = m.queue /\ d.modified = m.modified
        /\ d.data = m.data /\ d.creating = <<>>
    BY <1>1, <1>3, <2>1, <2>2 DEF Settings!Reload, Lined
  <2> QED
    BY <1>1, <1>2, <2>3, RestAlone DEF Creates
<1>4. CASE Settings!Reloaded(p)
  <2>1. PICK v \in Values : v = settings.fields
    BY DEF AloneInv
  <2>2. PICK c \in Lined : c = [m EXCEPT !.awaits = -1, !.modified = {}]
    <3>1. -1 \in Int
      OBVIOUS
    <3> QED
      BY <3>1 DEF Lined
  <2>3. c.queue = m.queue /\ c.modified = {} /\ c.creating = <<>>
    BY <1>1, <2>2 DEF Lined
  <2>4. PICK d \in Lined : d = [c EXCEPT !.data = v, !.loadError = FALSE]
    BY DEF Lined
  <2>5. d.queue = m.queue /\ d.modified = {} /\ d.data = v /\ d.creating = <<>>
    BY <2>3, <2>4 DEF Lined
  <2>6. Settings!Becomes(p, d)
    BY <1>1, <1>4, <2>1, <2>2, <2>4 DEF Settings!Reloaded, Alone
  <2> QED
    BY <1>1, <1>2, <2>1, <2>5, <2>6, RestAlone DEF Creates
<1> QED
  BY <1>3, <1>4

LEMMA AloneNext == ASSUME Alone, AloneInv, [Settings!Next]_Settings!vars PROVE AloneInv'
<1>1. CASE UNCHANGED Settings!vars
  <2>1. UNCHANGED <<settings, managers, sets, stored, latest>>
    BY <1>1 DEF Settings!vars
  <2>2. \A m : (InTurn(m))' <=> InTurn(m)
    BY <2>1 DEF InTurn, Creates
  <2> QED
    BY <2>1, <2>2 DEF AloneInv, FileIsLatest
<1>2. ASSUME NEW f \in Field, Settings!Edit(f) PROVE FALSE
  BY <1>2 DEF Settings!Edit, Alone
<1> QED
  BY <1>1, <1>2, SetAlone, WriteAlone, ReloadAlone DEF Settings!Next

LEMMA AloneHolds == ASSUME AloneInv PROVE Settings!SettingsSurvive
  BY DEF AloneInv, InTurn, Shown, FileIsLatest, Settings!SettingsSurvive

\* One process by itself may set values faster than they are written, and create the
\* file with the first of them: its writes go into the file in the order in which the
\* values were set, so that none gives way to an older one (enqueueWrite,
\* persistScopedSettings, withLock), if it can read and lock the file.
THEOREM FirstSettingsTheorem ==
  ASSUME Alone PROVE Settings!Spec => []Settings!SettingsSurvive
  BY AloneInit, AloneNext, AloneHolds, PTL DEF Settings!Spec
===============================================================================
