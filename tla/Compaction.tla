----------------------------- MODULE Compaction -----------------------------
(***************************************************************************)
(* What a compaction summarizes and what it keeps:                          *)
(* packages/coding-agent/src/core/compaction/compaction.ts.                 *)
(*                                                                          *)
(* The path grows by messages and by entries that are none, and is          *)
(* compacted any number of times. A summary stands for the messages it was  *)
(* made of and for what the summary given to it stands for.                 *)
(***************************************************************************)
EXTENDS Integers, Sequences, FiniteSets, FiniteSetsExt

CONSTANTS
  MaxEntries,       \* entries of the path
  Sizes,            \* estimated sizes of messages
  KeepRecentTokens, \* keepRecentTokens of the settings
  LongFirstTurns    \* a compaction may cut the turn kept first by the last one

CompactionAssumption ==
  /\ MaxEntries \in Nat /\ KeepRecentTokens \in Nat /\ Sizes \subseteq Nat
  /\ LongFirstTurns \in BOOLEAN

VARIABLE path

\* Entries of type message, by role ("bash" are results of the user's commands).
Messages == {"user", "bash", "assistant", "toolResult"}
\* A "summary" is an entry branch_summary or custom_message: a message to the
\* model, though not of type message. A "setting" is no message at all.
Kinds == Messages \cup {"summary", "setting"}

Entry(kind, size) == [kind |-> kind, size |-> size, first |-> 0, covers |-> {}]

\* getMessageFromEntryForCompaction gives something.
HasMessage(e) == e.kind \in Messages \cup {"summary"}

-----------------------------------------------------------------------------
(* findCutPoint.                                                            *)

\* Defect: results may be cut from their calls.
findValidCutPoints_Results(p, start) == {i \in start..Len(p) : HasMessage(p[i])}

findValidCutPoints(p, start) ==
  {i \in start..Len(p) : HasMessage(p[i]) /\ p[i].kind # "toolResult"}

\* estimateTokens of the messages from an entry on.
TokensFrom(p, from) ==
  MapThenSumSet(LAMBDA i : p[i].size, {i \in from..Len(p) : p[i].kind \in Messages})

\* The newest message with which the budget is reached, and the cut point at or
\* behind it; the first of all when there is none.
CutIndex(p, start) ==
  LET points == findValidCutPoints(p, start)
      reached == {i \in start..Len(p) :
                    p[i].kind \in Messages /\ TokensFrom(p, i) >= KeepRecentTokens}
      behind == {c \in points : \E i \in reached : c >= i /\ \A j \in reached : i >= j}
  IN  IF behind = {} THEN Min(points) ELSE Min(behind)

\* Entries that are no messages and stand in front of the cut are kept with it.
FirstKept(p, start) ==
  LET cut == CutIndex(p, start) IN
  IF findValidCutPoints(p, start) = {} THEN start
  ELSE Min({i \in start..cut : \A k \in i..(cut - 1) : p[k].kind \in {"summary", "setting"}})

\* findTurnStartIndex, 0 for none: a cut at anything but a user's message splits
\* a turn.
TurnStart(p, start) ==
  LET first == FirstKept(p, start)
      starts == {i \in start..first : p[i].kind \in {"user", "bash", "summary"}}
  IN  IF findValidCutPoints(p, start) = {} \/ p[first].kind = "user" \/ starts = {}
      THEN 0 ELSE Max(starts)

-----------------------------------------------------------------------------
(* prepareCompaction and compact.                                           *)

Compactions(p) == {i \in DOMAIN p : p[i].kind = "compaction"}
Previous(p) == Max(Compactions(p))

\* The previous compaction's kept boundary, which is on the path.
BoundaryStart(p) == IF Compactions(p) = {} THEN 1 ELSE p[Previous(p)].first

MessagesIn(p, from, to) == {i \in from..to : HasMessage(p[i])}

HistoryEnd(p) ==
  LET start == BoundaryStart(p) IN
  IF TurnStart(p, start) # 0 THEN TurnStart(p, start) ELSE FirstKept(p, start)
messagesToSummarize(p) == MessagesIn(p, BoundaryStart(p), HistoryEnd(p) - 1)

\* Empty, unless a turn is split.
turnPrefixMessages(p) == MessagesIn(p, HistoryEnd(p), FirstKept(p, BoundaryStart(p)) - 1)

\* A turn prefix without history in front of it: the summary is "No prior
\* history." and that of the prefix.
WithoutHistory(p) == turnPrefixMessages(p) # {} /\ messagesToSummarize(p) = {}

\* What generateSummary is told of the past.
previousSummary(p) ==
  IF Compactions(p) = {} \/ WithoutHistory(p) THEN {} ELSE p[Previous(p)].covers

\* Defect: the prefix of a split turn is in no summary.
Summarized_History(p) == previousSummary(p) \cup messagesToSummarize(p)

Summarized(p) == previousSummary(p) \cup messagesToSummarize(p) \cup turnPrefixMessages(p)

CompactionEntry(p) ==
  [kind |-> "compaction", size |-> 0,
   first |-> FirstKept(p, BoundaryStart(p)), covers |-> Summarized(p)]

-----------------------------------------------------------------------------
\* appendMessage and the other appends. Results stand behind their calls.
AppendEntry ==
  /\ Len(path) < MaxEntries
  /\ \E kind \in Kinds, size \in Sizes :
       /\ kind = "toolResult" =>
            path # <<>> /\ path[Len(path)].kind \in {"assistant", "toolResult"}
       /\ path' = Append(path, Entry(kind, size))

Compact ==
  /\ Len(path) < MaxEntries /\ path # <<>> /\ path[Len(path)].kind # "compaction"
  /\ LongFirstTurns \/ Compactions(path) = {} \/ ~WithoutHistory(path)
  /\ path' = Append(path, CompactionEntry(path))

Init == path = <<>>
Next == AppendEntry \/ Compact
Spec == Init /\ [][Next]_path

-----------------------------------------------------------------------------
\* However often a path is compacted, each message in front of the newest
\* compaction is sent to the model from then on or is in its summary, by way of
\* earlier summaries too (prepareCompaction, compact).
NothingIsForgotten ==
  Compactions(path) # {} =>
    \A i \in 1..(Previous(path) - 1) :
      HasMessage(path[i]) => i >= path[Previous(path)].first \/ i \in path[Previous(path)].covers

\* A compaction keeps no result without its call, and no more than the recent
\* messages asked for and one, unless nothing can be cut behind the last call
\* (findCutPoint).
KeepsWhatIsRecent ==
  LET last == Previous(path)
      kept == {i \in path[last].first..(last - 1) : path[i].kind \in Messages}
  IN  Compactions(path) # {} /\ kept # {} =>
        /\ path[Min(kept)].kind # "toolResult"
        /\ \/ MapThenSumSet(LAMBDA i : path[i].size, kept \ {Min(kept)}) < KeepRecentTokens
           \/ path[Max(kept)].kind = "toolResult"
           \/ KeepRecentTokens = 0

CompactionsKeepHistory == NothingIsForgotten /\ KeepsWhatIsRecent
===============================================================================
