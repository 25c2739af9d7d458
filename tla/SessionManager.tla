---------------------------- MODULE SessionManager ----------------------------
(***************************************************************************)
(* core/session-manager.ts and the session switches of                     *)
(* core/agent-session-runtime.ts: a session in memory, the JSONL files it  *)
(* is appended to, and a process that may die between two writes.  Every   *)
(* method is synchronous, so one action is one call.                       *)
(***************************************************************************)
EXTENDS SessionEntries

CONSTANTS Uses,         \* the optional operations an instance exercises
          Disturbances, \* of "crash", "torn", "empty"
          MaxEntries,   \* bound on the entries made
          MaxFiles      \* bound on the session files named
ASSUME UsesAssumption == Uses \subseteq {"memory", "label", "setting", "branch", "compact", "extract", "fork"}
ASSUME DisturbancesAssumption == Disturbances \subseteq {"crash", "torn", "empty"}
ASSUME BoundsAssumption == MaxEntries \in Nat /\ MaxFiles \in Nat

VARIABLES
  up,        \* a process runs
  manager,   \* its SessionManager
  disk,      \* the session files that exist, each a sequence of lines
  created,   \* the entries made so far
  files      \* the session files named so far
vars == <<up, manager, disk, created, files>>

\* A line cut short by a crash, and one that ran into such a line.
Torn == Plain("torn", Root, Root)
Garbage == Plain("garbage", Root, Root)

HasAssistant(entries) == \E e \in ToSet(entries) : e.type = "assistant"
Ids == IdsOf(manager.fileEntries)

\* newSession: a header alone, in a file not yet written.
New(persist, file) ==
  [persist |-> persist, sessionFile |-> file, flushed |-> FALSE,
   fileEntries |-> <<Header>>, labels |-> {}, leafId |-> Root]

\* Defect: the labels of the entries before are kept.
Indexed_LabelsKept(m, entries) ==
  LET proper == Proper(entries) IN
  [m EXCEPT !.fileEntries = entries, !.labels = @ \cup Labels(entries),
            !.leafId = IF proper = <<>> THEN Root ELSE Last(proper).id]

\* Defect: the leaf stays where it was.
Indexed_LeafKept(m, entries) ==
  [m EXCEPT !.fileEntries = entries, !.labels = Labels(entries)]

\* _buildIndex: the labels replayed and the leaf at the last entry.
Indexed(m, entries) ==
  LET proper == Proper(entries) IN
  [m EXCEPT !.fileEntries = entries, !.labels = Labels(entries),
            !.leafId = IF proper = <<>> THEN Root ELSE Last(proper).id]

-----------------------------------------------------------------------------
(* Files *)

Lines(d, file) == IF file \in DOMAIN d THEN d[file] ELSE <<>>
Put(d, file, lines) ==
  [f \in DOMAIN d \cup {file} |-> IF f = file THEN lines ELSE d[f]]

\* Appending to a file that ends in a torn line spoils the first new line.
AppendLines(d, file, lines) ==
  LET old == Lines(d, file) IN
  IF lines = <<>> THEN d
  ELSE Put(d, file, IF old # <<>> /\ Last(old) = Torn
                      THEN Front(old) \o <<IF Head(lines) = Torn THEN Torn ELSE Garbage>> \o Tail(lines)
                      ELSE old \o lines)

\* loadEntriesFromFile: malformed lines are skipped, and a file that does not
\* start with a header holds nothing.
Load(lines) ==
  LET valid == OfTypes(lines, EntryTypes \cup {"session"}) IN
  IF valid = <<>> \/ Head(valid).type # "session" THEN <<>> ELSE valid

\* Defect: a file with no answer in it is overwritten too.
Opened_Unanswered(file, d) ==
  LET entries == Load(Lines(d, file))
      fresh == New(TRUE, file)
  IN  IF file \notin DOMAIN d THEN [manager |-> fresh, disk |-> d]
      ELSE IF ~HasAssistant(entries)
        THEN [manager |-> [fresh EXCEPT !.flushed = TRUE], disk |-> Put(d, file, <<Header>>)]
        ELSE [manager |-> [Indexed(fresh, entries) EXCEPT !.flushed = TRUE], disk |-> d]

\* setSessionFile.  A file with no session is overwritten by a header.
Opened(file, d) ==
  LET entries == Load(Lines(d, file))
      fresh == New(TRUE, file)
  IN  IF file \notin DOMAIN d THEN [manager |-> fresh, disk |-> d]
      ELSE IF entries = <<>>
        THEN [manager |-> [fresh EXCEPT !.flushed = TRUE], disk |-> Put(d, file, <<Header>>)]
        ELSE [manager |-> [Indexed(fresh, entries) EXCEPT !.flushed = TRUE], disk |-> d]

\* Defect: a session not yet flushed appends the new entry alone.
Unwritten_EntryOnly(m) ==
  IF ~m.persist \/ ~HasAssistant(m.fileEntries) THEN <<>> ELSE <<Last(m.fileEntries)>>

\* _persist: the lines to append once the newest entry is in fileEntries.  A
\* session is written at its first answer, all of it.
Unwritten(m) ==
  IF ~m.persist \/ ~HasAssistant(m.fileEntries) THEN <<>>
  ELSE IF m.flushed THEN <<Last(m.fileEntries)>> ELSE m.fileEntries

-----------------------------------------------------------------------------
(* Appending *)

\* _appendEntry, with the label map appendLabelChange updates after it.
WithEntry(m, e) ==
  [m EXCEPT !.fileEntries = Append(@, e), !.leafId = e.id,
            !.labels = LabelAfter(@, e)]

AppendEntry(e) ==
  LET m == WithEntry(manager, e) IN
  /\ up /\ created < MaxEntries
  /\ manager' = [m EXCEPT !.flushed = IF m.persist THEN HasAssistant(m.fileEntries) ELSE @]
  /\ disk' = AppendLines(disk, m.sessionFile, Unwritten(m))
  /\ created' = created + 1
  /\ UNCHANGED <<up, files>>

\* Defect: an entry follows the one made before it, not the leaf.
NewEntry_AfterNewest(type, ref, on) ==
  Entry(type, created + 1, Last(manager.fileEntries).id, ref, on)

NewEntry(type, ref, on) == Entry(type, created + 1, manager.leafId, ref, on)

\* appendMessage and appendCustomMessageEntry.
AppendMessage(role) == AppendEntry(NewEntry(role, Root, FALSE))

\* appendThinkingLevelChange.
AppendSetting == "setting" \in Uses /\ AppendEntry(NewEntry("setting", Root, FALSE))

\* appendCompaction, at a cut prepareCompaction may have chosen on this path.
AppendCompaction ==
  /\ "compact" \in Uses
  /\ \E first \in CutPoints(GetBranch(manager.fileEntries, manager.leafId)) :
       AppendEntry(NewEntry("compaction", first, FALSE))

\* appendLabelChange: like every entry, a label becomes the leaf.
AppendLabel ==
  /\ "label" \in Uses
  /\ \E target \in Ids, on \in BOOLEAN : AppendEntry(NewEntry("label", target, on))

-----------------------------------------------------------------------------
(* Moving in the tree *)

Branch(id) ==
  /\ up /\ "branch" \in Uses /\ id \in Ids
  /\ manager' = [manager EXCEPT !.leafId = id]
  /\ UNCHANGED <<up, disk, created, files>>

ResetLeaf ==
  /\ up /\ "branch" \in Uses
  /\ manager' = [manager EXCEPT !.leafId = Root]
  /\ UNCHANGED <<up, disk, created, files>>

\* branchWithSummary moves the leaf first, so the summary is a child of it.
BranchWithSummary(id) ==
  /\ "branch" \in Uses /\ id \in Ids \cup {Root}
  /\ AppendEntry(Entry("branch_summary", created + 1, id, Root, FALSE))

-----------------------------------------------------------------------------
(* Starting sessions *)

\* Defect: only what the model is shown is taken along.
WithoutLabels_Messages(path) == OfTypes(path, {"user", "assistant", "branch_summary", "compaction"})

\* createBranchedSession takes the label entries out of the path ...
WithoutLabels(path) == OfTypes(path, EntryTypes \ {"label"})

\* ... and appends the labels in force on the entries left.  A file is written
\* only if there is an answer in it.  (The labels keep their order; here any
\* one order of their targets.)
Extracted(m, d, leafId, file, next) ==
  LET kept == WithoutLabels(GetBranch(m.fileEntries, leafId))
      targets == SetToSeq({e.id : e \in ToSet(kept)} \cap m.labels)
      lastId == IF kept = <<>> THEN Root ELSE Last(kept).id
      labels == [k \in DOMAIN targets |->
                   Entry("label", next + k, IF k = 1 THEN lastId ELSE next + k - 1,
                         targets[k], TRUE)]
      entries == <<Header>> \o kept \o labels
      n == Indexed(m, entries)
  IN  [manager |-> IF ~m.persist THEN n
                   ELSE [n EXCEPT !.sessionFile = file, !.flushed = HasAssistant(entries)],
       disk    |-> IF m.persist /\ HasAssistant(entries) THEN Put(d, file, entries) ELSE d,
       made    |-> Len(labels)]

\* createBranchedSession, on a path with at least one entry.
CreateBranchedSession(id) ==
  LET x == Extracted(manager, disk, id, files + 1, created) IN
  /\ up /\ "extract" \in Uses /\ id \in Ids
  /\ manager.persist => files < MaxFiles
  /\ created + x.made <= MaxEntries
  /\ manager' = x.manager /\ disk' = x.disk
  /\ created' = created + x.made
  /\ files' = IF manager.persist THEN files + 1 ELSE files
  /\ UNCHANGED up

\* AgentSessionRuntime.fork: from the parent of a user message.  A persisted
\* session is opened again from its file, extracted into a new file, and the
\* new file is opened.  (When the file does not hold the parent, the call
\* throws and nothing changes.)
Fork(id) ==
  /\ up /\ "fork" \in Uses /\ id \in Ids
  /\ manager.persist => files < MaxFiles
  /\ LET entry == Last(GetBranch(manager.fileEntries, id))
         parent == entry.parentId
         source == Opened(manager.sessionFile, disk)
         x == IF manager.persist
                THEN Extracted(source.manager, source.disk, parent, files + 1, created)
                ELSE Extracted(manager, disk, parent, files + 1, created)
         target == IF manager.persist THEN Opened(files + 1, x.disk) ELSE x
     IN  /\ entry.type = "user"
         /\ IF parent = Root
              THEN /\ manager' = New(manager.persist, IF manager.persist THEN files + 1 ELSE 0)
                   /\ UNCHANGED <<disk, created>>
              ELSE /\ manager.persist => parent \in IdsOf(source.manager.fileEntries)
                   /\ created + x.made <= MaxEntries
                   /\ manager' = target.manager /\ disk' = target.disk
                   /\ created' = created + x.made
  /\ files' = IF manager.persist THEN files + 1 ELSE files
  /\ UNCHANGED up

\* create and inMemory, and newSession in a running process.
NewSession(persist) ==
  /\ IF persist THEN files < MaxFiles ELSE "memory" \in Uses
  /\ up' = TRUE
  /\ manager' = New(persist, IF persist THEN files + 1 ELSE 0)
  /\ files' = IF persist THEN files + 1 ELSE files
  /\ UNCHANGED <<disk, created>>

\* open, continueRecent and switchSession, on a file there or not.
Open(file) ==
  /\ file \in 1..MaxFiles
  /\ up' = TRUE
  /\ manager' = Opened(file, disk).manager /\ disk' = Opened(file, disk).disk
  /\ files' = IF file > files THEN file ELSE files
  /\ UNCHANGED created

\* forkFrom: the whole session under a new header.
ForkFrom(file) ==
  /\ "fork" \in Uses /\ files < MaxFiles
  /\ Load(Lines(disk, file)) # <<>>
  /\ LET entries == <<Header>> \o Proper(Load(Lines(disk, file)))
         target == Opened(files + 1, Put(disk, files + 1, entries))
     IN  manager' = target.manager /\ disk' = target.disk
  /\ up' = TRUE /\ files' = files + 1
  /\ UNCHANGED created

-----------------------------------------------------------------------------
(* What happens to a process and its files *)

Crash ==
  /\ up /\ "crash" \in Disturbances
  /\ up' = FALSE /\ manager' = New(FALSE, 0)
  /\ UNCHANGED <<disk, created, files>>

\* The process dies while appending lines: some are written, the next in part.
CrashDuringAppend ==
  /\ up /\ "crash" \in Disturbances /\ created < MaxEntries
  /\ \E role \in {"user", "assistant"} :
       LET lines == Unwritten(WithEntry(manager, NewEntry(role, Root, FALSE))) IN
       \E n \in 0..Len(lines), torn \in BOOLEAN :
         /\ torn => "torn" \in Disturbances /\ n < Len(lines)
         /\ n > 0 \/ torn
         /\ disk' = AppendLines(disk, manager.sessionFile,
                                SubSeq(lines, 1, n) \o (IF torn THEN <<Torn>> ELSE <<>>))
  /\ created' = created + 1
  /\ up' = FALSE /\ manager' = New(FALSE, 0)
  /\ UNCHANGED files

\* An empty file is put at a new path.
EmptyFile ==
  /\ "empty" \in Disturbances /\ files < MaxFiles
  /\ disk' = Put(disk, files + 1, <<>>) /\ files' = files + 1
  /\ UNCHANGED <<up, manager, created>>

-----------------------------------------------------------------------------
Init ==
  /\ up = FALSE /\ manager = New(FALSE, 0)
  /\ disk = [f \in {} |-> <<>>]
  /\ created = 0 /\ files = 0

Next ==
  \/ \E role \in {"user", "assistant"} : AppendMessage(role)
  \/ AppendSetting \/ AppendCompaction \/ AppendLabel
  \/ ResetLeaf \/ \E id \in 0..MaxEntries : Branch(id) \/ BranchWithSummary(id)
  \/ \E id \in 1..MaxEntries : CreateBranchedSession(id) \/ Fork(id)
  \/ \E persist \in BOOLEAN : NewSession(persist)
  \/ \E file \in 1..MaxFiles : Open(file) \/ ForkFrom(file)
  \/ Crash \/ CrashDuringAppend \/ EmptyFile

Spec == Init /\ [][Next]_vars
===============================================================================
