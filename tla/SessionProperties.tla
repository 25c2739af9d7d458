-------------------------- MODULE SessionProperties --------------------------
(***************************************************************************)
(* What a session and its file have to guarantee, over SessionManager.     *)
(***************************************************************************)
EXTENDS SessionManager

EntrySet == [type : EntryTypes \cup {"session", "torn", "garbage"}, id : 0..MaxEntries,
             parentId : 0..MaxEntries, ref : 0..MaxEntries, on : BOOLEAN]

\* The type invariant: the leaf is always an entry of the session or null.
TypeOK ==
  /\ up \in BOOLEAN /\ created \in 0..MaxEntries /\ files \in 0..MaxFiles
  /\ manager.persist \in BOOLEAN /\ manager.flushed \in BOOLEAN
  /\ manager.sessionFile \in 0..MaxFiles
  /\ ToSet(manager.fileEntries) \subseteq EntrySet
  /\ manager.labels \subseteq Ids
  /\ manager.leafId \in Ids \cup {Root}
  /\ DOMAIN disk \subseteq 1..files
  /\ \A f \in DOMAIN disk : ToSet(disk[f]) \subseteq EntrySet

ContextOf(m) == Context(m.fileEntries, m.leafId)
ContextNow == ContextOf(manager)
ContextAt(id) == Context(manager.fileEntries, id)

\* A message appended anywhere in the tree comes at the end of the context the
\* model had before, whatever branches and compactions lie on the path
\* (appendMessage against buildSessionContext).
MessageExtendsContext ==
  [][\A role \in {"user", "assistant"} :
       AppendMessage(role) =>
         ContextOf(manager') = [ContextNow EXCEPT !.messages = Append(@, created + 1)]]_vars

\* A compaction leaves its summary and, in order, exactly the messages the
\* context had from the first kept entry on, across any number of compactions
\* and branches (appendCompaction and prepareCompaction against
\* buildSessionContext).
CompactionKeepsRecent ==
  [][LET c == Last(manager'.fileEntries)
         summaries == {e.id : e \in {f \in ById(manager.fileEntries) : f.type = "compaction"}}
     IN  created' > created /\ c.type = "compaction" =>
           ContextOf(manager').messages =
             <<c.id>> \o SelectSeq(ContextNow.messages,
                                  LAMBDA id : id >= c.ref /\ id \notin summaries)]_vars

\* The label map, kept up to date entry by entry, is the one a reload of the
\* entries would build, through extractions and reloads (appendLabelChange, createBranchedSession
\* against _buildIndex).
LabelsReplay == manager.labels = Labels(manager.fileEntries)

OnPath(id) == {e.id : e \in ToSet(GetBranch(manager.fileEntries, id))}
LabelsOn(id) == {e \in ToSet(GetBranch(manager.fileEntries, id)) : e.type = "label"}

\* Extracting a path without label entries, which is not all of the session, gives
\* a session with the context and the labels the path had (createBranchedSession).
ExtractionKeepsPlainPaths ==
  [][manager'.fileEntries # manager.fileEntries =>
       \A id \in Ids : LabelsOn(id) = {} /\ CreateBranchedSession(id) =>
         /\ ContextOf(manager') = ContextAt(id)
         /\ manager'.labels = manager.labels \cap OnPath(id)]_vars

\* "Create a new session file containing only the path from root to the
\* specified leaf": the extracted session has the context of that path.
ExtractionKeepsContext ==
  [][\A id \in Ids : CreateBranchedSession(id) => ContextOf(manager') = ContextAt(id)]_vars

\* "copies history up to the selected point": a fork starts with the context
\* in front of the forked message (fork, where the session has no labels).
ForkCopiesHistory ==
  [][\A id \in Ids : Fork(id) =>
       ContextOf(manager') = ContextAt(Last(GetBranch(manager.fileEntries, id)).parentId)]_vars

\* The same for a fork in front of which there is an answer and no label.
AnsweredForkCopiesHistory ==
  [][\A id \in Ids :
       LET before == Front(GetBranch(manager.fileEntries, id)) IN
       HasAssistant(before) /\ LabelsOn(id) = {} /\ Fork(id) =>
         ContextOf(manager') = PathContext(before)]_vars

\* A session file is one header and entries with different ids, its session's own.
FileIsWellFormed ==
  \A f \in DOMAIN disk :
    /\ disk[f] # <<>> => disk[f][1] = Header
    /\ \A i, j \in DOMAIN disk[f] : disk[f][i].id = disk[f][j].id => i = j

\* What is appended to a session with an answer is in its file: reading the file
\* again gives the same tree, labels and contexts, after any crashes and
\* reloads (_persist against setSessionFile).
ReloadIsFaithful ==
  up /\ manager.persist /\ HasAssistant(manager.fileEntries)
    => LET again == Load(Lines(disk, manager.sessionFile)) IN
       /\ ById(again) = ById(manager.fileEntries)
       /\ Labels(again) = manager.labels

\* Entries once in a file stay in it: no crash, reload, fork or extraction
\* takes one away (the session is append-only).
FilesOnlyGrow ==
  [][\A f \in DOMAIN disk :
       f \in DOMAIN disk' /\ IsPrefix(Load(disk[f]), Load(disk'[f]))]_disk
===============================================================================
