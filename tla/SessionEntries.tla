---------------------------- MODULE SessionEntries ----------------------------
(***************************************************************************)
(* The entries of a session (core/session-manager.ts) and what is computed *)
(* from them: the index, the path from the root to an entry, and the       *)
(* context sent to the model.  Entries are numbered in the order they are  *)
(* made; texts, timestamps and models are left out.                        *)
(***************************************************************************)
EXTENDS Naturals, FiniteSets, SequencesExt, Functions

Root == 0   \* the null parent and the null leaf

\* "setting" is thinking_level_change; the other entries without a message (model
\* change, session name, custom) are appended alike.  "user" and "assistant" are
\* message entries; custom_message behaves as "user".
EntryTypes == {"user", "assistant", "setting", "compaction", "branch_summary", "label"}

\* ref is the target of a label, set or cleared as "on" says, and the first
\* kept entry of a compaction.
Entry(type, id, parentId, ref, on) ==
  [type |-> type, id |-> id, parentId |-> parentId, ref |-> ref, on |-> on]
Plain(type, id, parentId) == Entry(type, id, parentId, Root, FALSE)
Header == Plain("session", Root, Root)

\* The entries of some types, in order.
OfTypes(entries, types) ==
  LET kept[i \in 0..Len(entries)] ==
        IF i = 0 THEN <<>>
        ELSE IF entries[i].type \in types THEN Append(kept[i - 1], entries[i])
        ELSE kept[i - 1]
  IN  kept[Len(entries)]

\* All but the header.
Proper(entries) == OfTypes(entries, EntryTypes)

\* byId.  Entries never change, so those of one id are equal and the map is the
\* set of them.
ById(entries) == {e \in ToSet(entries) : e.type \in EntryTypes}
IdsOf(entries) == {e.id : e \in ById(entries)}

\* labelsById, once an entry more is in it.
LabelAfter(labels, e) ==
  IF e.type # "label" THEN labels
  ELSE IF e.on THEN labels \cup {e.ref} ELSE labels \ {e.ref}

\* labelsById: the targets whose last label entry set a label.
Labels(entries) ==
  LET changes(target) == {i \in DOMAIN entries : entries[i].type = "label" /\ entries[i].ref = target} IN
  {entries[i].ref : i \in {j \in DOMAIN entries :
     /\ entries[j].type = "label" /\ entries[j].on
     /\ \A k \in changes(entries[j].ref) : k <= j}}

\* getBranch: the entries from the root, or from the first whose parent is not
\* in the session, to an entry.  A parent is older than its children.
GetBranch(entries, leafId) ==
  LET byId == ById(entries)
      path[id \in 0..leafId] ==
        IF \A e \in byId : e.id # id THEN <<>>
        ELSE LET e == CHOOSE e \in byId : e.id = id IN Append(path[e.parentId], e)
  IN  path[leafId]

LastOf(path, type) == SelectLastInSeq(path, LAMBDA e : e.type = type)

IsMessage(e) == e.type \in {"user", "assistant", "branch_summary"}

\* Defect: what a compaction keeps starts after its first kept entry.
Kept_AfterFirst(path, c) ==
  {i \in DOMAIN path : i > c \/ \E k \in 1..(i - 1) : k < c /\ path[k].id = path[c].ref}

\* Defect: the summarized messages are sent along with the summary.
Kept_All(path, c) == DOMAIN path

\* The positions of a path that its last compaction, at c, did not summarize.
Kept(path, c) ==
  {i \in DOMAIN path : i > c \/ \E k \in 1..i : k < c /\ path[k].id = path[c].ref}

\* buildSessionContext: the last compaction's summary, the messages it kept, and
\* the messages since; with the thinking level in force.
PathContext(path) ==
  LET c == LastOf(path, "compaction")
      s == LastOf(path, "setting")
      shown == {i \in Kept(path, c) : IsMessage(path[i])}
  IN  [messages |-> (IF c = 0 THEN <<>> ELSE <<path[c].id>>)
                      \o [k \in 1..Cardinality(shown) |-> path[SetToSortSeq(shown, <)[k]].id],
       setting  |-> IF s = 0 THEN Root ELSE path[s].id]
Context(entries, leafId) == PathContext(GetBranch(entries, leafId))

\* Where prepareCompaction may cut a path: from the first entry the last
\* compaction kept, or behind it, and at no compaction.
CutPoints(path) ==
  LET c == LastOf(path, "compaction")
      first == SelectInSeq(path, LAMBDA e : c > 0 /\ e.id = path[c].ref)
      start == IF first = 0 THEN c + 1 ELSE first
  IN  IF path = <<>> \/ Last(path).type = "compaction" THEN {}
      ELSE {path[i].id : i \in {j \in DOMAIN path : j >= start /\ path[j].type # "compaction"}}
===============================================================================
