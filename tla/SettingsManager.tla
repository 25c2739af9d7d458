--------------------------- MODULE SettingsManager ---------------------------
(***************************************************************************)
(* The settings of one scope, shared by the processes of a user:            *)
(* packages/coding-agent/src/core/settings-manager.ts.                      *)
(*                                                                          *)
(* A field is a leaf of the settings: a key, or a key of a nested object.   *)
(* A value is the number of the call that set it, 0 for what was there at   *)
(* first. Only a write that finds no file is not atomic: any other reads    *)
(* and writes under the lock, in one synchronous step.                      *)
(***************************************************************************)
EXTENDS Integers, Sequences, FiniteSets

CONSTANTS
  Process, Field,
  MaxSets,   \* values set
  MaxReloads,
  Happens    \* among "contention", "unreadable", "burst", "missing", "edit"

SettingsAssumption ==
  /\ {MaxSets, MaxReloads} \subseteq Nat
  /\ Happens \subseteq {"contention", "unreadable", "burst", "missing", "edit"}

VARIABLES
  settings,  \* settings.json: whether it exists, and its fields
  managers,  \* the managers, one in each process
  sets,      \* values set so far
  stored,    \* the values that reached the file
  latest,    \* of each field, the value that reached the file last for the first time
  reloads

vars == <<settings, managers, sets, stored, latest, reloads>>

AtFirst == [f \in Field |-> 0]

\* A manager: globalSettings, modifiedFields, globalSettingsLoadError, the
\* writes queued, how many of them a reload awaits (-1: none), and what a write
\* that found no file is about to store.
NewManager ==
  [data |-> AtFirst, modified |-> {}, loadError |-> FALSE, queue |-> <<>>, awaits |-> -1,
   creating |-> <<>>]

Idle(p) == managers[p].creating = <<>>
Becomes(p, manager) == managers' = [managers EXCEPT ![p] = manager]

-----------------------------------------------------------------------------
\* A setter: the field is marked, and save() queues a write of a snapshot. Two
\* may be called in a row before the first is written ("burst").
Set(p, f) ==
  LET m == managers[p]
      data == [m.data EXCEPT ![f] = sets + 1]
      modified == m.modified \cup {f}
  IN
  /\ Idle(p) /\ sets < MaxSets /\ (m.queue = <<>> \/ "burst" \in Happens)
  /\ sets' = sets + 1
  /\ Becomes(p, [m EXCEPT !.data = data, !.modified = modified,
                          !.queue = IF m.loadError THEN @
                                    ELSE Append(@, [data |-> data, modified |-> modified])])
  /\ UNCHANGED <<settings, stored, latest, reloads>>

\* Defect: the whole snapshot is written.
Merged_Snapshot(current, write) == write.data

\* persistScopedSettings: the fields modified go into what the file has.
Merged(current, write) ==
  [f \in Field |-> IF f \in write.modified THEN write.data[f] ELSE current[f]]

\* What the file holds now: a value seen for the first time is its field's latest.
Stores(fields) ==
  /\ settings' = [exists |-> TRUE, fields |-> fields]
  /\ stored' = stored \cup {fields[f] : f \in Field}
  /\ latest' = [f \in Field |-> IF fields[f] \notin stored THEN fields[f] ELSE latest[f]]

\* The write at the head of the queue is done, well or not.
Done(m) == [m EXCEPT !.queue = Tail(@), !.awaits = IF @ > 0 THEN @ - 1 ELSE @]

\* Defect: fields are no longer marked once their write is queued, even if it fails.
Fails_Unmarked(m) == [Done(m) EXCEPT !.modified = {}]
\* The error is recorded; the fields stay marked for the next write.
Fails(m) == Done(m)

\* The task of enqueueWrite, in its turn: a reload that awaits nothing more
\* goes first.
Write(p) ==
  LET m == managers[p] IN
  /\ Idle(p) /\ m.queue # <<>> /\ m.awaits # 0
  /\ \/ /\ settings.exists
        /\ Stores(Merged(settings.fields, Head(m.queue)))
        /\ Becomes(p, [Done(m) EXCEPT !.modified = {}])
     \/ /\ ~settings.exists
        /\ Becomes(p, [m EXCEPT !.creating = <<Merged(AtFirst, Head(m.queue))>>])
        /\ UNCHANGED <<settings, stored, latest>>
     \/ /\ "contention" \in Happens
        /\ Becomes(p, Fails(m)) /\ UNCHANGED <<settings, stored, latest>>
  /\ UNCHANGED <<sets, reloads>>

\* The file was missing; by now it may exist, and is locked and overwritten.
Create(p) ==
  LET m == managers[p] IN
  /\ ~Idle(p)
  /\ Stores(Head(m.creating))
  /\ Becomes(p, [Done(m) EXCEPT !.modified = {}, !.creating = <<>>])
  /\ UNCHANGED <<sets, reloads>>

\* The user edits the file.
Edit(f) ==
  /\ "edit" \in Happens /\ settings.exists /\ sets < MaxSets
  /\ sets' = sets + 1
  /\ Stores([settings.fields EXCEPT ![f] = sets + 1])
  /\ UNCHANGED <<managers, reloads>>

-----------------------------------------------------------------------------
\* reload() awaits the writes that are queued when it is called.
Reload(p) ==
  /\ Idle(p) /\ managers[p].awaits = -1 /\ reloads < MaxReloads
  /\ reloads' = reloads + 1
  /\ Becomes(p, [managers[p] EXCEPT !.awaits = Len(managers[p].queue)])
  /\ UNCHANGED <<settings, sets, stored, latest>>

\* The marks are cleared even if the file cannot be read.
Reloaded(p) ==
  LET m == [managers[p] EXCEPT !.awaits = -1, !.modified = {}] IN
  /\ Idle(p) /\ managers[p].awaits = 0
  /\ \/ Becomes(p, [m EXCEPT !.data = settings.fields, !.loadError = FALSE])
     \/ "unreadable" \in Happens /\ Becomes(p, [m EXCEPT !.loadError = TRUE])
  /\ UNCHANGED <<settings, sets, stored, latest, reloads>>

Init ==
  /\ settings = [exists |-> "missing" \notin Happens, fields |-> AtFirst]
  /\ managers = [p \in Process |-> NewManager]
  /\ sets = 0 /\ stored = {0} /\ latest = AtFirst /\ reloads = 0

Next ==
  \/ \E p \in Process :
       \/ \E f \in Field : Set(p, f)
       \/ Write(p) \/ Create(p) \/ Reload(p) \/ Reloaded(p)
  \/ \E f \in Field : Edit(f)

Spec == Init /\ [][Next]_vars

-----------------------------------------------------------------------------
\* No setting is lost. The file never goes back to a value of a field that was
\* replaced since, by this process, another, or the user in an editor. And what
\* a manager shows was loaded or stored, or it is queued or marked, so that the
\* next write stores it: a failed write forgets nothing (persistScopedSettings,
\* enqueueWrite, clearModifiedScope).
SettingsSurvive ==
  /\ settings.fields = latest
  /\ \A p \in Process, f \in Field :
       LET m == managers[p] IN
       \/ m.data[f] \in stored \/ f \in m.modified
       \/ \E k \in DOMAIN m.queue : f \in m.queue[k].modified /\ m.queue[k].data[f] = m.data[f]
===============================================================================
