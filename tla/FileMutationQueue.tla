-------------------------- MODULE FileMutationQueue --------------------------
(***************************************************************************)
(* core/tools/file-mutation-queue.ts with the two tools that use it, edit  *)
(* and write.  Calls run on one thread: each action is the code between    *)
(* two awaits.  A call queues behind the promise the map holds for its     *)
(* key, runs its tool's I/O, and releases whoever queued behind it.        *)
(*                                                                         *)
(* chainedQueue of a call resolves when its own currentQueue and its       *)
(* nextQueue have; a call releases only after its currentQueue resolved,   *)
(* so a chained promise is resolved exactly when its call is done.         *)
(***************************************************************************)
EXTENDS Naturals, Sequences, SequencesExt

CONSTANTS Op,       \* the tool calls, each made once
          Tools,    \* the tools called, of edit and write
          Path,     \* the paths calls name
          RealOf,   \* the file a path leads to once that file exists
          Existing, \* the files there at the start
          Aborts,   \* may the user abort calls
          NoOp      \* no call

\* What is assumed of the constants.
QueueAssumption ==
  /\ Tools \subseteq {"edit", "write"} /\ RealOf \in [Path -> Path] /\ Existing \subseteq Path
  /\ NoOp \notin Op /\ Aborts \in BOOLEAN

VARIABLES
  status,    \* where a call is in withFileMutationQueue
  job,       \* the tool and the path of a call
  key,       \* the key of a call
  currentQueue,        \* the call each call awaits
  fileMutationQueues,  \* the call whose promise the map holds for each key
  io,        \* the tool's asynchronous body, which an abort leaves running
  aborted,   \* the calls whose signal is aborted
  result,    \* what the tool's promise settled with
  read,      \* what an edit has read
  exists,    \* the files there now
  content,   \* each file: the calls whose text it holds, NoOp for its first text
  landed,    \* history: each file's completed writes, in order
  calls      \* history: the calls in the order they were made
queueVars == <<status, key, currentQueue, fileMutationQueues, job, calls>>
diskVars == <<exists, content, landed>>
vars == <<queueVars, io, aborted, result, read, diskVars>>

Jobs == [tool : Tools, path : Path]
File(o) == RealOf[job[o].path]
Pending == {o \in Op : status[o] \in {"waiting", "running"}}
Busy == {o \in Op : io[o] \notin {"none", "over"}}

Init ==
  /\ status = [o \in Op |-> "idle"]
  /\ job \in [Op -> Jobs]
  /\ key = [o \in Op |-> job[o].path]
  /\ currentQueue = [o \in Op |-> NoOp]
  /\ fileMutationQueues = [k \in Path |-> NoOp]
  /\ io = [o \in Op |-> "none"]
  /\ aborted = {}
  /\ result = [o \in Op |-> "pending"]
  /\ read = [o \in Op |-> {}]
  /\ exists = Existing
  /\ content = [f \in Path |-> {NoOp}]
  /\ landed = [f \in Path |-> <<>>]
  /\ calls = <<>>

-----------------------------------------------------------------------------
(* The queue *)

\* Defect: queues are keyed by the path as given.
MutationQueueKey_Unresolved(path) == path

\* realpath fails for a file that is not there, and the path itself is the key.
MutationQueueKey(path) == IF RealOf[path] \in exists THEN RealOf[path] ELSE path

\* Everything up to the first await.
Call(o) ==
  /\ status[o] = "idle"
  /\ \E k \in {MutationQueueKey(job[o].path)} :
       /\ key' = [key EXCEPT ![o] = k]
       /\ currentQueue' = [currentQueue EXCEPT ![o] = fileMutationQueues[k]]
       /\ fileMutationQueues' = [fileMutationQueues EXCEPT ![k] = o]
  /\ status' = [status EXCEPT ![o] = "waiting"]
  /\ calls' = Append(calls, o)
  /\ UNCHANGED <<job, io, aborted, result, read, diskVars>>

\* Defect: the call does not await the queue it found.
Resolved_Always(o) == TRUE

\* Defect: a call that fails does not release the next one.
Resolved_NoFinally(o) == o = NoOp \/ (o \in Op /\ status[o] = "done" /\ result[o] = "ok")

\* The promise of a call, or of none, is resolved.
Resolved(o) == o = NoOp \/ (o \in Op /\ status[o] = "done")

\* The awaited queue resolves and fn starts; fn rejects at once when its
\* signal is already aborted.
Begin(o) ==
  /\ status[o] = "waiting" /\ Resolved(currentQueue[o])
  /\ status' = [status EXCEPT ![o] = "running"]
  /\ IF o \in aborted
       THEN /\ result' = [result EXCEPT ![o] = "failed"]
            /\ UNCHANGED io
       ELSE /\ io' = [io EXCEPT ![o] = IF job[o].tool = "edit" THEN "access" ELSE "mkdir"]
            /\ UNCHANGED result
  /\ UNCHANGED <<key, currentQueue, fileMutationQueues, job, calls, aborted, read, diskVars>>

\* Defect: the entry is emptied and stays.
QueueAfter_Undefined(o) == IF fileMutationQueues[key[o]] = o THEN "undefined"
                           ELSE fileMutationQueues[key[o]]

\* What the finally block leaves in the map.
QueueAfter(o) == IF fileMutationQueues[key[o]] = o THEN NoOp
                 ELSE fileMutationQueues[key[o]]

\* The tool's promise has settled: release the next call.
Finish(o) ==
  /\ status[o] = "running" /\ result[o] # "pending"
  /\ status' = [status EXCEPT ![o] = "done"]
  /\ fileMutationQueues' = [fileMutationQueues EXCEPT ![key[o]] = QueueAfter(o)]
  /\ UNCHANGED <<key, currentQueue, job, calls, io, aborted, result, read, diskVars>>

-----------------------------------------------------------------------------
(* The tools' bodies.  After each await a body that finds itself aborted    *)
(* returns; its promise was rejected by the abort.                          *)

Proceed(o, next) == io' = [io EXCEPT ![o] = IF o \in aborted THEN "over" ELSE next]

\* mkdir, then writeFile is called.
Mkdir(o) ==
  /\ io[o] = "mkdir" /\ Proceed(o, "opening")
  /\ UNCHANGED <<queueVars, aborted, result, read, diskVars>>

Access(o) ==
  /\ io[o] = "access" /\ File(o) \in exists /\ Proceed(o, "reading")
  /\ UNCHANGED <<queueVars, aborted, result, read, diskVars>>

\* readFile, the replacements are made, and writeFile is called.  A truncated
\* file has nothing to replace.
Read(o) ==
  /\ io[o] = "reading" /\ Proceed(o, "opening")
  /\ o \in aborted \/ content[File(o)] # {}
  /\ read' = [read EXCEPT ![o] = content[File(o)]]
  /\ UNCHANGED <<queueVars, aborted, result, diskVars>>

\* Any of the calls fails, or the text to replace is not found.  (A write that
\* fails half way, as on a full disk, is left out.)
Fail(o) ==
  /\ io[o] \in {"mkdir", "access", "reading", "opening"}
  /\ io' = [io EXCEPT ![o] = "over"]
  /\ result' = [result EXCEPT ![o] = "failed"]
  /\ UNCHANGED <<queueVars, aborted, read, diskVars>>

\* writeFile opens and truncates the file, creating it if need be.
Truncate(o) ==
  /\ io[o] = "opening" /\ io' = [io EXCEPT ![o] = "writing"]
  /\ exists' = exists \cup {File(o)}
  /\ content' = [content EXCEPT ![File(o)] = {}]
  /\ UNCHANGED <<queueVars, aborted, result, read, landed>>

\* writeFile completes.
Land(o) ==
  /\ io[o] = "writing" /\ io' = [io EXCEPT ![o] = "over"]
  /\ content' = [content EXCEPT ![File(o)] =
                   {o} \cup (IF job[o].tool = "edit" THEN read[o] ELSE {})]
  /\ landed' = [landed EXCEPT ![File(o)] = Append(@, o)]
  /\ result' = IF o \in aborted THEN result ELSE [result EXCEPT ![o] = "ok"]
  /\ UNCHANGED <<queueVars, aborted, read, exists>>

\* The user aborts the run: its calls share one signal.  The listener of a tool
\* at work rejects the tool's promise while its I/O goes on.  Calls made later
\* are of a new run.
Abort ==
  /\ Aborts /\ Pending \ aborted # {}
  /\ aborted' = aborted \cup Pending
  /\ result' = [o \in Op |-> IF o \in Pending \cap Busy THEN "failed" ELSE result[o]]
  /\ UNCHANGED <<queueVars, io, read, diskVars>>

-----------------------------------------------------------------------------
Body(o) == Mkdir(o) \/ Access(o) \/ Read(o) \/ Fail(o) \/ Truncate(o) \/ Land(o)
Next == Abort \/ \E o \in Op : Call(o) \/ Begin(o) \/ Finish(o) \/ Body(o)

Spec == Init /\ [][Next]_vars

\* Promises settle, and file operations end: each call's own steps are taken.
Progress == \E o \in Op : Begin(o) \/ Body(o) \/ Finish(o)

-----------------------------------------------------------------------------
Statuses == {"idle", "waiting", "running", "done"}
Phases == {"none", "mkdir", "access", "reading", "opening", "writing", "over"}
Results == {"pending", "ok", "failed"}

\* The type invariant of the queue, the tools and the files.
TypeOK ==
  /\ status \in [Op -> Statuses]
  /\ job \in [Op -> Jobs] /\ key \in [Op -> Path]
  /\ currentQueue \in [Op -> Op \cup {NoOp}]
  /\ fileMutationQueues \in [Path -> Op \cup {NoOp}]
  /\ io \in [Op -> Phases]
  /\ aborted \subseteq Op
  /\ result \in [Op -> Results]
  /\ read \in [Op -> SUBSET (Op \cup {NoOp})]
  /\ exists \subseteq Path
  /\ content \in [Path -> SUBSET (Op \cup {NoOp})]

\* Calls of one key are serialized: two are never in their tool's fn together
\* (the await of currentQueue in withFileMutationQueue).
KeyExclusion ==
  \A o, p \in Op : /\ status[o] = "running" /\ status[p] = "running"
                   /\ key[o] = key[p]
                   => o = p

\* Calls of one key are served in the order they were made: while a call is in
\* fn or past it, every earlier call of its key has returned.
InCallOrder ==
  \A i, j \in DOMAIN calls :
    /\ i < j /\ key[calls[i]] = key[calls[j]]
    /\ status[calls[j]] \in {"running", "done"}
    => status[calls[i]] = "done"

\* The map holds a queue for a key as long as a call of that key is pending and
\* no longer: nothing leaks and no call is forgotten (the finally block).
MapTracksPending ==
  \A k \in Path : fileMutationQueues[k] # NoOp <=> \E o \in Pending : key[o] = k

\* One file is mutated by one tool body at a time, whatever path each call
\* named it by ("Serialize file mutation operations targeting the same file").
FileExclusion == \A o, p \in Busy : File(o) = File(p) => o = p

\* The result of the writes in a file's history: the last full write and the
\* edits since.
Survivors(f) ==
  LET fullWrites == {i \in DOMAIN landed[f] : job[landed[f][i]].tool = "write"}
      base == IF fullWrites = {} THEN 1 ELSE CHOOSE i \in fullWrites : \A j \in fullWrites : j <= i
  IN  {landed[f][i] : i \in {j \in DOMAIN landed[f] : j >= base}}
      \cup (IF fullWrites = {} THEN {NoOp} ELSE {})

\* No edit is lost: while nobody is writing a file, it holds every edit made
\* since its last full write, each applied to the result of the one before.
NoLostEdit ==
  \A f \in Path : (\A o \in Op : io[o] = "writing" => File(o) # f)
                  => content[f] = Survivors(f)

\* Each key's calls are served one at a time, in the order they were made.
Arrivals == [i \in DOMAIN calls |-> [lock |-> key[calls[i]], client |-> calls[i]]]
Lock == INSTANCE FifoLock WITH
  Lock <- Path, Client <- Op, arrivals <- Arrivals,
  left <- {o \in Op : status[o] = "done"},
  holders <- [k \in Path |-> {o \in Op : status[o] = "running" /\ key[o] = k}]
ImplementsFifoLock == Lock!Spec

\* No call waits or runs.
Ended == Pending = {}
===============================================================================
