---------------------------- MODULE Orchestrator ----------------------------
(***************************************************************************)
(* The plan of a task, its execution, and its resumption from the state file *)
(* after a crash: packages/orchestrator/src/engine.ts and extension.ts, and *)
(* the part of decomposer.ts that decides what a plan may be.               *)
(***************************************************************************)
EXTENDS Integers, Sequences, FiniteSets, SequencesExt, Functions

CONSTANTS
  Ids,        \* ids of subtasks
  MaxTasks,   \* subtasks of a plan
  Environment \* what may happen, of Happenings

\* The model gives two subtasks one id; the progress callback throws; a crash
\* cuts the writing of the state file.
Happenings == {"duplicate", "listener", "torn"}

OrchestratorAssumption == MaxTasks \in Nat /\ Environment \subseteq Happenings

VARIABLES
  plan,      \* the subtasks, as the model wrote them
  next,      \* the position of the subtask to execute
  completed, \* the subtasks completed and failed, as they were reported
  failed,
  phase,     \* "executing", "synthesizing", "stopped" or "done"
  saved,     \* state.json: the ids completed and failed
  before     \* ids that were completed in a state file resumed from

vars == <<plan, next, completed, failed, phase, saved, before>>

Nothing == [ids |-> <<>>, failures |-> <<>>, there |-> FALSE]
State(c, f) == [ids |-> [k \in DOMAIN c |-> plan[c[k]].id],
                failures |-> [k \in DOMAIN f |-> plan[f[k]].id], there |-> TRUE]

\* parseResponse takes any ids, unknown dependencies and cycles.
Plans ==
  {p \in BoundedSeq([id : Ids, dependsOn : SUBSET Ids], MaxTasks) :
     "duplicate" \in Environment \/
       \A i, j \in DOMAIN p : p[i].id = p[j].id => i = j}

-----------------------------------------------------------------------------
(* topologicalSort: the positions of the subtasks, dependencies first.      *)

\* Defect: a subtask goes in front of what it depends on.
TaskPlaced_First(tasks, result, i) == <<i>> \o result

\* A subtask goes behind the dependencies its visit has placed.
TaskPlaced(tasks, result, i) == Append(result, i)

\* The visit of an id, given what is visited and placed so far.
visit(tasks) ==
  LET \* the map keeps the last of those with one id
      found(id) == {i \in DOMAIN tasks : /\ tasks[i].id = id
                                         /\ \A j \in DOMAIN tasks : tasks[j].id = id => j <= i}
      from[sorted \in [visited : SUBSET Ids, result : Seq(DOMAIN tasks)], id \in Ids] ==
        LET entered == [sorted EXCEPT !.visited = @ \cup {id}]
            i == CHOOSE t \in found(id) : TRUE
            left == FoldLeft(LAMBDA s, d : from[s, d], entered, SetToSeq(tasks[i].dependsOn))
        IN  IF id \in sorted.visited THEN sorted
            ELSE IF found(id) = {} THEN entered
            ELSE [left EXCEPT !.result = TaskPlaced(tasks, @, i)]
  IN  from

topologicalSort(tasks) ==
  FoldLeft(LAMBDA s, t : visit(tasks)[s, t.id], [visited |-> {}, result |-> <<>>], tasks).result

-----------------------------------------------------------------------------
(* execute.                                                                 *)

Order == topologicalSort(plan)
Results == {plan[i].id : i \in Range(completed)}

\* A subtask without the results it needs is skipped, and counts as failed; the
\* file is not told.
Skip ==
  /\ phase = "executing" /\ next \in DOMAIN Order
  /\ ~(plan[Order[next]].dependsOn \subseteq Results)
  /\ failed' = Append(failed, Order[next]) /\ next' = next + 1
  /\ UNCHANGED <<plan, completed, phase, saved, before>>

\* What is reported completed and failed of a subtask that is executed, and once
\* more when that, or telling of its end, throws.
Outcomes(i) ==
  {<<<<i>>, <<>>>>, <<<<>>, <<i>>>>} \cup
    (IF "listener" \in Environment
     THEN {<<<<i, i>>, <<>>>>, <<<<i>>, <<i>>>>, <<<<i, i>>, <<i>>>>} ELSE {})

Execute ==
  /\ phase = "executing" /\ next \in DOMAIN Order
  /\ plan[Order[next]].dependsOn \subseteq Results
  /\ \E outcome \in Outcomes(Order[next]) :
       /\ completed' = completed \o outcome[1] /\ failed' = failed \o outcome[2]
       /\ saved' = [State(completed', outcome[2]) EXCEPT !.failures = saved.failures \o @]
  /\ next' = next + 1
  /\ UNCHANGED <<plan, phase, before>>

Synthesize ==
  /\ phase = "executing" /\ next > Len(Order)
  /\ phase' = "synthesizing"
  /\ UNCHANGED <<plan, next, completed, failed, saved, before>>

\* cleanState, behind the report of the result.
Finish ==
  /\ phase = "synthesizing"
  /\ phase' = "done" /\ saved' = Nothing
  /\ UNCHANGED <<plan, next, completed, failed, before>>

\* The process ends, or the provider fails the synthesis.
Stop ==
  /\ phase \in {"executing", "synthesizing"}
  /\ phase' = "stopped"
  /\ saved' \in {saved} \cup (IF "torn" \in Environment THEN {Nothing} ELSE {})
  /\ UNCHANGED <<plan, next, completed, failed, before>>

\* /orchestrate resume: the plan of the file is executed, from its begin.
Resume ==
  /\ phase = "stopped" /\ saved.there
  /\ before' = before \cup Range(saved.ids)
  /\ phase' = "executing" /\ next' = 1 /\ completed' = <<>> /\ failed' = <<>>
  /\ saved' = State(<<>>, <<>>)
  /\ UNCHANGED plan

Init ==
  /\ plan \in Plans /\ next = 1 /\ completed = <<>> /\ failed = <<>>
  /\ phase = "executing" /\ saved = State(<<>>, <<>>) /\ before = {}
Next == Skip \/ Execute \/ Synthesize \/ Finish \/ Stop \/ Resume
Spec == Init /\ [][Next]_vars

-----------------------------------------------------------------------------
\* Subtasks for which a plan can be followed: those that need no unknown one and
\* are on no cycle, nor need one that is.
Sound ==
  LET bad == {s \in SUBSET (DOMAIN plan) : \* sets in which each needs one of them, or an unknown one
                \A i \in s : \E d \in plan[i].dependsOn :
                  \A j \in DOMAIN plan : plan[j].id = d => j \in s}
  IN  DOMAIN plan \ UNION bad

\* Each subtask of a plan is executed once, behind what it depends on, whatever
\* order the model wrote the plan in; a subtask is left out only for a failure, a
\* cycle or an unknown name among what it needs (topologicalSort, execute).
OrderIsFollowed ==
  /\ IsInjective(completed \o failed)
  /\ \A k \in DOMAIN completed : \A d \in plan[completed[k]].dependsOn :
       \E j \in 1..(k - 1) : plan[completed[j]].id = d
  /\ next > Len(Order) =>
       /\ Range(completed) \cup Range(failed) = DOMAIN plan
       /\ Range(completed) \subseteq Sound
       /\ \A i \in Sound \cap Range(failed) :
            \A k \in DOMAIN failed : failed[k] = i =>
              \/ plan[i].dependsOn \subseteq Results
              \/ \E j \in 1..(k - 1) : plan[failed[j]].id \in plan[i].dependsOn

\* Until its result is reported a plan can be resumed, wherever it stopped, and
\* its file tells what is completed (saveState, cleanState).
PlanCanBeResumed ==
  phase # "done" =>
    /\ saved.there /\ Range(saved.ids) = Results
    /\ Range(saved.failures) \subseteq {plan[i].id : i \in Range(failed)}

PlanIsFollowed == OrderIsFollowed /\ PlanCanBeResumed

\* What the file says is completed is not executed again. It is: execute starts
\* from empty results (loadState, execute).
ResumeRepeatsNothing == Results \cap before = {}
===============================================================================
