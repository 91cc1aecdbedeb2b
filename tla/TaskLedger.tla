----------------------------- MODULE TaskLedger -----------------------------
(***************************************************************************)
(* tasks.jsonl (task.py): every command loads the file, changes its copy   *)
(* and replaces the file through a temporary name of its own, without a    *)
(* lock.                                                                   *)
(***************************************************************************)
EXTENDS Integers, Sequences, SequencesExt

CONSTANTS Clerks,  \* commands that may overlap
          NoCopy,
          MaxTaskId, \* bound of the model: the highest id...
          MaxAdds    \* ...and how many tasks are added

(* A row of the file; nr is the model's own number of the task. *)
TaskRows == [id : 0..MaxTaskId, status : {"todo", "done"}, nr : 1..MaxAdds]

ASSUME TaskAssumption == {MaxTaskId, MaxAdds} \subseteq Nat /\ NoCopy \notin Seq(TaskRows)

VARIABLES tasks,   \* the rows of tasks.jsonl: [id, status, nr]
          copy,    \* copy[c]: what command c is about to save, or NoCopy
          adds,    \* tasks added so far: nr numbers them, ids may repeat
          dropped, \* the numbers of deleted tasks
          serial   \* the commands come one after the other

taskVars == <<tasks, copy, adds, dropped, serial>>

TaskInit == /\ tasks = <<>> /\ copy = [c \in Clerks |-> NoCopy]
            /\ adds = 0 /\ dropped = {} /\ serial \in BOOLEAN

MayOpen(c) == /\ copy[c] = NoCopy
              /\ serial => \A d \in Clerks : copy[d] = NoCopy

Hold(c, rows) == copy' = [copy EXCEPT ![c] = rows]

(* load: ids increase strictly, or the file is refused. *)
Increasing(rows) == \A i \in 1..(Len(rows) - 1) : rows[i].id < rows[i + 1].id

(* Fault: ids are counted from the number of rows. *)
NextTaskIdByCount(rows) == Len(rows)

(* An id is free again once the last task is deleted. *)
NextTaskId(rows) == IF rows = <<>> THEN 0 ELSE Last(rows).id + 1

Add(c) ==
    /\ MayOpen(c) /\ adds < MaxAdds /\ NextTaskId(tasks) <= MaxTaskId
    /\ adds' = adds + 1
    /\ Hold(c, Append(tasks, [id |-> NextTaskId(tasks), status |-> "todo", nr |-> adds']))
    /\ UNCHANGED <<tasks, dropped, serial>>

(* mark_done refuses a task that is done or unknown. *)
MarkDone(c, i) ==
    /\ MayOpen(c) /\ tasks[i].status = "todo"
    /\ Hold(c, [tasks EXCEPT ![i].status = "done"])
    /\ UNCHANGED <<tasks, adds, dropped, serial>>

Delete(c, i) ==
    /\ MayOpen(c)
    /\ Hold(c, RemoveAt(tasks, i))
    /\ dropped' = dropped \cup {tasks[i].nr}
    /\ UNCHANGED <<tasks, adds, serial>>

SaveTasks(c) ==
    /\ copy[c] # NoCopy
    /\ tasks' = copy[c]
    /\ Hold(c, NoCopy)
    /\ UNCHANGED <<adds, dropped, serial>>

TaskNext == \E c \in Clerks : \/ Add(c)
                              \/ \E i \in DOMAIN tasks : MarkDone(c, i) \/ Delete(c, i)
                              \/ SaveTasks(c)

TaskSpec == TaskInit /\ [][TaskNext]_taskVars

-----------------------------------------------------------------------------
Numbers(rows) == {rows[i].nr : i \in DOMAIN rows}

TaskTypeOK == /\ tasks \in Seq(TaskRows)
              /\ adds \in 0..MaxAdds /\ dropped \subseteq 1..MaxAdds /\ serial \in BOOLEAN

(* The file always loads again, however commands overlap (TaskStore.load). *)
TasksLoad == /\ Increasing(tasks)
             /\ \A c \in Clerks : copy[c] # NoCopy => Increasing(copy[c])

(* Commands that come one after the other lose no task, keep none that was *)
(* deleted (TaskStore.add, delete).                                        *)
TasksKept == serial /\ (\A c \in Clerks : copy[c] = NoCopy) =>
                 Numbers(tasks) = (1..adds) \ dropped

(* The ledger can be read after every command, and without overlaps holds  *)
(* what was added and not deleted.                                         *)
TasksSurvive == TasksLoad /\ TasksKept
=============================================================================
