--------------------------- MODULE Apprenticeship ----------------------------
(***************************************************************************)
(* A student tries a task, a teacher who is told of the failure gives a    *)
(* lesson, the student tries again (agent/apprenticeship.py).  An attempt  *)
(* is a benchmark run (agent/benchmark.py) recorded in a quarantine store,  *)
(* apart from the lab's main store of lessons.                             *)
(***************************************************************************)
EXTENDS Integers, Sequences, FiniteSets, Functions

CONSTANTS Tasks, Teachers,
          Listening,  \* students whose factory takes a lesson
          Deaf,       \* students whose factory does not
          NoOne,
          MaxSessions \* bound: sessions of a lab

ASSUME LabAssumption == Listening \cap Deaf = {} /\ MaxSessions \in Nat

VARIABLES at,       \* its step, or "idle"
          attempt,  \* the session under way: [task, teacher, student]
          tried,    \* attempts in the quarantine store
          lessons,  \* lessons[t]: the main store's row for task t: whose
                    \* tags and whose resolution it has, or NoOne
          earned,   \* <<task, teacher>>: a taught retry passed where the first failed
          report    \* LabReport: by teacher, [sessions, accepted]

labVars == <<at, attempt, tried, lessons, earned, report>>

NoRow == [tags |-> NoOne, resolution |-> NoOne]

LabInit == /\ at = "idle" /\ attempt = [task |-> NoOne, teacher |-> NoOne, student |-> NoOne]
           /\ tried = 0
           /\ lessons = [t \in Tasks |-> NoRow] /\ earned = {}
           /\ report = [t \in Teachers |-> [sessions |-> 0, accepted |-> 0]]

Sum(field) == FoldFunction(+, 0, [t \in Teachers |-> report[t][field]])

(* run_session begins: the first attempt, unaided. *)
BeginSession ==
    /\ at = "idle" /\ Sum("sessions") < MaxSessions
    /\ attempt' \in [task : Tasks, teacher : Teachers, student : Listening \cup Deaf]
    /\ at' = "first"
    /\ UNCHANGED <<tried, lessons, earned, report>>

(* run_benchmark: the attempt is recorded, in quarantine. *)
Attempt == tried' = tried + 1

(* LabReport.add *)
Ends(accepted) ==
    /\ at' = "idle"
    /\ report' = [report EXCEPT ![attempt.teacher] =
                    [sessions |-> @.sessions + 1, accepted |-> @.accepted + IF accepted THEN 1 ELSE 0]]

(* A student who passes unaided is accepted: nothing is learnt or stored. *)
FirstAttempt(passes) ==
    /\ at = "first" /\ attempt.student \in Listening
    /\ Attempt
    /\ IF passes THEN Ends(TRUE) ELSE at' = "teach" /\ UNCHANGED report
    /\ UNCHANGED <<attempt, lessons, earned>>

(* A factory without the lesson channel is rejected at the first attempt,   *)
(* whose lesson argument it does not take either.                           *)
DeafAtFirst ==
    /\ at = "first" /\ attempt.student \in Deaf
    /\ Ends(FALSE)
    /\ UNCHANGED <<attempt, tried, lessons, earned>>

(* A lesson without actions rejects the session. *)
Teach(empty) ==
    /\ at = "teach"
    /\ IF empty THEN Ends(FALSE) ELSE at' = "retry" /\ UNCHANGED report
    /\ UNCHANGED <<attempt, tried, lessons, earned>>

(* ExperienceStore.record: a lesson of a known goal is merged into its row,  *)
(* which keeps its tags and takes the newer resolution.                      *)
Merged(row) == [tags |-> IF row = NoRow THEN attempt.teacher ELSE row.tags,
                resolution |-> attempt.teacher]

(* Fault: the lesson is stored whether or not the retry passes. *)
StoresAnyway(passes) == TRUE

Stores(passes) == passes

(* The retry, with the lesson; one that passes is accepted into memory. *)
Retry(passes) ==
    /\ at = "retry"
    /\ Attempt /\ Ends(passes)
    /\ earned' = IF passes THEN earned \cup {<<attempt.task, attempt.teacher>>} ELSE earned
    /\ lessons' = IF Stores(passes) THEN [lessons EXCEPT ![attempt.task] = Merged(@)] ELSE lessons
    /\ UNCHANGED attempt

LabNext == \/ BeginSession \/ DeafAtFirst
           \/ \E passes \in BOOLEAN : FirstAttempt(passes) \/ Retry(passes)
           \/ \E empty \in BOOLEAN : Teach(empty)
LabSpec == LabInit /\ [][LabNext]_labVars

-----------------------------------------------------------------------------
LabTypeOK == /\ at \in {"idle", "first", "teach", "retry"}
             /\ tried \in 0..(2 * MaxSessions)
             /\ lessons \in [Tasks -> [tags : Teachers \cup {NoOne}, resolution : Teachers \cup {NoOne}]]

(* The main store has only lessons that made a student pass who had failed  *)
(* without, whatever sessions were rejected at whatever step: the one a row *)
(* advises, and that of the teacher it is tagged with; and the lab's report *)
(* credits them (ApprenticeshipLab.run_session).                            *)
LessonsAreEarned ==
    \A t \in Tasks : lessons[t] # NoRow =>
        \A by \in {lessons[t].resolution, lessons[t].tags} :
            <<t, by>> \in earned /\ report[by].accepted > 0
=============================================================================
