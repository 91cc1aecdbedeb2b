--------------------------- MODULE CommandCapture ----------------------------
(***************************************************************************)
(* qa run (skills/auto_capture.py) around commands that fail or pass: a    *)
(* failure is one record() of the case file, which the record lock makes   *)
(* one step; a pass is counted in the sidecar flakes.jsonl                 *)
(* (skills/flaky.py), which is loaded, changed and replaced without a lock. *)
(***************************************************************************)
EXTENDS Integers, Sequences, FiniteSets

CONSTANTS Shells,    \* processes of qa run
          Keys,      \* signatures of failures
          Commands,
          CommandOf, \* the command a signature begins with
          MaxRuns    \* bound: commands run

ASSUME CaptureAssumption == CommandOf \in [Keys -> Commands] /\ MaxRuns \in Nat

VARIABLES seen,   \* seen[k]: times_seen of the case of k, 0 when there is none
          passes, \* passes[k]: times_passed in the sidecar, 0 without an entry
          shell,  \* shell[s]: the pass process s is counting
          runs,   \* commands run so far
          due,    \* passes observed while k had a case
          single  \* the commands come one after the other

captureVars == <<seen, passes, shell, runs, due, single>>

NoPasses == [k \in Keys |-> 0]
AtRest == [at |-> "rest", keys |-> {}, rows |-> NoPasses]

CaptureInit == /\ seen = NoPasses /\ passes = NoPasses /\ due = NoPasses /\ runs = 0
               /\ shell = [s \in Shells |-> AtRest] /\ single \in BOOLEAN

MayRun(s) == /\ shell[s].at = "rest" /\ runs < MaxRuns
             /\ single => \A t \in Shells : shell[t].at = "rest"

(* A failure is recorded, or not, when the lock is busy. *)
RunFails(s, k) ==
    /\ MayRun(s) /\ runs' = runs + 1
    /\ seen' \in {[seen EXCEPT ![k] = @ + 1], seen}
    /\ UNCHANGED <<passes, shell, due, single>>

(* Fault: every case counts, whatever its command. *)
MatchedAll(c) == {k \in Keys : seen[k] > 0}

(* match_cases *)
Matched(c) == {k \in Keys : seen[k] > 0 /\ CommandOf[k] = c}

(* observe_command_pass: a command without a case leaves nothing. *)
RunPasses(s, c) ==
    /\ MayRun(s) /\ runs' = runs + 1
    /\ shell' = [shell EXCEPT ![s] = IF Matched(c) = {} THEN AtRest
                                     ELSE [at |-> "load", keys |-> Matched(c), rows |-> NoPasses]]
    /\ due' = [k \in Keys |-> due[k] + IF seen[k] > 0 /\ CommandOf[k] = c THEN 1 ELSE 0]
    /\ UNCHANGED <<seen, passes, single>>

LoadFlakes(s) ==
    /\ shell[s].at = "load"
    /\ shell' = [shell EXCEPT ![s] =
                    [at |-> "save", keys |-> shell[s].keys,
                     rows |-> [k \in Keys |-> passes[k] + IF k \in shell[s].keys THEN 1 ELSE 0]]]
    /\ UNCHANGED <<seen, passes, runs, due, single>>

SaveFlakes(s) ==
    /\ shell[s].at = "save"
    /\ passes' = shell[s].rows
    /\ shell' = [shell EXCEPT ![s] = AtRest]
    /\ UNCHANGED <<seen, runs, due, single>>

(* A merge takes the case away; its entry stays, unseen. *)
CaseGoes(k) == /\ seen[k] > 0 /\ seen' = [seen EXCEPT ![k] = 0]
               /\ UNCHANGED <<passes, shell, runs, due, single>>

CaptureNext == \/ \E s \in Shells : \/ \E k \in Keys : RunFails(s, k)
                                    \/ \E c \in Commands : RunPasses(s, c)
                                    \/ LoadFlakes(s) \/ SaveFlakes(s)
               \/ \E k \in Keys : CaseGoes(k)

CaptureSpec == CaptureInit /\ [][CaptureNext]_captureVars

-----------------------------------------------------------------------------
(* attach_stats, split_sections: entries without a case are left out; a    *)
(* pass rate above one half is chronic.                                    *)
Joined == {k \in Keys : seen[k] > 0 /\ passes[k] > 0}
Chronic == {k \in Joined : 2 * passes[k] > passes[k] + seen[k]}

CaptureTypeOK == /\ {seen, passes, due} \subseteq [Keys -> 0..MaxRuns] /\ runs \in 0..MaxRuns
                 /\ \A s \in Shells : shell[s].at \in {"rest", "load", "save"}

(* No overlap of commands makes a failure look flakier than it is: passes   *)
(* are lost, never made up, so what is called chronic has passed more often *)
(* than its case was seen (flaky.observe_command_pass, is_chronic).         *)
FlakesAreEarned == \A k \in Keys : /\ passes[k] <= due[k]
                                   /\ k \in Chronic => due[k] > seen[k]

(* Commands that come one after the other lose no pass. *)
PassesKept == single /\ (\A s \in Shells : shell[s].at = "rest") => passes = due

(* A pass is never made up, and lost only where commands overlap. *)
PassesAreEarned == FlakesAreEarned /\ PassesKept
=============================================================================
