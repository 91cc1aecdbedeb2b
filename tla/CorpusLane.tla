------------------------------ MODULE CorpusLane ------------------------------
(***************************************************************************)
(* The corpus of demonstrations in the experience store, and the two       *)
(* commands of agent/ep1.py that keep it: build_corpus, which repairs and  *)
(* supersedes before it re-runs what is not covered, and                   *)
(* build_agent_corpus, the lane of the authored drills.  Each of them      *)
(* loads the store, changes the copy and saves all of it, without the      *)
(* store's lock; a command may die between any two steps, and sessions     *)
(* may be recorded meanwhile.                                              *)
(***************************************************************************)
EXTENDS Naturals, Sequences, FiniteSets

CONSTANTS Topics,     \* goals, normalized; "session" is that of any other session
          Drilled,    \* the authored drills, in order
          Scripted,   \* the curriculum's scripts, in order
          NoLoad,     \* nothing is loaded
          MaxVersion, \* bound: values of CORPUS_VERSION
          MaxBuilds,  \* bound: commands started
          MaxTrouble  \* bound: crashes, failed runs and recorded sessions, together

(* What a run is to demonstrate: its goal, whether its first read fails, and *)
(* whether a recovery strategy has it open with a read.                     *)
Task == [goal : Topics, guessing : BOOLEAN, leading : BOOLEAN]

(* Scripts of several strategies may share a goal, drills do not, and no   *)
(* drill opens with a read.                                                *)
ASSUME LaneAssumption ==
    /\ "session" \in Topics
    /\ Drilled \in Seq(Task) /\ Scripted \in Seq(Task)
    /\ \A d \in DOMAIN Drilled :
          /\ ~Drilled[d].leading
          /\ \A e \in DOMAIN Drilled : Drilled[e].goal = Drilled[d].goal => e = d
          /\ \A e \in DOMAIN Scripted : Scripted[e].goal # Drilled[d].goal
    /\ MaxVersion \in Nat \ {0} /\ MaxBuilds \in Nat /\ MaxTrouble \in Nat

VARIABLES records, \* the records of the store, oldest first
          version, \* CORPUS_VERSION of the installed code
          job,     \* what is running: [kind, op, next, covered, copy]
          builds,  \* how often a command was started
          trouble, \* what went wrong so far: a sequence of kinds
          calm     \* sessions are only recorded between commands

laneVars == <<records, version, job, builds, trouble, calm>>

(* An empty stamp is 0; [made, nth] tell which task made the record, and   *)
(* under which version.                                                    *)
Demonstration(t, n, passed) ==
    [goal |-> t.goal, demo |-> TRUE, passed |-> passed, authored |-> FALSE, stamp |-> 0,
     superseded |-> FALSE, guessing |-> t.guessing, leading |-> t.leading,
     recovery |-> FALSE, made |-> version, nth |-> n]
SessionRow ==
    [Demonstration([goal |-> "session", guessing |-> FALSE, leading |-> FALSE], 0, TRUE)
        EXCEPT !.demo = FALSE]

NoJob == [kind |-> "rest", op |-> "rest", next |-> 1, covered |-> {}, copy |-> NoLoad]

Lane(kind) == IF kind = "lane" THEN Drilled ELSE Scripted
Ahead == job.next \in DOMAIN Lane(job.kind)
Due == Lane(job.kind)[job.next]

-----------------------------------------------------------------------------
(* Authored rows are stamped and brought back; of each goal the newest one  *)
(* stays (repair_agent_corpus_tags).                                        *)
Repaired(s) ==
    [i \in DOMAIN s |->
        IF ~s[i].authored THEN s[i]
        ELSE [s[i] EXCEPT !.stamp = version,
                          !.superseded = \E j \in (i + 1)..Len(s) :
                                            s[j].authored /\ s[j].goal = s[i].goal]]

(* An authored row that opens with a guess (supersede_opening_guess_demos). *)
WithoutGuesses(s) ==
    [i \in DOMAIN s |-> IF s[i].authored /\ s[i].guessing
                        THEN [s[i] EXCEPT !.superseded = TRUE] ELSE s[i]]

(* A demonstration of another version, or one that reads first without being *)
(* tagged as a recovery (mark_superseded_demos).                             *)
WithoutStale(s) ==
    [i \in DOMAIN s |->
        IF s[i].demo /\ (s[i].stamp # version \/ (s[i].leading /\ ~s[i].recovery))
        THEN [s[i] EXCEPT !.superseded = TRUE] ELSE s[i]]

Covered(kind, s) ==
    {s[i].goal : i \in {j \in DOMAIN s :
        /\ s[j].passed /\ ~s[j].superseded
        /\ IF kind = "lane" THEN s[j].authored
                            ELSE s[j].demo /\ s[j].stamp = version}}

(* The last row of the store gets the tags of the run. *)
Tagged(t, kind, s) ==
    [s EXCEPT ![Len(s)].stamp = version, ![Len(s)].authored = @ \/ kind = "lane",
              ![Len(s)].recovery = @ \/ (kind = "build" /\ t.leading)]

-----------------------------------------------------------------------------
LaneInit == /\ records = <<>> /\ version = 1 /\ job = NoJob
            /\ builds = 0 /\ trouble = <<>> /\ calm \in BOOLEAN

StartCommand(kind) ==
    /\ job = NoJob /\ builds < MaxBuilds
    /\ builds' = builds + 1
    /\ job' = [NoJob EXCEPT !.kind = kind, !.op = IF kind = "build" THEN "repair" ELSE "cover"]
    /\ UNCHANGED <<records, version, trouble, calm>>

Load == /\ job.op \in {"repair", "guesses", "stale", "tag"} /\ job.copy = NoLoad
        /\ job' = [job EXCEPT !.copy = records]
        /\ UNCHANGED <<records, version, builds, trouble, calm>>

(* A pass over the loaded rows.  Only the repair saves when nothing changed. *)
Pass(op, result, next) ==
    /\ job.op = op /\ job.copy # NoLoad
    /\ records' = IF op # "repair" /\ result = job.copy THEN records ELSE result
    /\ job' = [job EXCEPT !.op = next, !.copy = NoLoad]
    /\ UNCHANGED <<version, builds, trouble, calm>>

Repair        == Pass("repair", Repaired(job.copy), "guesses")
DropGuesses   == Pass("guesses", WithoutGuesses(job.copy), "stale")
MarkStale     == Pass("stale", WithoutStale(job.copy), "cover")

Cover == /\ job.op = "cover"
         /\ job' = [job EXCEPT !.op = "run", !.covered = Covered(job.kind, records)]
         /\ UNCHANGED <<records, version, builds, trouble, calm>>

SkipCovered == /\ job.op = "run" /\ Ahead /\ Due.goal \in job.covered
               /\ job' = [job EXCEPT !.next = @ + 1]
               /\ UNCHANGED <<records, version, builds, trouble, calm>>

(* Fault: a run is tagged whatever it ended in. *)
RunTagsAll(outcome) ==
    /\ job.op = "run" /\ Ahead /\ Due.goal \notin job.covered
    /\ records' = Append(records, Demonstration(Due, job.next, outcome # "failed"))
    /\ job' = [job EXCEPT !.op = "tag"]
    /\ UNCHANGED <<version, builds, trouble, calm>>

(* run_benchmark records the session; a verified one is to be tagged, but   *)
(* not one of the lane whose authored test did not catch the mutant.        *)
Run(outcome) ==
    /\ job.op = "run" /\ Ahead /\ Due.goal \notin job.covered
    /\ outcome = "unproved" => job.kind = "lane"
    /\ records' = Append(records, Demonstration(Due, job.next, outcome # "failed"))
    /\ IF outcome = "verified"
       THEN job' = [job EXCEPT !.op = "tag"] /\ UNCHANGED trouble
       ELSE /\ Len(trouble) < MaxTrouble
            /\ job' = [job EXCEPT !.next = @ + 1]
            /\ trouble' = Append(trouble, outcome)
    /\ UNCHANGED <<version, builds, calm>>

Tag == /\ job.op = "tag" /\ job.copy # NoLoad
       /\ records' = Tagged(Due, job.kind, job.copy)
       /\ job' = [job EXCEPT !.op = "run", !.next = @ + 1, !.copy = NoLoad]
       /\ UNCHANGED <<version, builds, trouble, calm>>

End == /\ job.op = "run" /\ ~Ahead
       /\ job' = NoJob
       /\ UNCHANGED <<records, version, builds, trouble, calm>>

CommandDies == /\ job # NoJob /\ Len(trouble) < MaxTrouble
               /\ job' = NoJob /\ trouble' = Append(trouble, "crash")
               /\ UNCHANGED <<records, version, builds, calm>>

(* Another process records a session, under the store's lock. *)
RecordSession == /\ calm => job = NoJob
                 /\ Len(trouble) < MaxTrouble
                 /\ records' = Append(records, SessionRow)
                 /\ trouble' = Append(trouble, "session")
                 /\ UNCHANGED <<version, job, builds, calm>>

(* The code is replaced by one with a new corpus format. *)
Upgrade == /\ job = NoJob /\ version < MaxVersion
           /\ version' = version + 1
           /\ UNCHANGED <<records, job, builds, trouble, calm>>

LaneNext == \/ \E kind \in {"build", "lane"} : StartCommand(kind)
            \/ Load \/ Repair \/ DropGuesses \/ MarkStale \/ Cover \/ SkipCovered
            \/ \E o \in {"verified", "unproved", "failed"} : Run(o)
            \/ Tag \/ End \/ CommandDies \/ RecordSession \/ Upgrade

LaneSpec == LaneInit /\ [][LaneNext]_laneVars

-----------------------------------------------------------------------------
LaneTypeOK ==
    /\ version \in 1..MaxVersion /\ builds \in 0..MaxBuilds /\ Len(trouble) <= MaxTrouble
    /\ \A i \in DOMAIN records : records[i].stamp \in 0..version /\ records[i].made \in 1..version
    /\ job.op \in {"rest", "repair", "guesses", "stale", "cover", "run", "tag"}

(* Only a verified run of a demonstration is ever tagged: no session of     *)
(* someone else is taken for one, as long as none is recorded meanwhile.    *)
TagsAreEarned ==
    calm => \A i \in DOMAIN records :
        records[i].authored \/ records[i].stamp > 0 => records[i].demo /\ records[i].passed

(* When build_corpus has cleaned up, whatever crashed before it, a drill is *)
(* taught by one row at most, of the current format, that opens with a read *)
(* that succeeds (S106, S110).                                              *)
Current == {i \in DOMAIN records : records[i].demo /\ ~records[i].superseded}
TaughtOnce ==
    calm /\ job.kind = "build" /\ job.op = "cover" =>
        \A i \in Current :
            /\ records[i].stamp = version
            /\ records[i].goal \in {Drilled[d].goal : d \in DOMAIN Drilled} =>
                  /\ ~records[i].guessing
                  /\ \A j \in Current : records[j].goal = records[i].goal => j = i

(* Nothing is demonstrated twice unless something went wrong: a drill once, *)
(* if it does not open with a guess, and a script once for each version     *)
(* (S68, S95: build and lane are idempotent).                               *)
Demonstrations(g) == {i \in DOMAIN records : records[i].demo /\ records[i].goal = g}
LaneIsIdempotent ==
    calm /\ (\A i \in DOMAIN trouble : trouble[i] = "session") =>
        /\ \A d \in DOMAIN Drilled : \A i, j \in Demonstrations(Drilled[d].goal) :
              Drilled[d].guessing \/ i = j
        /\ \A d \in DOMAIN Scripted : \A i, j \in Demonstrations(Scripted[d].goal) :
              records[i].made = records[j].made /\ records[i].nth = records[j].nth => i = j

(* No session that someone recorded is dropped by a build. *)
SessionsKept ==
    calm => Cardinality({i \in DOMAIN records : ~records[i].demo})
              = Cardinality({i \in DOMAIN trouble : trouble[i] = "session"})

(* All of it: what the two commands leave in the store. *)
LaneIsSound == TagsAreEarned /\ TaughtOnce /\ LaneIsIdempotent /\ SessionsKept
=============================================================================
