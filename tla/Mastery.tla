------------------------------- MODULE Mastery -------------------------------
(***************************************************************************)
(* What a student practises next (agent/curriculum.py): MasteryTracker     *)
(* moves a working level along the outcomes, of which it keeps a window;   *)
(* SyntheticCurriculum draws tasks whose goals do not repeat.              *)
(***************************************************************************)
EXTENDS Integers, Sequences, SequencesExt, FiniteSets

CONSTANTS Skills,
          UpStreak, DownFailures, MinLevel, MaxLevel,
          Drawn,     \* goals a draw may come to
          Patience,  \* draws allowed for each task that is asked for (20)
          MaxTries,  \* bound: outcomes recorded of a skill
          MaxAsked   \* bound: tasks a run is asked for

ASSUME MasteryAssumption ==
    /\ {UpStreak, DownFailures, Patience} \subseteq Nat \ {0}
    /\ {MinLevel, MaxLevel, MaxTries, MaxAsked} \subseteq Nat /\ MinLevel <= MaxLevel

VARIABLES outcomes, \* outcomes[s]: all of them, the newest last
          window,   \* those the tracker keeps
          level,
          goals,    \* goals of the tasks generated so far
          accounting \* last_run_accounting

masteryVars == <<outcomes, window, level, goals, accounting>>

NoRun == [requested |-> 0, produced |-> 0, skipped |-> 0, attempts |-> 0, exhausted |-> FALSE]

MasteryInit == /\ outcomes = [s \in Skills |-> <<>>] /\ window = outcomes
               /\ level = [s \in Skills |-> MinLevel]
               /\ goals = {} /\ accounting = NoRun

Newest(s, n) == SubSeq(s, Len(s) - n + 1, Len(s))
AllAre(s, outcome) == \A i \in DOMAIN s : s[i] = outcome

Keeps(s) == IF Len(s) <= UpStreak + DownFailures THEN s ELSE Newest(s, UpStreak + DownFailures)

(* MasteryTracker._transition *)
Transition(l, recent) ==
    IF Len(recent) >= UpStreak /\ AllAre(Newest(recent, UpStreak), TRUE)
    THEN IF l + 1 < MaxLevel THEN l + 1 ELSE MaxLevel
    ELSE IF Len(recent) >= DownFailures /\ AllAre(Newest(recent, DownFailures), FALSE)
         THEN IF l - 1 > MinLevel THEN l - 1 ELSE MinLevel
    ELSE l

(* MasteryTracker.record *)
RecordOutcome(s, success) ==
    /\ Len(outcomes[s]) < MaxTries
    /\ outcomes' = [outcomes EXCEPT ![s] = Append(@, success)]
    /\ window' = [window EXCEPT ![s] = Keeps(Append(@, success))]
    /\ level' = [level EXCEPT ![s] = Transition(@, window'[s])]
    /\ UNCHANGED <<goals, accounting>>

-----------------------------------------------------------------------------
(* One draw of generate: a goal that is new becomes a task.  The flag is set *)
(* when the last draw begins.                                                *)
Draw(acc, g, bound) ==
    LET new == g \notin acc.goals
    IN [attempts |-> acc.attempts + 1, goals |-> acc.goals \cup {g},
        produced |-> acc.produced + IF new THEN 1 ELSE 0,
        skipped  |-> acc.skipped + IF new THEN 0 ELSE 1,
        exhausted |-> acc.exhausted \/ acc.attempts + 1 >= bound]

(* generate: draws until there are enough, or until patience ends. *)
DrawUnless(acc, g, count) ==
    IF acc.produced >= count THEN acc ELSE Draw(acc, g, Patience * count)

Drawing(count, draws) ==
    LET after[i \in 0..(Patience * count)] ==
            IF i = 0 THEN [attempts |-> 0, goals |-> goals, produced |-> 0, skipped |-> 0,
                           exhausted |-> FALSE]
            ELSE DrawUnless(after[i - 1], draws[i], count)
    IN  after[Patience * count]

GenerateTasks(count, draws) ==
    LET end == Drawing(count, draws)
    IN /\ goals' = end.goals
       /\ accounting' = [requested |-> count, produced |-> end.produced, skipped |-> end.skipped,
                         attempts |-> end.attempts, exhausted |-> end.exhausted]
       /\ UNCHANGED <<outcomes, window, level>>

(* Bound: the two share no state, and a behaviour takes one of them.         *)
MasteryNext ==
    \/ /\ accounting = NoRun
       /\ \E s \in Skills, success \in BOOLEAN : RecordOutcome(s, success)
    \/ /\ \A s \in Skills : outcomes[s] = <<>>
       /\ \E count \in 1..MaxAsked :
             \E draws \in [1..(Patience * count) -> Drawn] : GenerateTasks(count, draws)

MasterySpec == MasteryInit /\ [][MasteryNext]_masteryVars

-----------------------------------------------------------------------------
MasteryTypeOK ==
    /\ \A s \in Skills : /\ level[s] \in MinLevel..MaxLevel
                         /\ Len(window[s]) <= UpStreak + DownFailures
    /\ goals \subseteq Drawn /\ accounting.exhausted \in BOOLEAN

(* The level of a whole history, moved once by each outcome. *)
LevelAfter(history) ==
    LET after[n \in 0..Len(history)] ==
            IF n = 0 THEN MinLevel ELSE Transition(after[n - 1], SubSeq(history, 1, n))
    IN  after[Len(history)]

(* The level is the one the whole history gives, although only a window of  *)
(* it is kept (MasteryTracker.record).                                      *)
LevelIsOfHistory == \A s \in Skills : level[s] = LevelAfter(outcomes[s])

(* A run that falls short says so: every draw is a task or a repeated goal,  *)
(* and it gives up only when its draws are used up (generate, D2).           *)
ShortfallIsTold ==
    /\ accounting.produced + accounting.skipped = accounting.attempts
    /\ accounting.produced <= accounting.requested
    /\ accounting.produced < accounting.requested =>
          accounting.exhausted /\ accounting.attempts = Patience * accounting.requested
    /\ accounting.produced <= Cardinality(goals)
=============================================================================
