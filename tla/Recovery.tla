------------------------------ MODULE Recovery ------------------------------
(***************************************************************************)
(* agent/recovery.py: the failure tracker and the strategy ladder, as      *)
(* operators on the state of a RecoveryStateMachine.  A failure is its     *)
(* kind and its error text; the deterministic signature of the code is the *)
(* pair itself.                                                            *)
(***************************************************************************)
EXTENDS Integers, Sequences, FiniteSets

CONSTANTS Texts,         \* error texts
          EnvTexts,      \* those that match ENVIRONMENT_MARKERS
          MaxSame,       \* RecoveryPolicy.max_same_failure
          MaxAlternates, \* RecoveryPolicy.max_alternates
          Window         \* the window of FailureTracker.cycling

ASSUME TextsAssumption == EnvTexts \subseteq Texts
ASSUME LadderAssumption == /\ MaxSame \in Nat /\ MaxSame >= 2
                           /\ MaxAlternates \in Nat /\ MaxAlternates >= 1
                           /\ Window \in Nat /\ Window >= 2

Strategies == {"retry_with_advice", "alternate_approach", "environment_check",
               "escalate_model", "ask_user", "terminate"}

Failures == [kind : {"tool", "verification"}, text : Texts]

(* Only so many of the last signatures bear on a decision. *)
Horizon == IF Window >= MaxSame THEN Window ELSE MaxSame

Machines == [signatures : Seq(Failures), streak : Nat, alternates : Nat,
             envRepeat : Nat, escalated : BOOLEAN]

NewMachine == [signatures |-> <<>>, streak |-> 0, alternates |-> 0,
               envRepeat |-> 0, escalated |-> FALSE]

(* FailureTracker.record, keeping the last Horizon signatures. *)
Recorded(m, f) ==
    LET all == Append(m.signatures, f)
    IN  [signatures |-> IF Len(all) > Horizon THEN Tail(all) ELSE all,
         streak |-> m.streak + 1, alternates |-> m.alternates,
         envRepeat |-> m.envRepeat, escalated |-> m.escalated]

(* FailureTracker.consecutive_same: the run of equal signatures at the end. *)
Repeats(m) ==
    LET s == m.signatures
    IN  Cardinality({i \in 1..Len(s) : \A j \in i..Len(s) : s[j] = s[Len(s)]})

(* Fault: a success does not end the thrash. *)
CyclingIgnoresSuccess(m) ==
    LET s == m.signatures
    IN  /\ Len(s) >= Window
        /\ Cardinality({s[i] : i \in (Len(s) - Window + 1)..Len(s)}) >= 2

(* FailureTracker.cycling: a streak of failures, not all the same. *)
Cycling(m) ==
    LET s == m.signatures
    IN  /\ m.streak >= Window
        /\ Cardinality({s[i] : i \in (Len(s) - Window + 1)..Len(s)}) >= 2

(* An environment failure earns an environment check, twice between successes. *)
EarnsEnvironmentCheck(m, f) == f.text \in EnvTexts /\ m.envRepeat < 2

(* The counted rungs of the ladder. *)
Rung(m, available) == IF m.alternates < MaxAlternates THEN "alternate_approach"
                      ELSE IF available THEN "escalate_model"
                      ELSE "ask_user"

(* RecoveryPolicy.decide, for the failure m has just recorded. *)
Decide(m, f, iterationsLeft, available) ==
    IF ~iterationsLeft                  THEN "terminate"
    ELSE IF Repeats(m) >= MaxSame       THEN Rung(m, available)
    ELSE IF EarnsEnvironmentCheck(m, f) THEN "environment_check"
    ELSE IF Cycling(m)                  THEN Rung(m, available)
    ELSE IF f.kind = "verification"     THEN "alternate_approach"
    ELSE "retry_with_advice"

(* The alternates and the environment checks are counted; no other decision *)
(* resets a count.                                                          *)
Counted(m, d) ==
    [signatures |-> m.signatures, streak |-> m.streak,
     alternates |-> m.alternates + (IF d = "alternate_approach" THEN 1 ELSE 0),
     envRepeat |-> m.envRepeat + (IF d = "environment_check" THEN 1 ELSE 0),
     escalated |-> m.escalated]

(* RecoveryStateMachine.on_failure: the machine after it, and its decision. *)
OnFailure(m, f, iterationsLeft, available) ==
    LET seen == Recorded(m, f)
        d    == Decide(seen, f, iterationsLeft, available /\ ~m.escalated)
    IN  [machine |-> Counted(seen, d), decision |-> d]

(* RecoveryStateMachine.on_success. *)
OnSuccess(m) == [m EXCEPT !.streak = 0, !.envRepeat = 0]

(* Fault: the escalation is not remembered. *)
MarkEscalatedForgets(m) == m

(* RecoveryStateMachine.mark_escalated. *)
MarkEscalated(m) == [m EXCEPT !.escalated = TRUE]
=============================================================================
