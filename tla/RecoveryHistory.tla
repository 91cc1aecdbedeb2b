-------------------------- MODULE RecoveryHistory --------------------------
(***************************************************************************)
(* A RecoveryStateMachine driven by every sequence of failures and         *)
(* successes, beside the past it has seen.  The properties say what the    *)
(* machine's counters mean in terms of that past.                          *)
(***************************************************************************)
EXTENDS Recovery

CONSTANTS MaxHistory, \* bound: the length of a past
          CanEscalate \* the loop has an escalation factory

VARIABLES m,      \* the recovery machine
          past,   \* what happened: failures with their decisions, successes
          failed, \* the failures alone
          swaps   \* how often the model was swapped for a stronger one

historyVars == <<m, past, failed, swaps>>

Success == [kind |-> "success"]

HistoryInit == m = NewMachine /\ past = <<>> /\ failed = <<>> /\ swaps = 0

Succeeds == /\ Len(past) < MaxHistory
            /\ m' = OnSuccess(m)
            /\ past' = Append(past, Success)
            /\ UNCHANGED <<failed, swaps>>

Fails(f) ==
    LET r == OnFailure(m, f, TRUE, CanEscalate)
    IN  /\ Len(past) < MaxHistory
        /\ past' = Append(past, [kind |-> "failure", of |-> f,
                                 decision |-> r.decision])
        /\ failed' = Append(failed, f)
        /\ IF r.decision = "escalate_model"
           THEN m' = MarkEscalated(r.machine) /\ swaps' = swaps + 1
           ELSE m' = r.machine /\ UNCHANGED swaps

(* ask_user ends the session: nothing follows it. *)
Ended == \E i \in 1..Len(past) :
            past[i].kind = "failure" /\ past[i].decision = "ask_user"

HistoryNext == ~Ended /\ (Succeeds \/ \E f \in Failures : Fails(f))

HistorySpec == HistoryInit /\ [][HistoryNext]_historyVars

-----------------------------------------------------------------------------
Newest(s, n) == SubSeq(s, IF Len(s) < n THEN 1 ELSE Len(s) - n + 1, Len(s))

(* Every variable has its type, and the counters fit one another: environment *)
(* checks are counted within the streak that a success ends.                  *)
HistoryTypeOK == /\ m \in Machines
                 /\ Len(m.signatures) <= Horizon
                 /\ m.envRepeat <= m.streak /\ m.streak <= Len(past)
                 /\ failed \in Seq(Failures)
                 /\ swaps \in Nat

(* Thrash is what S103 says it is: the last Window events are all failures, *)
(* not all of one kind.  A success anywhere in the window ends the streak   *)
(* (FailureTracker.cycling, record_success).                                *)
CyclingIsThrash ==
    LET recent == Newest(past, Window)
    IN  Cycling(m) <=> /\ Len(recent) = Window
                       /\ \A i \in 1..Window : recent[i].kind = "failure"
                       /\ \E i, j \in 1..Window : recent[i].of # recent[j].of

(* No progress is counted on failures alone: the same failure three times in *)
(* a row is a fact, whatever succeeded in between (consecutive_same).        *)
RepeatIsSameFailure ==
    LET recent == Newest(failed, MaxSame)
    IN  Repeats(m) >= MaxSame
          <=> /\ Len(recent) = MaxSame
              /\ \A i \in 1..MaxSame : recent[i] = recent[MaxSame]

(* Between two successes the machine asks for at most two environment checks *)
(* (S103 D2), so an environment failure cannot hide the ladder for ever.     *)
EnvironmentChecksBounded ==
    \A i, j, k \in 1..Len(past) :
        /\ i < j /\ j < k
        /\ \A e \in {i, j, k} : /\ past[e].kind = "failure"
                                /\ past[e].decision = "environment_check"
        => \E e \in i..k : past[e].kind = "success"

(* A human is only asked after the counted alternates, and after the stronger *)
(* model was tried if there is one; the model is swapped once at most.        *)
AskIsLastResort ==
    /\ swaps <= 1
    /\ \A k \in 1..Len(past) :
         /\ past[k].kind = "failure"
         /\ past[k].decision = "ask_user"
         => /\ Cardinality({i \in 1..k : /\ past[i].kind = "failure"
                                         /\ past[i].decision = "alternate_approach"})
                 >= MaxAlternates
            /\ CanEscalate => swaps = 1

(* What the counters of the machine claim is what has happened.              *)
SignalsAreEarned == /\ CyclingIsThrash /\ RepeatIsSameFailure
                    /\ EnvironmentChecksBounded /\ AskIsLastResort
=============================================================================
