---------------------------- MODULE VerifiedPanel ----------------------------
(***************************************************************************)
(* Who says that work is done.  A verification plan (agent/verification.py) *)
(* runs commands (execute_command of agent/execution.py) and passes or      *)
(* fails; panels of models (agent/multi_agent.py) propose, review and       *)
(* revise solutions, and only the verifier's word makes one final.          *)
(***************************************************************************)
EXTENDS Integers, Sequences, SequencesExt, FiniteSets

CONSTANTS Plans,     \* plans: [stops, steps], a step is [optional, contains]
          Solutions, \* texts a participant may propose
          Names,     \* the participants of a panel, in order; names are distinct
          Judges,    \* who ends an independent panel: nobody, a judge that picks
                     \* what passed, or one that writes a text of its own
          NoText,
          MaxPanels  \* bound: panels a lab holds

ASSUME PanelAssumption ==
    /\ NoText \notin Solutions /\ MaxPanels \in Nat
    /\ Plans \subseteq [stops : BOOLEAN, steps : Seq([optional : BOOLEAN, contains : BOOLEAN])]
    /\ Judges \subseteq {"order", "picks", "writes"}
    /\ Len(Names) >= 2 /\ \A i, j \in DOMAIN Names : i # j => Names[i] # Names[j]

VARIABLES mode,      \* the shape of the panel under way, or "none"
          proposals, \* session.proposals, by name; a revision has a name of its own
          critics,   \* who has given a critique
          running,   \* the text a chain or a debate works on
          votes,     \* verdicts of the verifier: <<text, ok>>, in order
          done,      \* the session as it was returned, or <<>>
          tally     \* the lab's report, by mode

panelVars == <<mode, proposals, critics, running, votes, done, tally>>

-----------------------------------------------------------------------------
(* execute_command: what a run comes to.  A command that is killed for its  *)
(* time may still have the code it meant to end with, or none.              *)
Runs == [code : {0, 1, -1}, late : BOOLEAN, says : BOOLEAN]

(* VerificationPlan.run, one step: in time, with the exit code expected,    *)
(* which 0 stands for, and an output that has the text that must be in it   *)
(* and not the one that must not.                                           *)
StepPasses(step, run) == ~run.late /\ run.code = 0 /\ (step.contains => run.says)

RunStep(acc, plan, step, run) ==
    LET passes == StepPasses(step, run)
    IN IF acc.aborted THEN [acc EXCEPT !.steps = Append(@, "skipped")]
       ELSE [steps   |-> Append(acc.steps, IF passes THEN "pass" ELSE "fail"),
             ok      |-> acc.ok /\ (passes \/ step.optional),
             aborted |-> ~passes /\ ~step.optional /\ plan.stops]

(* The plan: the verdict of each step, "skipped" behind a failure that      *)
(* stops it.                                                                *)
Verdicts(plan, runs) ==
    LET after[i \in 0..Len(plan.steps)] ==
            IF i = 0 THEN [steps |-> <<>>, ok |-> TRUE, aborted |-> FALSE]
            ELSE RunStep(after[i - 1], plan, plan.steps[i], runs[i])
    IN  after[Len(plan.steps)]

RunsOf(plan) == [DOMAIN plan.steps -> Runs]

(* plan_verifier: the word of the verifier about what lies in the workspace. *)
Verifier == {ok \in BOOLEAN : \E plan \in Plans : \E runs \in RunsOf(plan) :
                                  Verdicts(plan, runs).ok = ok}

-----------------------------------------------------------------------------
Modes == {"independent", "debate", "chain", "specialist"}
NoSession == [verified |-> FALSE, final |-> NoText, by |-> "order", consensus |-> FALSE, split |-> FALSE]
NoReport == [m \in Modes |-> [sessions |-> 0, verified |-> 0, consensus |-> 0, split |-> 0]]

PanelInit == /\ mode = "none" /\ proposals = <<>> /\ critics = {} /\ running = NoText
             /\ votes = <<>> /\ done = NoSession /\ tally = NoReport

Held == FoldFunction(LAMBDA r, n : r.sessions + n, 0, tally)

Open(m) == /\ mode = "none" /\ Held < MaxPanels
           /\ mode' = m /\ proposals' = <<>> /\ critics' = {} /\ running' = NoText
           /\ votes' = <<>> /\ done' = NoSession
           /\ UNCHANGED tally

(* Independent: every participant proposes, in order. *)
Propose == /\ mode = "independent" /\ Len(proposals) < Len(Names)
           /\ \E text \in Solutions : proposals' = Append(proposals, text)
           /\ UNCHANGED <<mode, critics, running, votes, done, tally>>

(* The first participant of any other shape begins. *)
Begin == /\ mode \in Modes \ {"independent"} /\ proposals = <<>>
         /\ \E text \in Solutions : proposals' = <<text>> /\ running' = text
         /\ UNCHANGED <<mode, critics, votes, done, tally>>

(* The others review in order; in a chain each revises what it reviewed, in *)
(* the other shapes the first one does at the end.                          *)
Reviewers == IF mode = "debate" THEN 1 ELSE Len(Names) - 1
Reviewed == Cardinality(critics) = Reviewers

Critique ==
    /\ mode \in Modes \ {"independent"} /\ proposals # <<>> /\ ~Reviewed
    /\ critics' = critics \cup {Names[Cardinality(critics) + 2]}
    /\ IF mode # "chain" THEN UNCHANGED <<proposals, running>>
       ELSE \E text \in Solutions :
              /\ running' = text
              /\ proposals' = IF text = running THEN proposals ELSE Append(proposals, text)
    /\ UNCHANGED <<mode, votes, done, tally>>

(* The text that is verified and then final is the revision of the first    *)
(* participant, in a chain that of the last.                                *)
Conclude ==
    /\ mode \in Modes \ {"independent"} /\ proposals # <<>> /\ Reviewed
    /\ \E text \in IF mode = "chain" THEN {running} ELSE Solutions, ok \in Verifier :
         /\ votes' = << <<text, ok>> >>
         /\ proposals' = IF mode = "chain" THEN proposals ELSE Append(proposals, text)
         /\ done' = [verified |-> ok, final |-> text, by |-> "order", consensus |-> FALSE,
                     split |-> ~ok /\ mode # "chain"]
    /\ mode' = "returned"
    /\ tally' = [tally EXCEPT ![mode] =
                    [sessions |-> @.sessions + 1, consensus |-> @.consensus,
                     verified |-> @.verified + IF done'.verified THEN 1 ELSE 0,
                     split    |-> @.split + IF done'.split THEN 1 ELSE 0]]
    /\ UNCHANGED <<critics, running>>

(* Each proposal is verified, the same text perhaps with different results. *)
Vote == /\ mode = "independent" /\ Len(proposals) = Len(Names) /\ Len(votes) < Len(Names)
        /\ \E ok \in Verifier : votes' = Append(votes, <<proposals[Len(votes) + 1], ok>>)
        /\ UNCHANGED <<mode, proposals, critics, running, done, tally>>

(* Fault: what all agree on needs no verification. *)
AcceptedByConsensus == IF Cardinality(Range(proposals)) = 1 THEN Range(proposals)
                       ELSE {v[1] : v \in {w \in Range(votes) : w[2]}}

Accepted == {v[1] : v \in {w \in Range(votes) : w[2]}}

(* What is final if anything passed: the first that passed, what the judge   *)
(* picks of them, or what the judge writes, which is not verified again.     *)
Finals(judge) ==
    LET passed == {i \in DOMAIN votes : votes[i][2]}
    IN IF passed = {} THEN {NoText}
       ELSE CASE judge = "order" -> {votes[CHOOSE i \in passed : \A j \in passed : i <= j][1]}
              [] judge = "picks" -> Accepted
              [] judge = "writes" -> Solutions

Judge(judge) ==
    /\ mode = "independent" /\ Len(votes) = Len(Names)
    /\ LET agreed == Cardinality(Range(proposals)) = 1
       IN /\ \E text \in Finals(judge) :
               done' = [verified |-> Accepted # {}, final |-> text, by |-> judge,
                        consensus |-> agreed, split |-> ~agreed]
          /\ tally' = [tally EXCEPT ![mode] =
                          [sessions  |-> @.sessions + 1,
                           verified  |-> @.verified + IF Accepted # {} THEN 1 ELSE 0,
                           consensus |-> @.consensus + IF agreed THEN 1 ELSE 0,
                           split     |-> @.split + IF agreed THEN 0 ELSE 1]]
    /\ mode' = "returned"
    /\ UNCHANGED <<proposals, critics, running, votes>>

Return == /\ mode = "returned" /\ mode' = "none"
          /\ UNCHANGED <<proposals, critics, running, votes, done, tally>>

PanelNext == (\E m \in Modes : Open(m)) \/ Propose \/ Begin \/ Critique \/ Conclude
             \/ Vote \/ (\E judge \in Judges : Judge(judge)) \/ Return
PanelSpec == PanelInit /\ [][PanelNext]_panelVars

-----------------------------------------------------------------------------
PanelTypeOK == /\ mode \in Modes \cup {"none", "returned"}
               /\ Range(proposals) \subseteq Solutions /\ critics \subseteq Range(Names)
               /\ running \in Solutions \cup {NoText}
               /\ \A m \in Modes : tally[m].sessions \in 0..MaxPanels

(* A panel calls its work verified only when the verifier has passed a text  *)
(* of it, and consensus is no substitute; the final text is such a one, and  *)
(* one that a participant proposed, unless a judge has written it            *)
(* (multi_agent.py, the gate).                                               *)
PanelIsHonest ==
    done.verified =>
        /\ \E text \in Range(proposals) : <<text, TRUE>> \in Range(votes)
        /\ done.by # "writes" => /\ <<done.final, TRUE>> \in Range(votes)
                                /\ done.final \in Range(proposals)

(* A plan that passes ran every mandatory step to a pass, in time; behind a  *)
(* failure that stops it nothing runs (verification.VerificationPlan.run).   *)
PlansAreHonest ==
    \A plan \in Plans : \A runs \in RunsOf(plan) :
        LET r == Verdicts(plan, runs)
            failed == {i \in DOMAIN plan.steps : r.steps[i] = "fail" /\ ~plan.steps[i].optional}
        IN /\ r.ok => \A i \in DOMAIN plan.steps :
                         plan.steps[i].optional \/ (r.steps[i] = "pass" /\ ~runs[i].late)
           /\ \A i \in DOMAIN plan.steps :
                 r.steps[i] = "skipped" <=> plan.stops /\ \E j \in failed : j < i
=============================================================================
