-------------------------- MODULE AgentLoop_proofs --------------------------
(***************************************************************************)
(* Theorems about module AgentLoop, for every value of its constants.      *)
(***************************************************************************)
EXTENDS AgentLoop, TLAPS

(* What a machine is made of. *)
LEMMA MachineFields ==
    ASSUME NEW mm \in Machines
    PROVE  /\ mm.signatures \in Seq(Failures)
           /\ mm.streak \in Nat /\ mm.alternates \in Nat /\ mm.envRepeat \in Nat
           /\ mm.escalated \in BOOLEAN
BY DEF Machines

(* Recording a failure keeps the machine a machine, and the counts of its ladder. *)
LEMMA RecordedType ==
    ASSUME NEW mm \in Machines, NEW f \in Failures
    PROVE  /\ Recorded(mm, f) \in Machines
           /\ Recorded(mm, f).alternates = mm.alternates
           /\ Recorded(mm, f).envRepeat = mm.envRepeat
           /\ Recorded(mm, f).escalated = mm.escalated
<1> DEFINE all == Append(mm.signatures, f)
           kept == IF Len(all) > Horizon THEN Tail(all) ELSE all
<1>1. all \in Seq(Failures) /\ all # <<>>
  BY MachineFields
<1>2. kept \in Seq(Failures)
  BY <1>1
<1>3. Recorded(mm, f) = [signatures |-> kept, streak |-> mm.streak + 1,
                         alternates |-> mm.alternates, envRepeat |-> mm.envRepeat,
                         escalated |-> mm.escalated]
  BY DEF Recorded
<1> HIDE DEF kept
<1>4. QED
  BY <1>2, <1>3, MachineFields DEF Machines

(* What a decision says: the machine stays one, escalation is only ever      *)
(* decided when there is a stronger model that was not tried yet, and a      *)
(* human is only asked when the counted rungs are used up.                   *)
LEMMA OnFailureMeans ==
    ASSUME NEW mm \in Machines, NEW f \in Failures,
           NEW turnsLeft \in BOOLEAN, NEW brain \in BOOLEAN
    PROVE  LET r == OnFailure(mm, f, turnsLeft, brain)
           IN  /\ r.machine \in Machines
               /\ r.machine.escalated = mm.escalated
               /\ r.decision \in Strategies
               /\ r.decision = "escalate_model" => brain /\ ~mm.escalated
               /\ r.decision = "ask_user"
                    => /\ turnsLeft
                       /\ r.machine.alternates >= MaxAlternates
                       /\ brain => mm.escalated
<1> DEFINE seen == Recorded(mm, f)
           available == brain /\ ~mm.escalated
           d == Decide(seen, f, turnsLeft, available)
<1>1. /\ seen \in Machines
      /\ seen.alternates = mm.alternates /\ seen.escalated = mm.escalated
  BY RecordedType
<1>2. /\ d \in Strategies
      /\ d = "escalate_model" => available
      /\ d = "ask_user" => turnsLeft /\ ~(seen.alternates < MaxAlternates) /\ ~available
  BY DEF Decide, Rung, Strategies
<1>3. OnFailure(mm, f, turnsLeft, brain) = [machine |-> Counted(seen, d), decision |-> d]
  BY DEF OnFailure
<1> HIDE DEF d, seen
<1>4. /\ Counted(seen, d) \in Machines
      /\ Counted(seen, d).escalated = mm.escalated
      /\ d = "ask_user" => Counted(seen, d).alternates = seen.alternates
  BY <1>1, MachineFields DEF Machines, Counted
<1>5. seen.alternates \in Nat
  BY <1>1, MachineFields
<1>6. mm.escalated \in BOOLEAN
  BY MachineFields
<1>7. QED
  BY <1>1, <1>2, <1>3, <1>4, <1>5, <1>6, LadderAssumption

-----------------------------------------------------------------------------
(* Where run() is decides the state of the session. *)
StateAt == [start |-> {"CREATED"}, planned |-> {"PLANNING"}, top |-> {"RUNNING"},
            reply |-> {"RUNNING"}, call |-> {"RUNNING"}, running |-> {"RUNNING"},
            raised |-> {"RUNNING", "VERIFYING"}, verify |-> {"VERIFYING"},
            rejected |-> {"RECOVERING"}, done |-> Terminal]

StateFollowsPc == state \in StateAt[pc]

(* Only an ended session has a reason, a result, or a terminal event. *)
LiveSession == pc # "done" => reason = "none" /\ final = NoAnswer /\ endings = <<>>
EndedSession == pc = "done" => endings = <<<<state, reason>>>>

(* A turn is under way: it was counted, and calls are left while they run. *)
TurnCounted == /\ pc \in {"reply", "verify", "rejected", "call", "running"} => iterations >= 1
               /\ pc \in {"call", "running"} => left >= 1
               /\ pc # "done" => empties < EmptyLimit

(* The checks so far: each of an earlier turn than the reply being handled,  *)
(* and every one of them failed until the session completes.                  *)
ChecksArePast ==
    /\ \A i \in 1..Len(checks) : checks[i].answer <= iterations
    /\ pc \in {"reply", "verify"} => \A i \in 1..Len(checks) : checks[i].answer < iterations
    /\ state # "COMPLETED" => \A i \in 1..Len(checks) : ~checks[i].ok

UnderTest == pc = "verify" /\ HasVerifier => pending = iterations

IInv == /\ TypeOK /\ StateFollowsPc /\ LiveSession /\ EndedSession /\ TurnCounted
        /\ ChecksArePast /\ UnderTest /\ CompletionIsVerified /\ AskIsLastResort

(* Where run() is says what the session state is, and conversely. *)
LEMMA Pcs ==
    ASSUME TypeOK, StateFollowsPc
    PROVE  /\ pc = "start" => state = "CREATED"
           /\ pc = "planned" => state = "PLANNING"
           /\ pc \in {"top", "reply", "call", "running"} => state = "RUNNING"
           /\ pc = "verify" => state = "VERIFYING"
           /\ pc = "rejected" => state = "RECOVERING"
           /\ pc = "done" <=> state \in Terminal
BY DEF TypeOK, StateFollowsPc, StateAt, Terminal

(* The invariant holds before run() begins. *)
LEMMA InitIInv == Init => IInv
<1> SUFFICES ASSUME Init PROVE IInv
  OBVIOUS
<1>1. NewMachine \in Machines /\ ~NewMachine.escalated
  BY DEF NewMachine, Machines
<1>a. <<>> \in Seq(Terminal \X Reasons) /\ <<>> \in Seq(Checks)
  OBVIOUS
<1>b. 0 \in 0..0 /\ 0 \in 0..MaxIterations /\ 0 \in 0..EmptyLimit /\ 0 \in 0..MaxCalls
  BY LoopAssumption
<1>2. TypeOK
  BY <1>1, <1>a, <1>b DEF Init, TypeOK, States, Reasons, NoAnswer
<1> QED
  BY <1>1, <1>2, LoopAssumption
     DEF Init, IInv, StateFollowsPc, StateAt, LiveSession, EndedSession, TurnCounted,
         ChecksArePast, UnderTest, CompletionIsVerified, AskIsLastResort

(* What Finish does to a live session. *)
LEMMA FinishEnds ==
    ASSUME IInv, pc # "done", NEW s \in Terminal, NEW r \in Reasons, Finish(s, r)
    PROVE  /\ pc' = "done" /\ state' = s /\ reason' = r
           /\ endings' = <<<<s, r>>>> /\ endings' \in Seq(Terminal \X Reasons)
           /\ s \in States
BY Pcs DEF IInv, LiveSession, Finish, States

(* Recovery ends the session, goes on as the caller says, or escapes. *)
LEMMA RecoverMeans ==
    ASSUME IInv, NEW f \in Failures, NEW ACTION go, Recover(f, go)
    PROVE  /\ m' \in Machines /\ swaps' \in Nat
           /\ swaps' = IF m'.escalated THEN 1 ELSE 0
           /\ \/ go \/ Escape
              \/ /\ \E r \in {"ask_user", "terminate"} :
                       /\ Finish("FAILED", r)
                       /\ r = "ask_user" => /\ m'.alternates >= MaxAlternates
                                            /\ HasEscalation => m'.escalated
                                            /\ iterations < MaxIterations
<1> DEFINE r == OnFailure(m, f, iterations < MaxIterations, HasEscalation)
<1>0. /\ m \in Machines /\ swaps \in Nat /\ swaps = IF m.escalated THEN 1 ELSE 0
      /\ HasEscalation \in BOOLEAN
  BY LoopAssumption DEF IInv, TypeOK, AskIsLastResort
<1>1. /\ r.machine \in Machines
      /\ r.machine.escalated = m.escalated
      /\ r.decision = "escalate_model" => HasEscalation /\ ~m.escalated
      /\ r.decision = "ask_user" => /\ iterations < MaxIterations
                                    /\ r.machine.alternates >= MaxAlternates
                                    /\ HasEscalation => m.escalated
  <2>1. (iterations < MaxIterations) \in BOOLEAN
    OBVIOUS
  <2> QED
    BY <1>0, <2>1, OnFailureMeans
<1>2. MarkEscalated(r.machine) \in Machines /\ MarkEscalated(r.machine).escalated
  BY <1>1 DEF MarkEscalated, Machines
<1>3. /\ r.decision \in {"ask_user", "terminate"} =>
            m' = r.machine /\ UNCHANGED swaps /\ Finish("FAILED", r.decision)
      /\ r.decision = "escalate_model" =>
            \/ m' = MarkEscalated(r.machine) /\ swaps' = swaps + 1 /\ go
            \/ m' = r.machine /\ UNCHANGED swaps /\ Escape
      /\ r.decision \notin {"ask_user", "terminate", "escalate_model"} =>
            m' = r.machine /\ UNCHANGED swaps /\ go
  BY DEF Recover
<1> HIDE DEF r
<1>4. QED
  BY <1>0, <1>1, <1>2, <1>3

-----------------------------------------------------------------------------
(* A run that ends without completing keeps the invariant, if the checks it  *)
(* leaves behind are failed ones and the reason is honest.                    *)
LEMMA FinishKeepsIInv ==
    ASSUME IInv, TypeOK', pc # "done", NEW s \in {"FAILED", "CANCELLED"}, NEW r \in Reasons,
           Finish(s, r), iterations' = iterations,
           \A i \in 1..Len(checks') : checks'[i].answer <= iterations /\ ~checks'[i].ok,
           AskIsLastResort'
    PROVE  IInv'
<1>1. pc' = "done" /\ state' = s /\ reason' = r /\ endings' = <<<<s, r>>>>
  BY FinishEnds DEF Terminal
<1>2. s \in Terminal /\ s # "COMPLETED"
  BY DEF Terminal
<1>3. StateFollowsPc' /\ LiveSession' /\ EndedSession' /\ TurnCounted' /\ UnderTest'
  BY <1>1, <1>2 DEF StateFollowsPc, StateAt, LiveSession, EndedSession, TurnCounted, UnderTest
<1>4. ChecksArePast' /\ CompletionIsVerified'
  BY <1>1, <1>2 DEF ChecksArePast, CompletionIsVerified
<1> QED
  BY <1>3, <1>4 DEF IInv

(* The checks of a live session. *)
LEMMA LiveChecks ==
    ASSUME IInv, pc # "done"
    PROVE  /\ checks \in Seq(Checks) /\ iterations \in Nat
           /\ \A i \in 1..Len(checks) : /\ checks[i] \in Checks
                                        /\ checks[i].answer \in Nat
                                        /\ checks[i].answer <= iterations
                                        /\ ~checks[i].ok
           /\ state # "COMPLETED" /\ reason = "none"
<1>1. TypeOK /\ StateFollowsPc /\ ChecksArePast /\ LiveSession
  BY DEF IInv
<1>2. state # "COMPLETED"
  BY <1>1, Pcs DEF Terminal
<1>3. checks \in Seq(Checks) /\ iterations \in Nat
  BY <1>1, LoopAssumption DEF TypeOK
<1>4. \A i \in 1..Len(checks) : checks[i] \in Checks
  BY <1>3
<1>5. \A c \in Checks : c.answer \in Nat
  BY LoopAssumption DEF Checks, Answers
<1> QED
  BY <1>1, <1>2, <1>3, <1>4, <1>5 DEF ChecksArePast, LiveSession

(* One more check, of the newest answer. *)
LEMMA CheckedMeans ==
    ASSUME IInv, pc = "verify", NEW ok \in BOOLEAN, Checked(ok)
    PROVE  /\ checks' \in Seq(Checks)
           /\ Len(checks') = Len(checks) + 1
           /\ checks'[Len(checks')] = [answer |-> iterations, ok |-> ok]
           /\ \A i \in 1..Len(checks) : /\ checks'[i] = checks[i]
                                        /\ checks[i].answer < iterations
<1> DEFINE new == [answer |-> iterations, ok |-> ok]
<1>1. iterations \in Answers
  BY LoopAssumption DEF IInv, TypeOK, TurnCounted, Answers
<1>2. new \in Checks
  BY <1>1 DEF Checks
<1>3. checks \in Seq(Checks) /\ checks' = Append(checks, new)
  BY LiveChecks DEF Checked
<1>4. \A i \in 1..Len(checks) : checks[i].answer < iterations
  BY DEF IInv, ChecksArePast
<1> HIDE DEF new
<1>5. /\ checks' \in Seq(Checks) /\ Len(checks') = Len(checks) + 1
      /\ checks'[Len(checks')] = new
      /\ \A i \in 1..Len(checks) : checks'[i] = checks[i]
  BY <1>2, <1>3
<1> QED
  BY <1>4, <1>5 DEF new

(* Nothing that AskIsLastResort is about changes. *)
LEMMA AskKept ==
    ASSUME IInv, UNCHANGED ladder, iterations' = iterations,
           reason' = reason \/ reason' # "ask_user"
    PROVE  AskIsLastResort'
BY DEF IInv, AskIsLastResort, ladder

(* The same for a step that leaves a live session alive and its record alone. *)
LEMMA LiveStep ==
    ASSUME IInv, TypeOK', pc # "done", pc' # "done",
           StateFollowsPc', TurnCounted', AskIsLastResort', UnderTest',
           UNCHANGED <<reason, endings, final, iterations>>,
           pc' \in {"reply", "verify"} => pc = "reply",
           \A i \in 1..Len(checks') : checks'[i].answer <= iterations /\ ~checks'[i].ok,
           pc = "reply" => checks' = checks
    PROVE  IInv'
<1>1. state' # "COMPLETED"
  <2>1. /\ state' \in StateAt[pc']
        /\ pc' \in {"start", "planned", "top", "reply", "verify", "rejected", "call", "running", "raised"}
    BY DEF StateFollowsPc, TypeOK
  <2> QED
    BY <2>1 DEF StateAt
<1>2. LiveSession' /\ EndedSession' /\ CompletionIsVerified'
  BY <1>1 DEF IInv, LiveSession, EndedSession, CompletionIsVerified
<1>3. ChecksArePast'
  BY <1>1 DEF IInv, ChecksArePast
<1> QED
  BY <1>2, <1>3 DEF IInv

-----------------------------------------------------------------------------
(* Every step keeps the invariant, one step of run() at a time. *)
LEMMA StepIInv == IInv /\ [Next]_vars => IInv'
<1> SUFFICES ASSUME IInv, [Next]_vars PROVE IInv'
  OBVIOUS
<1> USE DEF session, turn, ladder, outside, Goto
<1>1. /\ TypeOK /\ StateFollowsPc /\ LiveSession /\ EndedSession /\ TurnCounted
      /\ ChecksArePast /\ UnderTest /\ CompletionIsVerified /\ AskIsLastResort
  BY DEF IInv
<1>2. /\ MaxIterations \in Nat \ {0} /\ MaxCalls \in Nat \ {0} /\ EmptyLimit \in Nat \ {0}
      /\ iterations \in Nat /\ iterations <= MaxIterations
  BY <1>1, LoopAssumption DEF TypeOK
<1>3. CASE Plan
  <2>1. TypeOK'
    BY <1>1, <1>3 DEF Plan, TypeOK, States
  <2>2. StateFollowsPc' /\ TurnCounted' /\ UnderTest' /\ AskIsLastResort'
    BY <1>1, <1>3 DEF Plan, StateFollowsPc, StateAt, TurnCounted, UnderTest, AskIsLastResort
  <2> QED
    BY <1>3, <2>1, <2>2, LiveStep, LiveChecks DEF Plan
<1>4. CASE Start
  <2>1. TypeOK'
    BY <1>1, <1>4 DEF Start, TypeOK, States
  <2>2. StateFollowsPc' /\ TurnCounted' /\ UnderTest' /\ AskIsLastResort'
    BY <1>1, <1>4 DEF Start, StateFollowsPc, StateAt, TurnCounted, UnderTest, AskIsLastResort
  <2> QED
    BY <1>4, <2>1, <2>2, LiveStep, LiveChecks DEF Start
<1>5. CASE StopAtTop
  <2>1. PICK s \in {"CANCELLED", "FAILED"}, r \in Reasons \ {"ask_user"} : Finish(s, r)
    BY <1>5 DEF StopAtTop, Reasons, FailureReasons
  <2>2. pc # "done" /\ UNCHANGED <<pending, final, checks, turn, ladder, outside>>
    BY <1>5 DEF StopAtTop
  <2>3. /\ pc' = "done" /\ state' = s /\ reason' = r
        /\ endings' \in Seq(Terminal \X Reasons) /\ s \in States
    BY <2>1, <2>2, FinishEnds DEF Terminal
  <2>4. TypeOK'
    BY <1>1, <2>2, <2>3 DEF TypeOK
  <2> QED
    BY <2>1, <2>2, <2>3, <2>4, FinishKeepsIInv, LiveChecks, AskKept
<1>6. CASE Generate
  <2>1. /\ iterations' \in 0..MaxIterations /\ iterations' = iterations + 1
        /\ pc' = "reply" /\ pc = "top"
        /\ UNCHANGED <<session, empties, left, ladder, outside>>
    BY <1>2, <1>6 DEF Generate
  <2>2. pending \in 0..iterations' /\ final \in 0..iterations'
    BY <1>1, <1>2, <2>1 DEF TypeOK
  <2>3. TypeOK'
    BY <1>1, <2>1, <2>2 DEF TypeOK
  <2>4. state = "RUNNING" /\ reason = "none"
    BY <1>1, <2>1, Pcs DEF LiveSession
  <2>5. \A i \in 1..Len(checks) : /\ checks[i].answer <= iterations'
                                 /\ checks[i].answer < iterations' /\ ~checks[i].ok
    BY <1>2, <2>1, LiveChecks
  <2>6. StateFollowsPc' /\ TurnCounted' /\ UnderTest'
    BY <1>1, <1>2, <2>1, <2>4 DEF StateFollowsPc, StateAt, TurnCounted, UnderTest
  <2>7. ChecksArePast'
    BY <2>1, <2>5 DEF ChecksArePast
  <2>8. LiveSession' /\ EndedSession' /\ CompletionIsVerified' /\ AskIsLastResort'
    BY <1>1, <2>1, <2>4 DEF LiveSession, EndedSession, CompletionIsVerified, AskIsLastResort
  <2> QED
    BY <2>3, <2>6, <2>7, <2>8 DEF IInv
<1>7. CASE ReplyFails
  <2>1. /\ Finish("FAILED", "provider error") /\ pc # "done"
        /\ UNCHANGED <<pending, final, checks, turn, ladder, outside>>
    BY <1>7 DEF ReplyFails
  <2>2. "provider error" \in Reasons
    BY DEF Reasons, FailureReasons
  <2>3. /\ pc' = "done" /\ state' = "FAILED" /\ reason' = "provider error"
        /\ endings' \in Seq(Terminal \X Reasons) /\ "FAILED" \in States
    BY <2>1, <2>2, FinishEnds DEF Terminal
  <2>4. TypeOK'
    BY <1>1, <2>1, <2>2, <2>3 DEF TypeOK
  <2> QED
    BY <2>1, <2>2, <2>3, <2>4, FinishKeepsIInv, LiveChecks, AskKept
<1>8. CASE ReplyRaises
  <2>1. TypeOK'
    BY <1>1, <1>8 DEF ReplyRaises, Escape, TypeOK
  <2>2. StateFollowsPc' /\ TurnCounted' /\ UnderTest' /\ AskIsLastResort'
    BY <1>1, <1>8 DEF ReplyRaises, Escape, StateFollowsPc, StateAt, TurnCounted, UnderTest, AskIsLastResort
  <2> QED
    BY <1>8, <2>1, <2>2, LiveStep, LiveChecks DEF ReplyRaises, Escape
<1>9. CASE ReplyEmpty
  <2>1. /\ pc = "reply" /\ empties' = empties + 1
        /\ UNCHANGED <<pending, final, checks, iterations, left, ladder, outside>>
    BY <1>9 DEF ReplyEmpty
  <2>2. empties' \in 0..EmptyLimit
    BY <1>1, <1>2, <2>1 DEF TypeOK, TurnCounted
  <2>3. CASE empties + 1 >= EmptyLimit
    <3>1. Finish("FAILED", "empty responses") /\ "empty responses" \in Reasons
      BY <1>9, <2>3 DEF ReplyEmpty, Reasons, FailureReasons
    <3>2. /\ pc' = "done" /\ state' = "FAILED" /\ reason' = "empty responses"
          /\ endings' \in Seq(Terminal \X Reasons) /\ "FAILED" \in States
      BY <2>1, <3>1, FinishEnds DEF Terminal
    <3>3. TypeOK'
      BY <1>1, <2>1, <2>2, <3>1, <3>2 DEF TypeOK
    <3> QED
      BY <2>1, <3>1, <3>2, <3>3, FinishKeepsIInv, LiveChecks, AskKept
  <2>4. CASE ~(empties + 1 >= EmptyLimit)
    <3>1. pc' = "top" /\ UNCHANGED <<state, reason, endings>>
      BY <1>9, <2>4 DEF ReplyEmpty
    <3>2. TypeOK'
      BY <1>1, <2>1, <2>2, <3>1 DEF TypeOK
    <3>3. empties' < EmptyLimit
      BY <1>1, <1>2, <2>1, <2>2, <2>4
    <3>4. StateFollowsPc' /\ TurnCounted' /\ UnderTest' /\ AskIsLastResort'
      BY <1>1, <2>1, <3>1, <3>3 DEF StateFollowsPc, StateAt, TurnCounted, UnderTest, AskIsLastResort
    <3> QED
      BY <2>1, <3>1, <3>2, <3>4, LiveStep, LiveChecks
  <2> QED
    BY <2>3, <2>4
<1>10. CASE ReplyAnswer
  <2>1. /\ pc = "reply" /\ pc' = "verify" /\ empties' = 0 /\ state' = "VERIFYING"
        /\ pending' = IF HasVerifier THEN iterations ELSE pending
        /\ UNCHANGED <<reason, endings, final, checks, iterations, left, ladder, outside>>
    BY <1>10 DEF ReplyAnswer
  <2>2. pending' \in 0..iterations
    BY <1>1, <1>2, <2>1 DEF TypeOK
  <2>3. TypeOK'
    BY <1>1, <1>2, <2>1, <2>2 DEF TypeOK, States
  <2>4. StateFollowsPc' /\ TurnCounted' /\ UnderTest' /\ AskIsLastResort'
    BY <1>1, <1>2, <2>1 DEF StateFollowsPc, StateAt, TurnCounted, UnderTest, AskIsLastResort
  <2> QED
    BY <2>1, <2>3, <2>4, LiveStep, LiveChecks
<1>11. CASE ReplyTools
  <2>1. /\ pc = "reply" /\ pc' = "call" /\ empties' = 0 /\ left' \in 1..MaxCalls
        /\ UNCHANGED <<session, iterations, ladder, outside>>
    BY <1>11 DEF ReplyTools
  <2>2. TypeOK'
    BY <1>1, <1>2, <2>1 DEF TypeOK
  <2>3. StateFollowsPc' /\ TurnCounted' /\ UnderTest' /\ AskIsLastResort'
    BY <1>1, <1>2, <2>1 DEF StateFollowsPc, StateAt, TurnCounted, UnderTest, AskIsLastResort
  <2>4. UNCHANGED <<reason, endings, final, iterations, checks>>
    BY <2>1
  <2> QED
    BY <2>1, <2>2, <2>3, <2>4, LiveStep, LiveChecks
<1>12. CASE AcceptUnverified
  <2>1. /\ pc = "verify" /\ ~HasVerifier /\ final' = iterations
        /\ Finish("COMPLETED", "goal completed")
        /\ UNCHANGED <<pending, checks, turn, ladder, outside>>
    BY <1>12 DEF AcceptUnverified
  <2>2. "goal completed" \in Reasons
    BY DEF Reasons
  <2>3. /\ pc' = "done" /\ state' = "COMPLETED" /\ reason' = "goal completed"
        /\ endings' = <<<<state', reason'>>>>
        /\ endings' \in Seq(Terminal \X Reasons) /\ "COMPLETED" \in States
    BY <2>1, <2>2, FinishEnds DEF Terminal
  <2>a. final' \in 0..iterations
    <3>1. iterations \in 0..iterations
      BY <1>2
    <3> QED
      BY <2>1, <3>1
  <2>4. TypeOK'
    BY <1>1, <2>1, <2>2, <2>3, <2>a DEF TypeOK
  <2>5. StateFollowsPc' /\ LiveSession' /\ EndedSession' /\ TurnCounted' /\ UnderTest'
    BY <2>3 DEF StateFollowsPc, StateAt, Terminal, LiveSession, EndedSession, TurnCounted, UnderTest
  <2>6. ChecksArePast' /\ CompletionIsVerified'
    BY <1>1, <2>1, <2>3 DEF ChecksArePast, CompletionIsVerified
  <2>7. AskIsLastResort'
    BY <2>1, <2>3, AskKept
  <2> QED
    BY <2>4, <2>5, <2>6, <2>7 DEF IInv
<1>13. CASE VerifyPasses
  <2>1. /\ pc = "verify" /\ HasVerifier /\ final' = iterations /\ Checked(TRUE)
        /\ Finish("COMPLETED", "goal completed")
        /\ UNCHANGED <<pending, turn, ladder, outside>>
    BY <1>13 DEF VerifyPasses
  <2>2. "goal completed" \in Reasons
    BY DEF Reasons
  <2>3. /\ pc' = "done" /\ state' = "COMPLETED" /\ reason' = "goal completed"
        /\ endings' = <<<<state', reason'>>>>
        /\ endings' \in Seq(Terminal \X Reasons) /\ "COMPLETED" \in States
    BY <2>1, <2>2, FinishEnds DEF Terminal
  <2>4. /\ checks' \in Seq(Checks) /\ Len(checks') = Len(checks) + 1
        /\ checks'[Len(checks')] = [answer |-> iterations, ok |-> TRUE]
        /\ \A i \in 1..Len(checks) : /\ checks'[i] = checks[i]
                                     /\ checks[i].answer < iterations
    BY <2>1, CheckedMeans
  <2>a. final' \in 0..iterations
    <3>1. iterations \in 0..iterations
      BY <1>2
    <3> QED
      BY <2>1, <3>1
  <2>5. TypeOK'
    BY <1>1, <2>1, <2>2, <2>3, <2>4, <2>a DEF TypeOK
  <2>6. StateFollowsPc' /\ LiveSession' /\ EndedSession' /\ TurnCounted' /\ UnderTest'
    BY <2>3 DEF StateFollowsPc, StateAt, Terminal, LiveSession, EndedSession, TurnCounted, UnderTest
  <2>7. /\ checks \in Seq(Checks) /\ \A i \in 1..Len(checks) : ~checks[i].ok
        /\ \A i \in 1..Len(checks) : checks[i].answer <= iterations
    BY <2>1, LiveChecks
  <2>8. \A i \in 1..Len(checks') : i = Len(checks') \/ i \in 1..Len(checks)
    BY <2>4, <2>7
  <2>9. \A i \in 1..Len(checks') : checks'[i].answer <= iterations
    BY <1>2, <2>4, <2>7, <2>8
  <2>10. ChecksArePast'
    BY <2>1, <2>3, <2>9 DEF ChecksArePast
  <2>11. checks' # <<>> /\ \A i \in 1..(Len(checks') - 1) : i \in 1..Len(checks)
    BY <2>4, <2>7
  <2>12. pending = iterations
    BY <1>1, <2>1 DEF UnderTest
  <2>13. CompletionIsVerified'
    BY <2>1, <2>3, <2>4, <2>7, <2>11, <2>12 DEF CompletionIsVerified
  <2>14. AskIsLastResort'
    BY <2>1, <2>3, AskKept
  <2> QED
    BY <2>5, <2>6, <2>10, <2>13, <2>14 DEF IInv
<1>14. ASSUME NEW t \in Texts, VerifyFails(t) PROVE IInv'
  <2>1. /\ pc = "verify" /\ HasVerifier /\ Checked(FALSE)
        /\ UNCHANGED <<pending, final, turn, outside>>
    BY <1>14 DEF VerifyFails
  <2>2. /\ checks' \in Seq(Checks) /\ Len(checks') = Len(checks) + 1
        /\ checks'[Len(checks')] = [answer |-> iterations, ok |-> FALSE]
        /\ \A i \in 1..Len(checks) : /\ checks'[i] = checks[i]
                                     /\ checks[i].answer < iterations
    BY <2>1, CheckedMeans
  <2>3. checks \in Seq(Checks) /\ \A i \in 1..Len(checks) : ~checks[i].ok /\ checks[i].answer <= iterations
    BY <2>1, LiveChecks
  <2>4. \A i \in 1..Len(checks') : i = Len(checks') \/ i \in 1..Len(checks)
    BY <2>2, <2>3
  <2>5. \A i \in 1..Len(checks') : checks'[i].answer <= iterations /\ ~checks'[i].ok
    BY <1>2, <2>2, <2>3, <2>4
  <2>6. /\ m' \in Machines /\ swaps' \in Nat
        /\ swaps' = IF m'.escalated THEN 1 ELSE 0
        /\ \/ Reject \/ Escape
           \/ \E r \in Reasons : /\ Finish("FAILED", r)
                                 /\ r = "ask_user" => /\ m'.alternates >= MaxAlternates
                                                      /\ HasEscalation => m'.escalated
                                                      /\ iterations < MaxIterations
    <3>1. CASE HasRecovery
      <4>1. [kind |-> "verification", text |-> t] \in Failures
        BY <1>14 DEF Failures
      <4>2. Recover([kind |-> "verification", text |-> t], Reject)
        BY <1>14, <3>1 DEF VerifyFails
      <4>3. {"ask_user", "terminate"} \subseteq Reasons
        BY DEF Reasons, FailureReasons
      <4> QED
        BY <4>1, <4>2, <4>3, RecoverMeans
    <3>2. CASE ~HasRecovery
      <4>1. UNCHANGED ladder /\ (Reject \/ Finish("FAILED", "verification failed"))
        BY <1>14, <3>2 DEF VerifyFails
      <4>2. "verification failed" \in Reasons \ {"ask_user"}
        BY DEF Reasons, FailureReasons
      <4> QED
        BY <1>1, <4>1, <4>2 DEF TypeOK, AskIsLastResort
    <3> QED
      BY <3>1, <3>2
  <2>7. CASE Reject
    <3>1. pc' = "rejected" /\ state' = "RECOVERING" /\ UNCHANGED <<reason, endings>>
      BY <2>7 DEF Reject
    <3>2. TypeOK'
      BY <1>1, <2>1, <2>2, <2>6, <3>1 DEF TypeOK, States
    <3>3. reason = "none"
      BY <2>1, LiveChecks
    <3>4. StateFollowsPc' /\ TurnCounted' /\ UnderTest' /\ AskIsLastResort'
      BY <1>1, <2>1, <2>6, <3>1, <3>3 DEF StateFollowsPc, StateAt, TurnCounted, UnderTest, AskIsLastResort
    <3> QED
      BY <2>1, <2>5, <3>1, <3>2, <3>4, LiveStep
  <2>9. CASE Escape
    <3>1. pc' = "raised" /\ UNCHANGED <<state, reason, endings>> /\ state = "VERIFYING"
      BY <1>1, <2>1, <2>9, Pcs DEF Escape
    <3>2. TypeOK'
      BY <1>1, <2>1, <2>2, <2>6, <3>1 DEF TypeOK
    <3>3. reason = "none"
      BY <2>1, LiveChecks
    <3>4. StateFollowsPc' /\ TurnCounted' /\ UnderTest' /\ AskIsLastResort'
      BY <1>1, <2>1, <2>6, <3>1, <3>3 DEF StateFollowsPc, StateAt, TurnCounted, UnderTest, AskIsLastResort
    <3> QED
      BY <2>1, <2>5, <3>1, <3>2, <3>4, LiveStep
  <2>8. CASE ~Reject /\ ~Escape
    <3>1. PICK r \in Reasons : /\ Finish("FAILED", r)
                               /\ r = "ask_user" => /\ m'.alternates >= MaxAlternates
                                                    /\ HasEscalation => m'.escalated
                                                    /\ iterations < MaxIterations
      BY <2>6, <2>8
    <3>2. /\ pc' = "done" /\ state' = "FAILED" /\ reason' = r
          /\ endings' \in Seq(Terminal \X Reasons) /\ "FAILED" \in States
      BY <2>1, <3>1, FinishEnds DEF Terminal
    <3>3. TypeOK'
      BY <1>1, <2>1, <2>2, <2>6, <3>2 DEF TypeOK
    <3>4. AskIsLastResort'
      BY <2>1, <2>6, <3>1, <3>2 DEF AskIsLastResort
    <3> QED
      BY <2>1, <2>5, <3>1, <3>3, <3>4, FinishKeepsIInv
  <2> QED
    BY <2>7, <2>8, <2>9
<1>15. CASE Resume
  <2>1. TypeOK'
    BY <1>1, <1>15 DEF Resume, TypeOK, States
  <2>2. StateFollowsPc' /\ TurnCounted' /\ UnderTest' /\ AskIsLastResort'
    BY <1>1, <1>15 DEF Resume, StateFollowsPc, StateAt, TurnCounted, UnderTest, AskIsLastResort
  <2> QED
    BY <1>15, <2>1, <2>2, LiveStep, LiveChecks DEF Resume
<1>16. CASE StopAtCall
  <2>1. /\ Finish("CANCELLED", "cancelled by user") /\ pc # "done"
        /\ UNCHANGED <<pending, final, checks, turn, ladder, outside>>
    BY <1>16 DEF StopAtCall
  <2>2. "cancelled by user" \in Reasons
    BY DEF Reasons
  <2>3. /\ pc' = "done" /\ state' = "CANCELLED" /\ reason' = "cancelled by user"
        /\ endings' \in Seq(Terminal \X Reasons) /\ "CANCELLED" \in States
    BY <2>1, <2>2, FinishEnds DEF Terminal
  <2>4. TypeOK'
    BY <1>1, <2>1, <2>2, <2>3 DEF TypeOK
  <2> QED
    BY <2>1, <2>2, <2>3, <2>4, FinishKeepsIInv, LiveChecks, AskKept
<1>17. CASE RunCall
  <2>1. TypeOK'
    BY <1>1, <1>17 DEF RunCall, TypeOK
  <2>2. StateFollowsPc' /\ TurnCounted' /\ UnderTest' /\ AskIsLastResort'
    BY <1>1, <1>17 DEF RunCall, StateFollowsPc, StateAt, TurnCounted, UnderTest, AskIsLastResort
  <2> QED
    BY <1>17, <2>1, <2>2, LiveStep, LiveChecks DEF RunCall
<1>18. ASSUME pc = "running", NextCall, left' = left - 1, m' \in Machines, swaps' \in Nat,
              swaps' = IF m'.escalated THEN 1 ELSE 0,
              UNCHANGED <<pending, final, checks, iterations, empties, outside>>
       PROVE  IInv'
  <2>1. /\ pc' = IF left = 1 THEN "top" ELSE "call"
        /\ UNCHANGED <<state, reason, endings>>
    BY <1>18 DEF NextCall
  <2>2. left' \in 0..MaxCalls /\ (left # 1 => left' >= 1)
    BY <1>1, <1>2, <1>18 DEF TypeOK, TurnCounted
  <2>3. TypeOK'
    BY <1>1, <1>18, <2>1, <2>2 DEF TypeOK
  <2>4. reason = "none"
    BY <1>18, LiveChecks
  <2>5. StateFollowsPc' /\ TurnCounted' /\ UnderTest' /\ AskIsLastResort'
    BY <1>1, <1>18, <2>1, <2>2, <2>4 DEF StateFollowsPc, StateAt, TurnCounted, UnderTest, AskIsLastResort
  <2> QED
    BY <1>18, <2>1, <2>3, <2>5, LiveStep, LiveChecks
<1>19. CASE CallSucceeds
  <2>1. /\ pc = "running" /\ NextCall /\ left' = left - 1
        /\ UNCHANGED <<pending, final, checks, iterations, empties, swaps, outside>>
        /\ m' = IF HasRecovery THEN OnSuccess(m) ELSE m
    BY <1>19 DEF CallSucceeds
  <2>2. OnSuccess(m) \in Machines /\ OnSuccess(m).escalated = m.escalated
    BY <1>1 DEF TypeOK, OnSuccess, Machines
  <2>3. /\ m' \in Machines /\ swaps' \in Nat
        /\ swaps' = IF m'.escalated THEN 1 ELSE 0
    BY <1>1, <2>1, <2>2 DEF TypeOK, AskIsLastResort
  <2> QED
    BY <1>18, <2>1, <2>3
<1>20. ASSUME NEW t \in Texts, CallFails(t) PROVE IInv'
  <2>1. /\ pc = "running" /\ left' = left - 1
        /\ UNCHANGED <<pending, final, checks, iterations, empties, outside>>
    BY <1>20 DEF CallFails
  <2>2. /\ m' \in Machines /\ swaps' \in Nat
        /\ swaps' = IF m'.escalated THEN 1 ELSE 0
        /\ \/ NextCall \/ Escape
           \/ \E r \in Reasons : /\ Finish("FAILED", r)
                                 /\ r = "ask_user" => /\ m'.alternates >= MaxAlternates
                                                      /\ HasEscalation => m'.escalated
                                                      /\ iterations < MaxIterations
    <3>1. CASE HasRecovery
      <4>1. [kind |-> "tool", text |-> t] \in Failures
        BY <1>20 DEF Failures
      <4>2. Recover([kind |-> "tool", text |-> t], NextCall)
        BY <1>20, <3>1 DEF CallFails
      <4>3. {"ask_user", "terminate"} \subseteq Reasons
        BY DEF Reasons, FailureReasons
      <4> QED
        BY <4>1, <4>2, <4>3, RecoverMeans
    <3>2. CASE ~HasRecovery
      BY <1>1, <1>20, <3>2 DEF CallFails, TypeOK, AskIsLastResort
    <3> QED
      BY <3>1, <3>2
  <2>3. CASE NextCall
    BY <1>18, <2>1, <2>2, <2>3
  <2>5. CASE Escape
    <3>1. pc' = "raised" /\ UNCHANGED <<state, reason, endings>> /\ state = "RUNNING"
      BY <1>1, <2>1, <2>5, Pcs DEF Escape
    <3>2. left' \in 0..MaxCalls /\ reason = "none"
      BY <1>1, <1>2, <2>1, LiveChecks DEF TypeOK, TurnCounted
    <3>3. TypeOK'
      BY <1>1, <2>1, <2>2, <3>1, <3>2 DEF TypeOK
    <3>4. StateFollowsPc' /\ TurnCounted' /\ UnderTest' /\ AskIsLastResort'
      BY <1>1, <2>1, <2>2, <3>1, <3>2 DEF StateFollowsPc, StateAt, TurnCounted, UnderTest, AskIsLastResort
    <3> QED
      BY <2>1, <3>1, <3>3, <3>4, LiveStep, LiveChecks
  <2>4. CASE ~NextCall /\ ~Escape
    <3>1. PICK r \in Reasons : /\ Finish("FAILED", r)
                               /\ r = "ask_user" => /\ m'.alternates >= MaxAlternates
                                                    /\ HasEscalation => m'.escalated
                                                    /\ iterations < MaxIterations
      BY <2>2, <2>4
    <3>2. /\ pc' = "done" /\ state' = "FAILED" /\ reason' = r
          /\ endings' \in Seq(Terminal \X Reasons) /\ "FAILED" \in States
      BY <2>1, <3>1, FinishEnds DEF Terminal
    <3>3. left' \in 0..MaxCalls
      BY <1>1, <1>2, <2>1 DEF TypeOK, TurnCounted
    <3>4. TypeOK'
      BY <1>1, <2>1, <2>2, <3>2, <3>3 DEF TypeOK
    <3>5. AskIsLastResort'
      BY <2>1, <2>2, <3>1, <3>2 DEF AskIsLastResort
    <3> QED
      BY <2>1, <3>1, <3>4, <3>5, FinishKeepsIInv, LiveChecks
  <2> QED
    BY <2>3, <2>4, <2>5
<1>21. ASSUME UNCHANGED <<pc, session, turn, ladder>>, cancel' \in BOOLEAN, late' \in BOOLEAN
       PROVE  IInv'
  <2>1. TypeOK'
    BY <1>1, <1>21 DEF TypeOK
  <2> QED
    BY <1>1, <1>21, <2>1
       DEF IInv, StateFollowsPc, LiveSession, EndedSession, TurnCounted, ChecksArePast,
           UnderTest, CompletionIsVerified, AskIsLastResort
<1>22. CASE RequestStop
  BY <1>1, <1>21, <1>22 DEF RequestStop, TypeOK
<1>23. CASE DeadlinePasses
  BY <1>1, <1>21, <1>23 DEF DeadlinePasses, TypeOK
<1>24. CASE UNCHANGED vars
  BY <1>1, <1>21, <1>24 DEF vars, TypeOK
<1> QED
  BY <1>3, <1>4, <1>5, <1>6, <1>7, <1>8, <1>9, <1>10, <1>11, <1>12, <1>13, <1>14, <1>15,
     <1>16, <1>17, <1>19, <1>20, <1>22, <1>23, <1>24
     DEF Next, Step, Reply, Verify, Tools

(* The inductive invariant holds in every run. *)
LEMMA Invariance == Spec => []IInv
BY InitIInv, StepIInv, PTL DEF Spec

(* Every variable of the loop keeps its type, in every run. *)
THEOREM TypeCorrect == Spec => []TypeOK
<1>1. IInv => TypeOK
  BY DEF IInv
<1> QED
  BY <1>1, Invariance, PTL

(* A gated session completes only with the answer its verifier passed last,  *)
(* whatever recovery, stops and deadlines do in between.                     *)
THEOREM CompletesVerified == Spec => []CompletionIsVerified
<1>1. IInv => CompletionIsVerified
  BY DEF IInv
<1> QED
  BY <1>1, Invariance, PTL

(* A run has exactly one ending, and it is the one the session records. *)
THEOREM EndsOnce == Spec => []OneHonestEnding
<1>1. IInv => OneHonestEnding
  BY Pcs DEF IInv, OneHonestEnding, LiveSession, EndedSession
<1> QED
  BY <1>1, Invariance, PTL

(* A human is asked for only when the ladder is used up. *)
THEOREM AsksLast == Spec => []AskIsLastResort
<1>1. IInv => AskIsLastResort
  BY DEF IInv
<1> QED
  BY <1>1, Invariance, PTL

-----------------------------------------------------------------------------
(* After a stop, no model turn and no tool call begins. *)
THEOREM StopsWork == Spec => StopEndsWork
<1>1. ASSUME IInv, [Next]_vars
      PROVE  [cancel => /\ iterations' = iterations
                        /\ pc' = "running" => pc = "running"]_vars
  <2> SUFFICES ASSUME cancel, Next
               PROVE  iterations' = iterations /\ (pc' = "running" => pc = "running")
    BY <1>1
  <2> USE DEF session, turn, ladder, outside, Goto
  <2>1. CASE Plan \/ Start \/ StopAtTop \/ Generate \/ Resume
    BY <2>1 DEF Plan, Start, StopAtTop, Generate, Resume, Finish
  <2>2. CASE Reply
    BY <2>2 DEF Reply, Escape, ReplyFails, ReplyRaises, ReplyEmpty, ReplyAnswer, ReplyTools, Finish
  <2>3. CASE AcceptUnverified \/ VerifyPasses
    BY <2>3 DEF AcceptUnverified, VerifyPasses, Finish
  <2>4. ASSUME NEW t \in Texts, VerifyFails(t)
        PROVE  iterations' = iterations /\ (pc' = "running" => pc = "running")
    BY <2>4 DEF VerifyFails, Recover, Escape, Reject, Finish
  <2>5. CASE StopAtCall \/ RunCall \/ CallSucceeds
    BY <2>5 DEF StopAtCall, RunCall, CallSucceeds, NextCall, Finish
  <2>6. ASSUME NEW t \in Texts, CallFails(t)
        PROVE  iterations' = iterations /\ (pc' = "running" => pc = "running")
    BY <2>6 DEF CallFails, Recover, Escape, NextCall, Finish
  <2>7. CASE RequestStop \/ DeadlinePasses
    BY <2>7 DEF RequestStop, DeadlinePasses
  <2> QED
    BY <2>1, <2>2, <2>3, <2>4, <2>5, <2>6, <2>7 DEF Next, Step, Verify, Tools
<1> QED
  BY <1>1, Invariance, PTL DEF Spec, StopEndsWork

-----------------------------------------------------------------------------
(* What Finish is to the life cycle. *)
LEMMA FailMaps ==
    ASSUME IInv, pc \in {"top", "reply", "call", "running", "verify"},
           NEW r \in FailureReasons, Finish("FAILED", r), UNCHANGED <<pending, final, iterations>>,
           pc = "verify" => HasVerifier
    PROVE  Lifecycle!Next
<1>1. state' = "FAILED" /\ reason' = r
  BY FinishEnds DEF Terminal, Reasons
<1>2. state \in {"RUNNING", "VERIFYING"} /\ (~HasVerifier => state # "VERIFYING")
  BY Pcs DEF IInv
<1>3. UNCHANGED Candidate
  BY <1>1, <1>2 DEF Candidate
<1> QED
  BY <1>1, <1>2, <1>3 DEF Lifecycle!Next, Lifecycle!Fail

(* A cancelled ending is the life cycle's Cancel. *)
LEMMA CancelMaps ==
    ASSUME IInv, pc \in {"top", "call"}, Finish("CANCELLED", "cancelled by user"),
           UNCHANGED <<pending, final, iterations>>
    PROVE  Lifecycle!Next
<1>1. state' = "CANCELLED" /\ reason' = "cancelled by user"
  BY FinishEnds DEF Terminal, Reasons
<1>2. state = "RUNNING"
  BY Pcs DEF IInv
<1>3. UNCHANGED Candidate
  BY <1>1, <1>2 DEF Candidate
<1> QED
  BY <1>1, <1>2, <1>3 DEF Lifecycle!Next, Lifecycle!Cancel

(* A completed ending is the life cycle's Accept. *)
LEMMA CompleteMaps ==
    ASSUME IInv, pc = "verify", Finish("COMPLETED", "goal completed"), final' = iterations,
           UNCHANGED <<pending, iterations>>
    PROVE  Lifecycle!Next
<1>1. state' = "COMPLETED" /\ reason' = "goal completed"
  BY FinishEnds DEF Terminal, Reasons
<1>2. state = "VERIFYING"
  BY Pcs DEF IInv
<1>3. Candidate = iterations /\ UNCHANGED Candidate
  BY <1>1, <1>2 DEF Candidate, IInv, UnderTest
<1> QED
  BY <1>1, <1>2, <1>3 DEF Lifecycle!Next, Lifecycle!Accept

(* The rest of a recovery is no step of the life cycle by itself. *)
LEMMA RecoverMaps ==
    ASSUME NEW f, NEW ACTION go, Recover(f, go)
    PROVE  go \/ Escape \/ \E r \in FailureReasons : Finish("FAILED", r)
BY DEF Recover, FailureReasons

(* Every step of the loop is a step of the life cycle, or leaves it alone. *)
LEMMA StepMaps == IInv /\ [Next]_vars => [Lifecycle!Next]_Lifecycle!vars
<1> SUFFICES ASSUME IInv, [Next]_vars PROVE [Lifecycle!Next]_Lifecycle!vars
  OBVIOUS
<1> USE DEF session, turn, ladder, outside, Goto
<1>1. TypeOK /\ StateFollowsPc /\ LiveSession /\ TurnCounted
  BY DEF IInv
<1>2. ASSUME UNCHANGED <<state, reason, pending, final, iterations>>
      PROVE  UNCHANGED Lifecycle!vars
  BY <1>2 DEF Lifecycle!vars, Candidate
<1>3. CASE Plan
  BY <1>1, <1>3, Pcs DEF Plan, Lifecycle!Next, Lifecycle!Plan, Lifecycle!Moves, Candidate
<1>4. CASE Start
  BY <1>1, <1>4, Pcs DEF Start, Lifecycle!Next, Lifecycle!Start, Lifecycle!Moves, Candidate
<1>5. CASE StopAtTop
  BY <1>5, FailMaps, CancelMaps DEF StopAtTop, FailureReasons
<1>6. CASE Generate
  <2>1. /\ pc = "top" /\ UNCHANGED <<state, reason, pending, final>>
    BY <1>6 DEF Generate
  <2>2. state = "RUNNING"
    BY <1>1, <2>1, Pcs
  <2> QED
    BY <2>1, <2>2 DEF Lifecycle!vars, Candidate
<1>7. CASE ReplyFails
  BY <1>7, FailMaps DEF ReplyFails, FailureReasons
<1>8. CASE ReplyRaises
  BY <1>2, <1>8 DEF ReplyRaises, Escape
<1>9. CASE ReplyEmpty
  <2>1. CASE Finish("FAILED", "empty responses")
    BY <1>9, <2>1, FailMaps DEF ReplyEmpty, FailureReasons
  <2>2. CASE UNCHANGED <<state, reason, endings>>
    BY <1>2, <1>9, <2>2 DEF ReplyEmpty
  <2> QED
    BY <1>9, <2>1, <2>2 DEF ReplyEmpty
<1>10. CASE ReplyAnswer
  <2>1. /\ pc = "reply" /\ state' = "VERIFYING"
        /\ pending' = IF HasVerifier THEN iterations ELSE pending
        /\ UNCHANGED <<reason, final, iterations>>
    BY <1>10 DEF ReplyAnswer
  <2>2. state = "RUNNING" /\ iterations \in Answers
    BY <1>1, <2>1, Pcs, LoopAssumption DEF TurnCounted, TypeOK, Answers
  <2>3. Candidate' = iterations
    BY <2>1 DEF Candidate
  <2> QED
    BY <2>1, <2>2, <2>3 DEF Lifecycle!Next, Lifecycle!Submit, Lifecycle!Moves
<1>11. CASE ReplyTools
  BY <1>2, <1>11 DEF ReplyTools
<1>12. CASE AcceptUnverified
  BY <1>12, CompleteMaps DEF AcceptUnverified
<1>13. CASE VerifyPasses
  BY <1>13, CompleteMaps DEF VerifyPasses
<1>14. ASSUME NEW t \in Texts, VerifyFails(t) PROVE [Lifecycle!Next]_Lifecycle!vars
  <2>1. pc = "verify" /\ HasVerifier /\ UNCHANGED <<pending, final, iterations>>
    BY <1>14 DEF VerifyFails
  <2>2. Reject \/ Escape \/ \E r \in FailureReasons : Finish("FAILED", r)
    <3>1. CASE HasRecovery
      BY <1>14, <3>1, RecoverMaps DEF VerifyFails
    <3>2. CASE ~HasRecovery
      BY <1>14, <3>2 DEF VerifyFails, FailureReasons
    <3> QED
      BY <3>1, <3>2
  <2>3. CASE Reject
    BY <1>1, <2>1, <2>3, Pcs
       DEF Reject, Lifecycle!Next, Lifecycle!Reject, Lifecycle!Moves, Candidate
  <2>5. CASE Escape
    BY <1>2, <2>1, <2>5 DEF Escape
  <2>4. CASE ~Reject /\ ~Escape
    <3>1. PICK r \in FailureReasons : Finish("FAILED", r)
      BY <2>2, <2>4
    <3> QED
      BY <2>1, <3>1, FailMaps
  <2> QED
    BY <2>3, <2>4, <2>5
<1>15. CASE Resume
  BY <1>1, <1>15, Pcs DEF Resume, Lifecycle!Next, Lifecycle!Resume, Lifecycle!Moves, Candidate
<1>16. CASE StopAtCall
  BY <1>16, CancelMaps DEF StopAtCall
<1>17. CASE RunCall
  BY <1>2, <1>17 DEF RunCall
<1>18. CASE CallSucceeds
  BY <1>2, <1>18 DEF CallSucceeds, NextCall
<1>19. ASSUME NEW t \in Texts, CallFails(t) PROVE [Lifecycle!Next]_Lifecycle!vars
  <2>1. pc = "running" /\ UNCHANGED <<pending, final, iterations>>
    BY <1>19 DEF CallFails
  <2>2. NextCall \/ Escape \/ \E r \in FailureReasons : Finish("FAILED", r)
    <3>1. CASE HasRecovery
      BY <1>19, <3>1, RecoverMaps DEF CallFails
    <3>2. CASE ~HasRecovery
      BY <1>19, <3>2 DEF CallFails
    <3> QED
      BY <3>1, <3>2
  <2>3. CASE NextCall
    BY <1>2, <2>1, <2>3 DEF NextCall
  <2>5. CASE Escape
    BY <1>2, <2>1, <2>5 DEF Escape
  <2>4. CASE ~NextCall /\ ~Escape
    <3>1. PICK r \in FailureReasons : Finish("FAILED", r)
      BY <2>2, <2>4
    <3> QED
      BY <2>1, <3>1, FailMaps
  <2> QED
    BY <2>3, <2>4, <2>5
<1>20. CASE RequestStop \/ DeadlinePasses
  BY <1>2, <1>20 DEF RequestStop, DeadlinePasses
<1>21. CASE UNCHANGED vars
  BY <1>2, <1>21 DEF vars
<1> QED
  BY <1>3, <1>4, <1>5, <1>6, <1>7, <1>8, <1>9, <1>10, <1>11, <1>12, <1>13, <1>14, <1>15,
     <1>16, <1>17, <1>18, <1>19, <1>20, <1>21
     DEF Next, Step, Reply, Verify, Tools

(* The loop implements the session life cycle, whatever its configuration. *)
THEOREM LoopImplementsLifecycle == Spec => ImplementsLifecycle
<1>1. Init => Lifecycle!Init
  BY DEF Init, Lifecycle!Init, Candidate
<1> QED
  BY <1>1, StepMaps, Invariance, PTL DEF Spec, ImplementsLifecycle, Lifecycle!Spec
=============================================================================
