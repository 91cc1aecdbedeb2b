------------------------------ MODULE AgentLoop ------------------------------
(***************************************************************************)
(* AgentLoop.run (agent/loop.py) for one session: the thread that asks the *)
(* model, runs its tool calls, has its final answer verified, and recovers *)
(* from failures with the machine of module Recovery.  Another thread may  *)
(* set the cancel event at any time; the clock may pass the deadline.      *)
(*                                                                         *)
(* A final answer is named by the model turn that gave it.  Messages,      *)
(* observations and the text of events are left out; the terminal events   *)
(* are kept, in the order they are emitted.                                *)
(***************************************************************************)
EXTENDS Recovery

CONSTANTS MaxIterations, \* AgentConfig.max_iterations
          MaxCalls,      \* bound: tool calls in one response
          EmptyLimit,    \* consecutive empty responses that end a session
          HasVerifier,   \* the loop has a verifier
          HasRecovery,   \* the loop has a RecoveryStateMachine
          HasEscalation, \* the loop has an escalation factory
          Escapes        \* generate() may raise something that is not a
                         \* ProviderError (an http.client.IncompleteRead
                         \* that ollama_bridge._http_post does not catch),
                         \* build() and the escalation factory anything

ASSUME LoopAssumption ==
    /\ MaxIterations \in Nat \ {0} /\ MaxCalls \in Nat \ {0}
    /\ EmptyLimit \in Nat \ {0}
    /\ {HasVerifier, HasRecovery, HasEscalation, Escapes} \subseteq BOOLEAN

VARIABLES pc,         \* where run() is
          state,      \* session.state
          reason,     \* session.termination_reason
          endings,    \* terminal events emitted: state and reason
          iterations, \* session.iterations
          empties,    \* consecutive_empty
          left,       \* tool calls left in the current response
          pending,    \* session.pending_answer
          final,      \* session.final_result
          checks,     \* session.verification_results
          m,          \* the recovery machine
          swaps,      \* model_escalated events
          cancel,     \* the cancel event is set
          late        \* max_runtime_minutes have passed

session == <<state, reason, endings, pending, final, checks>>
turn    == <<iterations, empties, left>>
ladder  == <<m, swaps>>
outside == <<cancel, late>>
vars    == <<pc, session, turn, ladder, outside>>

NoAnswer == 0
Answers  == 1..MaxIterations
Terminal == {"CANCELLED", "COMPLETED", "FAILED"}
States   == Terminal \cup {"CREATED", "PLANNING", "RUNNING", "VERIFYING", "RECOVERING"}
FailureReasons == {"max iterations reached", "max runtime exceeded", "provider error",
                   "empty responses", "verification failed", "ask_user", "terminate"}
Reasons  == FailureReasons \cup {"none", "goal completed", "cancelled by user"}

Init == /\ pc = "start" /\ state = "CREATED" /\ reason = "none" /\ endings = <<>>
        /\ iterations = 0 /\ empties = 0 /\ left = 0
        /\ pending = NoAnswer /\ final = NoAnswer /\ checks = <<>>
        /\ m = NewMachine /\ swaps = 0
        /\ cancel = FALSE /\ late = FALSE

Goto(from, to) == pc = from /\ pc' = to

(* _finish: the transition (refused out of a terminal state, the refusal      *)
(* swallowed), the reason, one terminal event.  The caller returns.           *)
Finish(s, r) == /\ pc' = "done"
                /\ state' = IF state \in Terminal THEN state ELSE s
                /\ reason' = r
                /\ endings' = Append(endings, <<s, r>>)

(* session_started; CREATED -> PLANNING -> RUNNING around the first prompt. *)
Plan == /\ Goto("start", "planned") /\ state' = "PLANNING"
        /\ UNCHANGED <<reason, endings, pending, final, checks, turn, ladder, outside>>

Start == /\ Goto("planned", "top") /\ state' = "RUNNING"
         /\ UNCHANGED <<reason, endings, pending, final, checks, turn, ladder, outside>>

(* The head of the loop: cancelled, out of iterations, out of time, or one  *)
(* more model turn.                                                          *)
StopAtTop == /\ pc = "top"
             /\ \/ cancel /\ Finish("CANCELLED", "cancelled by user")
                \/ /\ ~cancel /\ iterations >= MaxIterations
                   /\ Finish("FAILED", "max iterations reached")
                \/ /\ ~cancel /\ iterations < MaxIterations /\ late
                   /\ Finish("FAILED", "max runtime exceeded")
             /\ UNCHANGED <<pending, final, checks, turn, ladder, outside>>

(* Fault: one model turn too many. *)
GenerateOnceMore ==
    /\ Goto("top", "reply")
    /\ ~cancel /\ iterations <= MaxIterations /\ ~late
    /\ iterations' = iterations + 1
    /\ UNCHANGED <<session, empties, left, ladder, outside>>

(* Fault: the cancel event is not read. *)
GenerateUnchecked ==
    /\ Goto("top", "reply")
    /\ iterations < MaxIterations /\ ~late
    /\ iterations' = iterations + 1
    /\ UNCHANGED <<session, empties, left, ladder, outside>>

Generate == /\ Goto("top", "reply")
            /\ ~cancel /\ iterations < MaxIterations /\ ~late
            /\ iterations' = iterations + 1
            /\ UNCHANGED <<session, empties, left, ladder, outside>>

(* ProviderError, or a response with finish_reason "error". *)
ReplyFails == /\ pc = "reply"
              /\ Finish("FAILED", "provider error")
              /\ UNCHANGED <<pending, final, checks, turn, ladder, outside>>

(* Any other exception leaves run() at once: nobody finishes the session. *)
Escape == Escapes /\ pc' = "raised" /\ UNCHANGED <<state, reason, endings>>

ReplyRaises == /\ pc = "reply" /\ Escape
               /\ UNCHANGED <<pending, final, checks, turn, ladder, outside>>

(* No tool call and no text. *)
ReplyEmpty == /\ pc = "reply"
              /\ empties' = empties + 1
              /\ IF empties + 1 >= EmptyLimit
                 THEN Finish("FAILED", "empty responses")
                 ELSE pc' = "top" /\ UNCHANGED <<state, reason, endings>>
              /\ UNCHANGED <<pending, final, checks, iterations, left, ladder, outside>>

(* A text without tool calls is the final answer: VERIFYING. *)
ReplyAnswer == /\ Goto("reply", "verify")
               /\ empties' = 0
               /\ state' = "VERIFYING"
               /\ pending' = IF HasVerifier THEN iterations ELSE pending
               /\ UNCHANGED <<reason, endings, final, checks, iterations, left,
                              ladder, outside>>

ReplyTools == /\ Goto("reply", "call")
              /\ empties' = 0
              /\ left' \in 1..MaxCalls
              /\ UNCHANGED <<session, iterations, ladder, outside>>

(* Without a verifier the answer is accepted as it is. *)
AcceptUnverified == /\ pc = "verify" /\ ~HasVerifier
                    /\ final' = iterations
                    /\ Finish("COMPLETED", "goal completed")
                    /\ UNCHANGED <<pending, checks, turn, ladder, outside>>

Checked(ok) == checks' = Append(checks, [answer |-> iterations, ok |-> ok])

(* Fault: the verdict on an earlier answer is taken for the new one. *)
VerifyPassesFirst == /\ pc = "verify" /\ HasVerifier
                     /\ checks' = IF checks = <<>>
                                  THEN <<[answer |-> iterations, ok |-> TRUE]>>
                                  ELSE checks
                     /\ final' = iterations
                     /\ Finish("COMPLETED", "goal completed")
                     /\ UNCHANGED <<pending, turn, ladder, outside>>

VerifyPasses == /\ pc = "verify" /\ HasVerifier
                /\ Checked(TRUE)
                /\ final' = iterations
                /\ Finish("COMPLETED", "goal completed")
                /\ UNCHANGED <<pending, turn, ladder, outside>>

(* recovery.on_failure and _apply_recovery: ask_user and terminate finish the *)
(* session, escalate_model swaps the provider if its factory makes one, the   *)
(* rest only instructs the model.  "go" is what run() does if it goes on.     *)
Recover(f, go) ==
    LET r == OnFailure(m, f, iterations < MaxIterations, HasEscalation)
    IN  CASE r.decision \in {"ask_user", "terminate"} ->
                 m' = r.machine /\ UNCHANGED swaps /\ Finish("FAILED", r.decision)
          [] r.decision = "escalate_model" ->
                 \/ m' = MarkEscalated(r.machine) /\ swaps' = swaps + 1 /\ go
                 \/ m' = r.machine /\ UNCHANGED swaps /\ Escape
          [] OTHER -> m' = r.machine /\ UNCHANGED swaps /\ go

(* Fault: a rejection without its transition to RECOVERING. *)
RejectSilently == pc' = "rejected" /\ UNCHANGED <<state, reason, endings>>

(* The failure goes back to the model: RECOVERING. *)
Reject == pc' = "rejected" /\ state' = "RECOVERING" /\ UNCHANGED <<reason, endings>>

(* The verifier says no, or crashes. *)
VerifyFails(text) ==
    /\ pc = "verify" /\ HasVerifier
    /\ Checked(FALSE)
    /\ IF HasRecovery
       THEN Recover([kind |-> "verification", text |-> text], Reject)
       ELSE /\ UNCHANGED ladder
            /\ IF iterations >= MaxIterations
               THEN Finish("FAILED", "verification failed")
               ELSE Reject
    /\ UNCHANGED <<pending, final, turn, outside>>

(* RECOVERING -> RUNNING, the failure in the messages. *)
Resume == /\ Goto("rejected", "top") /\ state' = "RUNNING"
          /\ UNCHANGED <<reason, endings, pending, final, checks, turn, ladder, outside>>

(* Before each call of a response the cancel event is read. *)
StopAtCall == /\ pc = "call" /\ cancel
              /\ Finish("CANCELLED", "cancelled by user")
              /\ UNCHANGED <<pending, final, checks, turn, ladder, outside>>

RunCall == /\ Goto("call", "running") /\ ~cancel
           /\ UNCHANGED <<session, turn, ladder, outside>>

NextCall == pc' = (IF left = 1 THEN "top" ELSE "call") /\ UNCHANGED <<state, reason, endings>>

(* Fault: the successful call is not counted off. *)
CallSucceedsAgain == /\ pc = "running"
                     /\ m' = IF HasRecovery THEN OnSuccess(m) ELSE m
                     /\ pc' = "call"
                     /\ UNCHANGED <<session, turn, swaps, outside>>

(* The call returns a result that is ok. *)
CallSucceeds == /\ pc = "running"
                /\ left' = left - 1
                /\ m' = IF HasRecovery THEN OnSuccess(m) ELSE m
                /\ NextCall
                /\ UNCHANGED <<pending, final, checks, iterations, empties, swaps, outside>>

(* Unadvertised, denied, timed out, cancelled, crashed or failed. *)
CallFails(text) ==
    /\ pc = "running"
    /\ left' = left - 1
    /\ IF HasRecovery
       THEN Recover([kind |-> "tool", text |-> text], NextCall)
       ELSE NextCall /\ UNCHANGED ladder
    /\ UNCHANGED <<pending, final, checks, iterations, empties, outside>>

(* Another thread: stop_session sets the cancel event. *)
RequestStop == /\ ~cancel /\ cancel' = TRUE
               /\ UNCHANGED <<pc, session, turn, ladder, late>>

(* The clock: max_runtime_minutes have passed since the session began. *)
DeadlinePasses == /\ ~late /\ pc \notin {"start", "planned"}
                  /\ late' = TRUE
                  /\ UNCHANGED <<pc, session, turn, ladder, cancel>>

Reply  == ReplyFails \/ ReplyRaises \/ ReplyEmpty \/ ReplyAnswer \/ ReplyTools
Verify == AcceptUnverified \/ VerifyPasses \/ \E t \in Texts : VerifyFails(t)
Tools  == StopAtCall \/ RunCall \/ CallSucceeds \/ \E t \in Texts : CallFails(t)

Step == Plan \/ Start \/ StopAtTop \/ Generate \/ Reply \/ Verify \/ Resume \/ Tools

Next == Step \/ RequestStop \/ DeadlinePasses

Spec == Init /\ [][Next]_vars

(* The loop's thread is scheduled, and each call it makes returns: providers, *)
(* tools, the verifier's commands and the confirmer all have timeouts.        *)
FairSpec == Spec /\ WF_vars(Step)

-----------------------------------------------------------------------------
Checks == [answer : Answers, ok : BOOLEAN]

(* Every variable has its type; an answer is named by a turn that was taken. *)
TypeOK == /\ pc \in {"start", "planned", "top", "reply", "verify", "rejected",
                     "call", "running", "done", "raised"}
          /\ state \in States /\ reason \in Reasons
          /\ endings \in Seq(Terminal \X Reasons)
          /\ iterations \in 0..MaxIterations
          /\ empties \in 0..EmptyLimit /\ left \in 0..MaxCalls
          /\ pending \in 0..iterations /\ final \in 0..iterations
          /\ checks \in Seq(Checks)
          /\ m \in Machines /\ swaps \in Nat
          /\ cancel \in BOOLEAN /\ late \in BOOLEAN

(* A gated session completes only with the answer that its verifier has just *)
(* passed: the newest one, never an earlier candidate, and never after a     *)
(* check that failed (loop.py run, final answer -> verify).                  *)
CompletionIsVerified ==
    state = "COMPLETED" /\ HasVerifier
      => /\ checks # <<>>
         /\ checks[Len(checks)] = [answer |-> final, ok |-> TRUE]
         /\ final = pending /\ final = iterations
         /\ \A i \in 1..(Len(checks) - 1) : ~checks[i].ok /\ checks[i].answer < final

(* A run ends exactly once: one terminal event, and it says what the session *)
(* record says.  Recovery and the loop share the duty to finish, and _finish *)
(* swallows a second ending, so neither the record nor the feed would show   *)
(* a crash if both did it (loop.py _finish, _apply_recovery).                *)
OneHonestEnding ==
    /\ pc = "done" <=> state \in Terminal
    /\ endings = IF pc = "done" THEN <<<<state, reason>>>> ELSE <<>>

(* A session gives up and asks for a human only when the counted rungs are   *)
(* used up, with turns left that it could have spent; and its model is       *)
(* swapped at most once (_apply_recovery, recovery.py on_failure).           *)
AskIsLastResort ==
    /\ swaps = (IF m.escalated THEN 1 ELSE 0)
    /\ reason = "ask_user" => /\ m.alternates >= MaxAlternates
                              /\ HasEscalation => m.escalated
                              /\ iterations < MaxIterations

(* After a stop no further model turn and no further tool call begins: what  *)
(* runs then is what was under way (run, the two reads of the cancel event). *)
StopEndsWork == [][cancel => /\ iterations' = iterations
                             /\ pc' = "running" => pc = "running"]_vars

(* The session as its abstract life cycle; without a verifier the answer     *)
(* under consideration is not kept in pending_answer.                        *)
Candidate == IF HasVerifier THEN pending
             ELSE IF state = "VERIFYING" THEN iterations ELSE final

Lifecycle == INSTANCE SessionLifecycle WITH pending <- Candidate

(* The loop implements the life cycle of docs/s37-spec.md: legal transitions *)
(* only, one reason, and completion with the very answer that was verified.  *)
ImplementsLifecycle == Lifecycle!Spec

(* Every run returns or raises: no sequence of replies, rejections, empty     *)
(* answers, failing calls and recoveries keeps the loop going for ever (run,  *)
(* max_iterations).                                                           *)
Terminates == <>(pc \in {"done", "raised"})

(* ".run(...) -> AgentSession  # terminal state guaranteed" (docs/s37-spec.md). *)
EndsInTerminalState == <>(state \in Terminal)
=============================================================================
