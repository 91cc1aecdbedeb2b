--------------------------- MODULE SessionLifecycle ---------------------------
(***************************************************************************)
(* What the runtime promises of one agent session (agent/session.py,       *)
(* docs/s37-spec.md): it plans, runs, has its final answers verified, and  *)
(* ends once, in a terminal state, with a reason.  A session completes     *)
(* only with the answer that is being verified, and a rejected answer      *)
(* sends it through RECOVERING back to RUNNING.                            *)
(***************************************************************************)
CONSTANTS Answers,   \* the final answers a model may give
          NoAnswer,  \* none yet
          FailureReasons \* why a session may fail

VARIABLES state,   \* AgentSession.state
          reason,  \* termination_reason, "none" while the session lives
          pending, \* pending_answer
          final    \* final_result

vars == <<state, reason, pending, final>>

Terminal == {"CANCELLED", "COMPLETED", "FAILED"}

Init == state = "CREATED" /\ reason = "none" /\ pending = NoAnswer /\ final = NoAnswer

Moves(from, to) == state = from /\ state' = to /\ UNCHANGED <<reason, final>>

Plan    == Moves("CREATED", "PLANNING") /\ UNCHANGED pending
Start   == Moves("PLANNING", "RUNNING") /\ UNCHANGED pending
Submit  == Moves("RUNNING", "VERIFYING") /\ \E a \in Answers : pending' = a
Reject  == Moves("VERIFYING", "RECOVERING") /\ UNCHANGED pending
Resume  == Moves("RECOVERING", "RUNNING") /\ UNCHANGED pending

Accept == /\ state = "VERIFYING"
          /\ state' = "COMPLETED" /\ reason' = "goal completed"
          /\ final' = pending
          /\ UNCHANGED pending

Fail == /\ state \in {"RUNNING", "VERIFYING"}
        /\ state' = "FAILED" /\ reason' \in FailureReasons
        /\ UNCHANGED <<pending, final>>

Cancel == /\ state = "RUNNING"
          /\ state' = "CANCELLED" /\ reason' = "cancelled by user"
          /\ UNCHANGED <<pending, final>>

Next == Plan \/ Start \/ Submit \/ Reject \/ Resume \/ Accept \/ Fail \/ Cancel

Spec == Init /\ [][Next]_vars
=============================================================================
