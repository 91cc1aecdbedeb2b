------------------------------ MODULE ToolGate ------------------------------
(***************************************************************************)
(* The path of a tool call through ToolRegistry.execute (registry.py), the *)
(* policy (permissions.py) and the dashboard's approval slot (server.py):  *)
(* the session's thread asks, HTTP threads answer, a timer denies, and the *)
(* handler runs on a thread of its own that may outlive its timeout.       *)
(*                                                                         *)
(* Requests are numbered in the order the session makes them.  The slot    *)
(* and its event are fresh objects per request, so both are named by it.   *)
(***************************************************************************)
EXTENDS Integers, Sequences, FiniteSets

CONSTANTS Clicks,      \* POST /confirm requests, each its own HTTP thread
          MaxRequests, \* bound: tool calls of the session
          Tools        \* the tools it calls

Levels == {"READ_ONLY", "SAFE_WRITE", "EXECUTION", "DESTRUCTIVE", "EXTERNAL"}
Modes  == {"ALLOW", "ASK", "DENY"}

(* A registered tool, with the explicit rule that matches it, if one does.  *)
(* It is unplaced if it requires a workspace and the session has none.      *)
ToolKinds == [level : Levels, confirm : BOOLEAN, rule : Modes \cup {"none"},
              unplaced : BOOLEAN]

ASSUME MaxRequestsAssumption == MaxRequests \in Nat
ASSUME ToolsAssumption == Tools \subseteq ToolKinds

LevelDefault(level) == CASE level = "DESTRUCTIVE" -> "DENY"
                         [] level = "EXTERNAL"    -> "ASK"
                         [] OTHER                 -> "ALLOW"

(* PermissionPolicy._resolve: rule, then declaration, then level. *)
Resolve(tool) == IF tool.rule # "none" THEN tool.rule
                 ELSE IF tool.confirm  THEN "ASK"
                 ELSE LevelDefault(tool.level)

(* _run_pipeline: what the policy resolves, but a tool that requires *)
(* confirmation is asked for even where a rule allows it.            *)
Mode(tool) == IF Resolve(tool) = "ALLOW" /\ tool.confirm THEN "ASK" ELSE Resolve(tool)

VARIABLES pc,      \* where the session's thread is
          n,       \* the number of its current request, 0 before the first
          tools,   \* the tools requested so far
          outcome, \* how each request ended, "open" until then
          slot,    \* pending_confirmation: the request it is for, its answer
          rung,    \* the requests whose event is set
          heard,   \* event.wait returned true
          timely,  \* history variable: the requests that an answer was
                   \* announced for while the session waited for it
          click,   \* the HTTP threads
          answers, \* the answers written into each request's slot, in order
          started, \* requests whose handler was started
          running, \* requests whose handler runs
          audit,   \* policy.decisions: request and what was decided
          cancel   \* the cancel event

gate == <<slot, rung, answers>>
work == <<started, running>>
vars == <<pc, n, tools, outcome, gate, heard, timely, click, work, audit, cancel>>

Requests == 1..MaxRequests
NoSlot   == [request |-> 0, answer |-> "none"]
Said     == {"approved", "denied"}
Outcomes == {"open", "invalid", "policy", "refused", "cancelled", "ok", "failed", "timed out"}

Init == /\ pc = "idle" /\ n = 0 /\ tools = <<>> /\ outcome = <<>>
        /\ slot = NoSlot /\ rung = {} /\ heard = FALSE /\ timely = {}
        /\ click = [c \in Clicks |-> [pc |-> "away", shown |-> 0, for |-> 0,
                                      says |-> "none"]]
        /\ answers = <<>> /\ started = {} /\ running = {} /\ audit = {} /\ cancel = FALSE

Goto(from, to) == pc = from /\ pc' = to

End(o) == outcome' = [outcome EXCEPT ![n] = o]

(* A new request; the loop has just read the cancel event. *)
Begin(tool, o) == /\ pc = "idle" /\ ~cancel /\ n < MaxRequests
                  /\ n' = n + 1
                  /\ tools' = Append(tools, tool)
                  /\ outcome' = Append(outcome, o)
                  /\ answers' = Append(answers, <<>>)
                  /\ UNCHANGED <<slot, rung, heard, timely, click, work, cancel>>

(* An unknown tool, or arguments that its schema refuses. *)
Invalid(tool) == Begin(tool, "invalid") /\ UNCHANGED <<pc, audit>>

(* The policy decides and audits. *)
Request(tool) ==
    LET mode == Mode(tool)
    IN  /\ Begin(tool, IF mode = "DENY" THEN "policy" ELSE "open")
        /\ pc' = CASE mode = "DENY" -> "idle"
                   [] mode = "ASK"  -> "ask"
                   [] OTHER         -> "cleared"
        /\ audit' = audit \cup {<<n + 1, Resolve(tool)>>}

(* session_confirmer: a fresh slot and a fresh event, under the lock. *)
Ask == /\ Goto("ask", "waiting")
       /\ slot' = [request |-> n, answer |-> "none"]
       /\ UNCHANGED <<n, tools, outcome, rung, answers, heard, timely, click,
                      work, audit, cancel>>

(* There is no confirmer (a session that no dashboard started), or it raises. *)
AskNobody == /\ Goto("ask", "idle") /\ End("refused")
             /\ UNCHANGED <<n, tools, gate, heard, timely, click, work, audit, cancel>>

(* event.wait returns: an answer was announced. *)
Hear == /\ Goto("waiting", "woken") /\ n \in rung
        /\ heard' = TRUE
        /\ UNCHANGED <<n, tools, outcome, gate, timely, click, work, audit, cancel>>

(* event.wait returns after CONFIRM_TIMEOUT_SECONDS. *)
GiveUpWaiting == /\ Goto("waiting", "woken") /\ n \notin rung
                 /\ heard' = FALSE
                 /\ UNCHANGED <<n, tools, outcome, gate, timely, click, work, audit, cancel>>

(* Fault: a concluded request stays in the slot. *)
ConcludeLeavesSlot ==
    /\ pc = "woken"
    /\ IF heard /\ slot.answer = "approved"
       THEN pc' = "cleared" /\ UNCHANGED outcome
       ELSE pc' = "idle" /\ End("refused")
    /\ UNCHANGED <<n, tools, gate, heard, timely, click, work, audit, cancel>>

(* Fault: an approval written after the wait gave up is honoured. *)
ConcludeHonoursLate ==
    /\ pc = "woken"
    /\ IF slot.answer = "approved"
       THEN pc' = "cleared" /\ UNCHANGED outcome
       ELSE pc' = "idle" /\ End("refused")
    /\ slot' = NoSlot
    /\ UNCHANGED <<n, tools, rung, answers, heard, timely, click, work, audit, cancel>>

(* Under the lock: read the slot's answer if one was heard, clear the slot. *)
Conclude == /\ pc = "woken"
            /\ IF heard /\ slot.answer = "approved"
               THEN pc' = "cleared" /\ UNCHANGED outcome
               ELSE pc' = "idle" /\ End("refused")
            /\ slot' = NoSlot
            /\ UNCHANGED <<n, tools, rung, answers, heard, timely, click, work, audit, cancel>>

(* Fault: the cancel event is not read after the approval. *)
ReadCancelNever == /\ Goto("cleared", "submit")
                   /\ UNCHANGED <<n, tools, outcome, gate, heard, timely, click, work, audit, cancel>>

(* A tool that requires a workspace is not run without one. *)
FindNoWorkspace == /\ Goto("cleared", "idle") /\ tools[n].unplaced
                   /\ End("failed")
                   /\ UNCHANGED <<n, tools, gate, heard, timely, click, work, audit, cancel>>

(* The cancel event is read once more before the handler. *)
ReadCancel == /\ pc = "cleared" /\ ~tools[n].unplaced
              /\ IF cancel THEN pc' = "idle" /\ End("cancelled")
                 ELSE pc' = "submit" /\ UNCHANGED outcome
              /\ UNCHANGED <<n, tools, gate, heard, timely, click, work, audit, cancel>>

(* _execute_handler: the handler starts on a pool thread. *)
Submit == /\ Goto("submit", "handler")
          /\ started' = started \cup {n} /\ running' = running \cup {n}
          /\ UNCHANGED <<n, tools, outcome, gate, heard, timely, click, audit, cancel>>

(* It returns or raises in time; a TimeoutError of its own is taken for the *)
(* pool's (concurrent.futures.TimeoutError is the built-in one).            *)
HandlerEnds == /\ Goto("handler", "idle")
               /\ \E o \in {"ok", "failed", "timed out"} : End(o)
               /\ running' = running \ {n}
               /\ UNCHANGED <<n, tools, gate, heard, timely, click, started, audit, cancel>>

(* Fault: the caller waits for the lingering handler. *)
HandlerTimesOutJoined == /\ Goto("handler", "idle") /\ n \notin running
                         /\ End("timed out")
                         /\ UNCHANGED <<n, tools, gate, heard, timely, click, work, audit, cancel>>

(* timeout_seconds pass: the caller goes on, the handler lingers. *)
HandlerTimesOut == /\ Goto("handler", "idle")
                   /\ End("timed out")
                   /\ UNCHANGED <<n, tools, gate, heard, timely, click, work, audit, cancel>>

LingererEnds == \E r \in running :
    /\ pc = "handler" => r # n
    /\ running' = running \ {r}
    /\ UNCHANGED <<pc, n, tools, outcome, gate, heard, timely, click, started, audit, cancel>>

(* The page shows the pending request, from a summary. *)
Show(c) == /\ click[c].pc = "away" /\ slot.request # 0
           /\ click' = [click EXCEPT ![c].pc = "shown", ![c].shown = slot.request]
           /\ UNCHANGED <<pc, n, tools, outcome, gate, heard, timely, work, audit, cancel>>

(* Fault: an answer is taken while nothing is pending. *)
ClickOrphan(c, says) ==
    /\ click[c].pc = "shown"
    /\ click' = [click EXCEPT ![c].pc = "written", ![c].for = n, ![c].says = says]
    /\ slot' = [slot EXCEPT !.answer = says]
    /\ answers' = [answers EXCEPT ![n] = Append(@, says)]
    /\ UNCHANGED <<pc, n, tools, outcome, rung, heard, timely, work, audit, cancel>>

(* confirm_session, under the lock: nothing pending is a 409, otherwise the *)
(* answer goes into whatever slot is there now.                             *)
Click(c, says) ==
    /\ click[c].pc = "shown"
    /\ IF slot.request = 0
       THEN /\ click' = [click EXCEPT ![c].pc = "conflict", ![c].says = says]
            /\ UNCHANGED <<slot, answers>>
       ELSE /\ click' = [click EXCEPT ![c] = [pc |-> "written", shown |-> @.shown,
                                              for |-> slot.request, says |-> says]]
            /\ slot' = [slot EXCEPT !.answer = says]
            /\ answers' = [answers EXCEPT ![slot.request] = Append(@, says)]
    /\ UNCHANGED <<pc, n, tools, outcome, rung, heard, timely, work, audit, cancel>>

(* Outside the lock: set the event of that slot, answer "confirmed". *)
Ring(c) == /\ click[c].pc = "written"
           /\ click' = [click EXCEPT ![c].pc = "confirmed"]
           /\ rung' = rung \cup {click[c].for}
           /\ timely' = IF pc = "waiting" /\ click[c].for = n THEN timely \cup {n} ELSE timely
           /\ UNCHANGED <<pc, n, tools, outcome, slot, answers, heard, work, audit, cancel>>

(* stop_session. *)
Stop == /\ ~cancel /\ cancel' = TRUE
        /\ UNCHANGED <<pc, n, tools, outcome, gate, heard, timely, click, work, audit>>

Proceed == Ask \/ AskNobody \/ Hear \/ GiveUpWaiting \/ Conclude \/ FindNoWorkspace
           \/ ReadCancel \/ Submit \/ HandlerTimesOut

Next == \/ Proceed \/ HandlerEnds \/ LingererEnds \/ Stop
        \/ \E tool \in Tools : Request(tool) \/ Invalid(tool)
        \/ \E c \in Clicks : Show(c) \/ Ring(c) \/ \E says \in Said : Click(c, says)

Spec == Init /\ [][Next]_vars

(* The session's thread runs and its two timers fire.  Nothing is assumed of *)
(* the human, nor of a handler: it may hang for ever.                        *)
FairSpec == Spec /\ WF_vars(Proceed)

-----------------------------------------------------------------------------
LastWord(s) == IF s = <<>> THEN "none" ELSE s[Len(s)]

(* Every variable has its type; a slot belongs to the current request, and an *)
(* empty slot holds no answer.                                                *)
TypeOK == /\ pc \in {"idle", "ask", "waiting", "woken", "cleared", "submit", "handler"}
          /\ n \in 0..MaxRequests
          /\ tools \in Seq(Tools) /\ Len(tools) = n
          /\ outcome \in Seq(Outcomes) /\ Len(outcome) = n
          /\ answers \in Seq(Seq(Said)) /\ Len(answers) = n
          /\ slot \in {NoSlot} \cup [request : {n}, answer : Said \cup {"none"}]
          /\ rung \subseteq 1..n /\ timely \subseteq rung
          /\ started \subseteq 1..n /\ running \subseteq started
          /\ click \in [Clicks -> [pc : {"away", "shown", "conflict", "written", "confirmed"},
                                   shown : 0..n, for : 0..n, says : Said \cup {"none"}]]
          /\ audit \subseteq (1..n) \X Modes
          /\ heard \in BOOLEAN /\ cancel \in BOOLEAN

(* A tool that is asked for, and one that declares requires_confirmation      *)
(* whatever a rule says, runs only if an answer to this very request was      *)
(* announced before the wait for it gave up, and the last answer written for  *)
(* it approved; one that is denied never runs.  Silence, an approval written  *)
(* or announced after CONFIRM_TIMEOUT_SECONDS, even before the session has    *)
(* cleared the slot, or an answer to another request never starts a handler   *)
(* (_run_pipeline, session_confirmer).                                        *)
RunsOnlyIfApproved ==
    \A r \in started :
        /\ Resolve(tools[r]) # "DENY"
        /\ Resolve(tools[r]) = "ASK" \/ tools[r].confirm
             => r \in timely /\ LastWord(answers[r]) = "approved"

(* An answer only ever goes to the request that still waits for one: a click  *)
(* on a request that has been concluded is refused with a 409, not kept for   *)
(* the next (session_confirmer clears the slot, confirm_session reads it).    *)
AnswersReachOpenRequests ==
    [][\A r \in 1..n : answers'[r] # answers[r]
                          => r = n /\ pc \in {"waiting", "woken"}]_vars

(* After a stop no tool call begins, and none gets past the second read of    *)
(* the cancel event, so that an approval given after the stop starts nothing  *)
(* (stop_session, _run_pipeline).                                             *)
StopEndsWork ==
    [][cancel => /\ n' = n
                 /\ pc' \in {"submit", "handler"} => pc \in {"submit", "handler"}]_vars

(* Every tool call returns to the loop, though nobody answers and though its  *)
(* handler hangs for ever ("the caller returns on time", _execute_handler).   *)
EveryCallReturns == pc # "idle" ~> pc = "idle"

(* "EXTERNAL approvals resolve through the dashboard (confirm endpoint);      *)
(* timeout or no answer denies safely" (server.py): a handler that was asked  *)
(* for runs only if somebody who saw that request approved it.                *)
ApprovedBySight ==
    \A r \in started : Mode(tools[r]) = "ASK"
        => \E c \in Clicks : click[c].shown = r /\ click[c].says = "approved"
=============================================================================
