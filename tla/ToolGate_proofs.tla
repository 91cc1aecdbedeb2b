--------------------------- MODULE ToolGate_proofs ---------------------------
(***************************************************************************)
(* Proofs about the path of a tool call, for any tools, any number of      *)
(* requests and any number of HTTP threads that answer them.               *)
(***************************************************************************)
EXTENDS ToolGate, TLAPS

Asking == {"ask", "waiting", "woken"}
Past   == {"cleared", "submit", "handler"}

(* A slot is open exactly while the session's thread waits for its answer, and *)
(* holds the last answer that was written for the current request.            *)
SlotIsOpen ==
    IF pc \in {"waiting", "woken"}
    THEN slot.request = n /\ slot.answer = LastWord(answers[n])
    ELSE slot = NoSlot

(* The thread only waits for a request that the policy wants asked, and only  *)
(* gets past the wait with what the policy and the human allow.  An answer    *)
(* that ends the wait was announced during it, since nothing can be announced *)
(* for a request whose slot is not open yet.                                  *)
Allowed(r) == /\ Mode(tools[r]) # "DENY"
              /\ Mode(tools[r]) = "ASK"
                   => r \in timely /\ LastWord(answers[r]) = "approved"

AsksAsPolicySays ==
    /\ pc # "idle" => n > 0
    /\ pc \in Asking => Mode(tools[n]) = "ASK"
    /\ pc = "ask" => answers[n] = <<>> /\ n \notin rung
    /\ pc = "waiting" /\ n \in rung => n \in timely
    /\ pc = "woken" /\ heard => n \in timely
    /\ pc \in Past => Allowed(n)

(* Whatever was started had been allowed, and the current request is started *)
(* by Submit only.                                                            *)
StartedWasAllowed ==
    /\ \A r \in started : Allowed(r)
    /\ pc \in Asking \cup {"cleared", "submit"} => n \notin started

(* An HTTP thread that has written an answer knows the request it is for, and *)
(* that request has an answer.                                                *)
WrittenForRequest ==
    \A c \in Clicks : click[c].pc = "written"
        => click[c].for # 0 /\ answers[click[c].for] # <<>>

IInv == TypeOK /\ SlotIsOpen /\ AsksAsPolicySays /\ StartedWasAllowed /\ WrittenForRequest

(* A mode is one of the three, whatever the tool and its rule. *)
LEMMA ModesOfTools ==
    ASSUME NEW tool \in Tools
    PROVE  /\ tool \in ToolKinds
           /\ Resolve(tool) \in Modes /\ Mode(tool) \in Modes
           /\ Mode(tool) = "DENY" <=> Resolve(tool) = "DENY"
           /\ (Resolve(tool) = "ASK" \/ tool.confirm) /\ Mode(tool) # "DENY"
                => Mode(tool) = "ASK"
<1>1. tool \in ToolKinds
  BY ToolsAssumption
<1>2. LevelDefault(tool.level) \in Modes
  BY <1>1 DEF ToolKinds, Levels, Modes, LevelDefault
<1>3. Resolve(tool) \in Modes
  BY <1>1, <1>2 DEF Resolve, ToolKinds, Modes
<1> QED
  BY <1>1, <1>3 DEF Mode, ToolKinds, Modes

(* The initial state. *)
LEMMA InitIInv == Init => IInv
<1> SUFFICES ASSUME Init PROVE IInv
  OBVIOUS
<1>1. n = 0 /\ n \in 0..MaxRequests
  BY MaxRequestsAssumption DEF Init
<1>2. Len(<<>>) = 0 /\ <<>> \in Seq(Tools) /\ <<>> \in Seq(Outcomes) /\ <<>> \in Seq(Seq(Said))
  OBVIOUS
<1>3. click \in [Clicks -> [pc : {"away", "shown", "conflict", "written", "confirmed"},
                            shown : 0..n, for : 0..n, says : Said \cup {"none"}]]
  BY <1>1 DEF Init
<1>4. TypeOK
  BY <1>1, <1>2, <1>3 DEF Init, TypeOK, NoSlot
<1> QED
  BY <1>4 DEF Init, IInv, SlotIsOpen, AsksAsPolicySays, StartedWasAllowed, WrittenForRequest,
     Asking, Past

(* The bounds of a state that the steps need at hand. *)
LEMMA Shape ==
    ASSUME TypeOK
    PROVE  /\ n \in Nat /\ MaxRequests \in Nat /\ n <= MaxRequests
           /\ Len(tools) = n /\ Len(outcome) = n /\ Len(answers) = n
           /\ \A r \in 1..n : /\ tools[r] \in Tools /\ outcome[r] \in Outcomes
                              /\ answers[r] \in Seq(Said)
           /\ started \subseteq 1..n /\ running \subseteq started
BY MaxRequestsAssumption DEF TypeOK

(* Ending the current request leaves the outcomes well typed. *)
LEMMA EndKeepsOutcome ==
    ASSUME TypeOK, n > 0, NEW o \in Outcomes, End(o)
    PROVE  outcome' \in Seq(Outcomes) /\ Len(outcome') = n
<1>1. outcome \in Seq(Outcomes) /\ Len(outcome) = n
  BY DEF TypeOK
<1> QED
  BY <1>1 DEF End

(* A new request: nothing is known of it yet, and no slot is open. *)
LEMMA BeginKeepsIInv ==
    ASSUME IInv, NEW tool \in Tools, NEW o \in Outcomes, Begin(tool, o),
           pc' \in {"idle", "ask", "cleared"}, audit' \subseteq (1..(n + 1)) \X Modes,
           pc' = "ask" => Mode(tool) = "ASK",
           pc' = "cleared" => Mode(tool) = "ALLOW"
    PROVE  IInv'
<1>1. /\ n \in Nat /\ MaxRequests \in Nat /\ n < MaxRequests
      /\ n' = n + 1 /\ n' \in 0..MaxRequests /\ n' \in 1..n' /\ n \notin 1..0
  BY Shape DEF IInv, Begin
<1>2. /\ tools' = Append(tools, tool) /\ tools' \in Seq(Tools) /\ Len(tools') = n'
      /\ tools'[n'] = tool
      /\ \A r \in 1..n : tools'[r] = tools[r]
  BY <1>1, Shape DEF IInv, TypeOK, Begin
<1>3. outcome' \in Seq(Outcomes) /\ Len(outcome') = n'
  BY <1>1 DEF IInv, TypeOK, Begin
<1>4. /\ answers' \in Seq(Seq(Said)) /\ Len(answers') = n'
      /\ answers'[n'] = <<>>
      /\ \A r \in 1..n : answers'[r] = answers[r]
  BY <1>1, Shape DEF IInv, TypeOK, Begin
<1>5. slot = NoSlot /\ slot' = NoSlot
  BY DEF IInv, SlotIsOpen, Begin
<1>6. click' = click /\ 0..n \subseteq 0..n' /\ 1..n \subseteq 1..n'
  BY <1>1 DEF Begin
<1>7. click' \in [Clicks -> [pc : {"away", "shown", "conflict", "written", "confirmed"},
                             shown : 0..n', for : 0..n', says : Said \cup {"none"}]]
  <2>1. click \in [Clicks -> [pc : {"away", "shown", "conflict", "written", "confirmed"},
                              shown : 0..n, for : 0..n, says : Said \cup {"none"}]]
    BY DEF IInv, TypeOK
  <2> QED
    BY <1>6, <2>1
<1>8. rung' \subseteq 1..n' /\ started' = started /\ running' = running
      /\ started' \subseteq 1..n' /\ running' \subseteq started'
  BY <1>1, <1>6 DEF IInv, TypeOK, Begin, work
<1>15. timely' = timely /\ rung' = rung /\ timely' \subseteq rung' /\ n' \notin rung'
  BY <1>1 DEF IInv, TypeOK, Begin
<1>9. heard' \in BOOLEAN /\ cancel' \in BOOLEAN
  BY DEF IInv, TypeOK, Begin
<1>10. TypeOK'
  BY <1>1, <1>2, <1>3, <1>4, <1>5, <1>7, <1>8, <1>9, <1>15 DEF TypeOK
<1>11. SlotIsOpen'
  BY <1>5 DEF SlotIsOpen
<1>12. AsksAsPolicySays'
  BY <1>1, <1>2, <1>4, <1>15 DEF AsksAsPolicySays, Asking, Past, Allowed
<1>13. StartedWasAllowed'
  <2>1. \A r \in started : r \in 1..n /\ Allowed(r)
    BY DEF IInv, TypeOK, StartedWasAllowed
  <2>2. \A r \in 1..n : Allowed(r)' <=> Allowed(r)
    BY <1>2, <1>4, <1>15 DEF Allowed
  <2>3. n' \notin started'
    BY <1>1, <1>8, <2>1
  <2> QED
    BY <1>8, <2>1, <2>2, <2>3 DEF StartedWasAllowed
<1>14. WrittenForRequest'
  <2>1. \A c \in Clicks : click[c].for \in 0..n
    BY DEF IInv, TypeOK
  <2>2. ASSUME NEW c \in Clicks, click[c].pc = "written"
        PROVE  click[c].for # 0 /\ answers'[click[c].for] # <<>>
    <3>1. click[c].for # 0 /\ answers[click[c].for] # <<>>
      BY <2>2 DEF IInv, WrittenForRequest
    <3>2. click[c].for \in 1..n
      BY <1>1, <2>1, <3>1
    <3> QED
      BY <1>4, <3>1, <3>2
  <2> QED
    BY <1>6, <2>2 DEF WrittenForRequest
<1> QED
  BY <1>10, <1>11, <1>12, <1>13, <1>14 DEF IInv

ClickType == [Clicks -> [pc : {"away", "shown", "conflict", "written", "confirmed"},
                         shown : 0..n, for : 0..n, says : Said \cup {"none"}]]

(* A click on an open slot writes one more answer to the current request. *)
LEMMA ClickMeans ==
    ASSUME IInv, NEW c \in Clicks, NEW says \in Said, Click(c, says), slot.request # 0
    PROVE  /\ pc \in {"waiting", "woken"} /\ slot.request = n /\ n \in 1..n
           /\ slot' = [request |-> n, answer |-> says]
           /\ answers' \in Seq(Seq(Said)) /\ Len(answers') = n
           /\ LastWord(answers'[n]) = says /\ answers'[n] # <<>>
           /\ \A r \in 1..n : r # n => answers'[r] = answers[r]
<1>1. pc \in {"waiting", "woken"} /\ slot.request = n
  BY DEF IInv, SlotIsOpen, NoSlot
<1>2. n \in 1..n
  BY <1>1, Shape DEF IInv, AsksAsPolicySays
<1>3. slot \in [request : {n}, answer : Said \cup {"none"}]
  BY <1>1, <1>2 DEF IInv, TypeOK, NoSlot
<1>4. slot' = [request |-> n, answer |-> says]
  BY <1>1, <1>3 DEF Click
<1>5. answers' = [answers EXCEPT ![n] = Append(@, says)]
  BY <1>1 DEF Click
<1>6. answers \in Seq(Seq(Said)) /\ Len(answers) = n /\ answers[n] \in Seq(Said)
  BY <1>2, Shape DEF IInv, TypeOK
<1>7. /\ Append(answers[n], says) \in Seq(Said) /\ Append(answers[n], says) # <<>>
      /\ LastWord(Append(answers[n], says)) = says
  BY <1>6 DEF LastWord
<1>8. /\ answers' \in Seq(Seq(Said)) /\ Len(answers') = n
      /\ answers'[n] = Append(answers[n], says) /\ answers'[n] # <<>>
      /\ \A r \in 1..n : r # n => answers'[r] = answers[r]
  BY <1>2, <1>5, <1>6, <1>7
<1> QED
  BY <1>1, <1>2, <1>4, <1>7, <1>8

(* What the current request was asked, and what was started, stays as it is *)
(* when the requests, the answers and the started handlers do.              *)
LEMMA AllowedKept ==
    ASSUME IInv, UNCHANGED <<tools, answers, started>>, timely \subseteq timely'
    PROVE  \A r \in started' : Allowed(r)'
BY DEF IInv, StartedWasAllowed, Allowed

(* Every step keeps the invariant. *)
LEMMA StepIInv == IInv /\ [Next]_vars => IInv'
<1> SUFFICES ASSUME IInv, [Next]_vars PROVE IInv'
  OBVIOUS
<1>0. CASE UNCHANGED vars
  BY <1>0 DEF vars, gate, work, IInv, TypeOK, SlotIsOpen, AsksAsPolicySays, StartedWasAllowed,
     WrittenForRequest, Allowed
<1>1. ASSUME NEW tool \in Tools, Request(tool) PROVE IInv'
  <2>1. Resolve(tool) \in Modes /\ Mode(tool) \in Modes
    BY ModesOfTools
  <2>2. audit' \subseteq (1..(n + 1)) \X Modes
    BY <1>1, <2>1, Shape DEF IInv, TypeOK, Request
  <2>3. PICK o \in Outcomes : Begin(tool, o)
    BY <1>1 DEF Request, Outcomes
  <2>4. /\ pc' \in {"idle", "ask", "cleared"}
        /\ pc' = "ask" => Mode(tool) = "ASK"
        /\ pc' = "cleared" => Mode(tool) = "ALLOW"
    BY <1>1, <2>1 DEF Request, Modes
  <2> QED
    BY <2>2, <2>3, <2>4, BeginKeepsIInv
<1>2. ASSUME NEW tool \in Tools, Invalid(tool) PROVE IInv'
  <2>1. audit' \subseteq (1..(n + 1)) \X Modes
    BY <1>2, Shape DEF IInv, TypeOK, Invalid
  <2>2. Begin(tool, "invalid") /\ pc' = "idle" /\ "invalid" \in Outcomes
    BY <1>2 DEF Invalid, Begin, Outcomes
  <2> QED
    BY <2>1, <2>2, BeginKeepsIInv
<1>3. CASE Ask
  <2>1. TypeOK'
    BY <1>3 DEF Ask, Goto, work, IInv, TypeOK
  <2>2. SlotIsOpen' /\ AsksAsPolicySays'
    BY <1>3 DEF Ask, Goto, IInv, SlotIsOpen, AsksAsPolicySays, LastWord, Asking, Past
  <2>3. StartedWasAllowed'
    BY <1>3, AllowedKept DEF Ask, Goto, work, IInv, StartedWasAllowed, Asking
  <2>w. WrittenForRequest'
    BY <1>3 DEF gate, Ask, IInv, WrittenForRequest
  <2> QED
    BY <2>1, <2>2, <2>3, <2>w DEF IInv
<1>4. CASE Hear \/ GiveUpWaiting
  <2>1. TypeOK'
    BY <1>4 DEF Hear, GiveUpWaiting, Goto, gate, work, IInv, TypeOK
  <2>2. SlotIsOpen' /\ AsksAsPolicySays'
    BY <1>4 DEF Hear, GiveUpWaiting, Goto, gate, IInv, SlotIsOpen, AsksAsPolicySays, Asking, Past
  <2>3. StartedWasAllowed'
    BY <1>4, AllowedKept DEF Hear, GiveUpWaiting, Goto, gate, work, IInv, StartedWasAllowed, Asking
  <2>w. WrittenForRequest'
    BY <1>4 DEF gate, Hear, GiveUpWaiting, IInv, WrittenForRequest
  <2> QED
    BY <2>1, <2>2, <2>3, <2>w DEF IInv
<1>5. CASE Conclude
  <2>1. outcome' \in Seq(Outcomes) /\ Len(outcome') = n
    BY <1>5, EndKeepsOutcome, Shape DEF Conclude, IInv, TypeOK, AsksAsPolicySays, Outcomes
  <2>2. TypeOK'
    BY <1>5, <2>1 DEF Conclude, work, IInv, TypeOK
  <2>3. SlotIsOpen'
    BY <1>5 DEF Conclude, SlotIsOpen
  <2>4. pc' = "cleared" => Allowed(n)
    BY <1>5 DEF Conclude, IInv, SlotIsOpen, AsksAsPolicySays, Allowed, Asking
  <2>5. AsksAsPolicySays'
    BY <1>5, <2>4 DEF Conclude, IInv, AsksAsPolicySays, Allowed, Asking, Past
  <2>6. StartedWasAllowed'
    BY <1>5, AllowedKept DEF Conclude, work, IInv, StartedWasAllowed, Asking
  <2>w. WrittenForRequest'
    BY <1>5 DEF gate, Conclude, IInv, WrittenForRequest
  <2> QED
    BY <2>2, <2>3, <2>5, <2>6, <2>w DEF IInv
<1>6. CASE ReadCancel \/ FindNoWorkspace \/ AskNobody
  <2>1. outcome' \in Seq(Outcomes) /\ Len(outcome') = n
    BY <1>6, EndKeepsOutcome, Shape DEF ReadCancel, FindNoWorkspace, AskNobody, Goto, IInv, TypeOK,
       AsksAsPolicySays, Outcomes
  <2>2. TypeOK'
    BY <1>6, <2>1 DEF ReadCancel, FindNoWorkspace, AskNobody, Goto, gate, work, IInv, TypeOK
  <2>3. SlotIsOpen' /\ AsksAsPolicySays'
    BY <1>6 DEF ReadCancel, FindNoWorkspace, AskNobody, Goto, gate, IInv, SlotIsOpen,
       AsksAsPolicySays, Allowed, Asking, Past
  <2>4. StartedWasAllowed'
    BY <1>6, AllowedKept DEF ReadCancel, FindNoWorkspace, AskNobody, Goto, gate, work, IInv,
       StartedWasAllowed, Asking
  <2>w. WrittenForRequest'
    BY <1>6 DEF gate, ReadCancel, FindNoWorkspace, AskNobody, IInv, WrittenForRequest
  <2> QED
    BY <2>2, <2>3, <2>4, <2>w DEF IInv
<1>7. CASE Submit
  <2>1. n \in 1..n
    BY <1>7, Shape DEF Submit, Goto, IInv, AsksAsPolicySays
  <2>2. TypeOK'
    BY <1>7, <2>1 DEF Submit, Goto, gate, IInv, TypeOK
  <2>3. SlotIsOpen' /\ AsksAsPolicySays'
    BY <1>7 DEF Submit, Goto, gate, IInv, SlotIsOpen, AsksAsPolicySays, Allowed, Asking, Past
  <2>4. StartedWasAllowed'
    BY <1>7 DEF Submit, Goto, gate, IInv, StartedWasAllowed, AsksAsPolicySays, Allowed, Asking, Past
  <2>w. WrittenForRequest'
    BY <1>7 DEF gate, Submit, IInv, WrittenForRequest
  <2> QED
    BY <2>2, <2>3, <2>4, <2>w DEF IInv
<1>8. CASE HandlerEnds \/ HandlerTimesOut
  <2>1. outcome' \in Seq(Outcomes) /\ Len(outcome') = n
    BY <1>8, EndKeepsOutcome DEF HandlerEnds, HandlerTimesOut, Goto, IInv, AsksAsPolicySays, Outcomes
  <2>2. TypeOK'
    BY <1>8, <2>1 DEF HandlerEnds, HandlerTimesOut, Goto, gate, work, IInv, TypeOK
  <2>3. SlotIsOpen' /\ AsksAsPolicySays'
    BY <1>8 DEF HandlerEnds, HandlerTimesOut, Goto, gate, IInv, SlotIsOpen, AsksAsPolicySays,
       Asking, Past
  <2>4. StartedWasAllowed'
    BY <1>8, AllowedKept DEF HandlerEnds, HandlerTimesOut, Goto, gate, work, IInv, StartedWasAllowed,
       Asking
  <2>w. WrittenForRequest'
    BY <1>8 DEF gate, HandlerEnds, HandlerTimesOut, IInv, WrittenForRequest
  <2> QED
    BY <2>2, <2>3, <2>4, <2>w DEF IInv
<1>9. CASE LingererEnds
  <2>1. TypeOK'
    BY <1>9 DEF LingererEnds, gate, IInv, TypeOK
  <2>2. SlotIsOpen' /\ AsksAsPolicySays' /\ StartedWasAllowed'
    BY <1>9, AllowedKept DEF LingererEnds, gate, IInv, SlotIsOpen, AsksAsPolicySays, Allowed,
       StartedWasAllowed
  <2>w. WrittenForRequest'
    BY <1>9 DEF gate, LingererEnds, IInv, WrittenForRequest
  <2> QED
    BY <2>1, <2>2, <2>w DEF IInv
<1>10. CASE Stop
  <2>1. TypeOK'
    BY <1>10 DEF Stop, gate, work, IInv, TypeOK
  <2>2. SlotIsOpen' /\ AsksAsPolicySays' /\ StartedWasAllowed'
    BY <1>10, AllowedKept DEF Stop, gate, work, IInv, SlotIsOpen, AsksAsPolicySays, Allowed,
       StartedWasAllowed
  <2>w. WrittenForRequest'
    BY <1>10 DEF gate, Stop, IInv, WrittenForRequest
  <2> QED
    BY <2>1, <2>2, <2>w DEF IInv
<1>11. ASSUME NEW c \in Clicks, Show(c) PROVE IInv'
  <2>1. click \in ClickType /\ slot.request \in 0..n
    BY Shape DEF IInv, TypeOK, ClickType, NoSlot
  <2>2. click' \in ClickType
    BY <1>11, <2>1 DEF Show, ClickType
  <2>3. TypeOK'
    BY <1>11, <2>2 DEF Show, gate, work, IInv, TypeOK, ClickType
  <2>4. SlotIsOpen' /\ AsksAsPolicySays' /\ StartedWasAllowed'
    BY <1>11, AllowedKept DEF Show, gate, work, IInv, SlotIsOpen, AsksAsPolicySays, Allowed,
       StartedWasAllowed
  <2>w. WrittenForRequest'
    BY <1>11, <2>1 DEF gate, Show, IInv, WrittenForRequest, ClickType
  <2> QED
    BY <2>3, <2>4, <2>w DEF IInv
<1>12. ASSUME NEW c \in Clicks, Ring(c) PROVE IInv'
  <2>1. click \in ClickType
    BY DEF IInv, TypeOK, ClickType
  <2>2. click' \in ClickType
    BY <1>12, <2>1 DEF Ring, ClickType
  <2>3. click[c].for \in 1..n /\ answers[click[c].for] # <<>>
    BY <1>12, <2>1, Shape DEF Ring, IInv, WrittenForRequest, ClickType
  <2>4. /\ timely \subseteq timely' /\ timely' \subseteq timely \cup {click[c].for}
        /\ rung' = rung \cup {click[c].for}
        /\ pc = "waiting" /\ click[c].for = n => n \in timely'
    BY <1>12 DEF Ring
  <2>5. rung' \subseteq 1..n /\ timely' \subseteq rung'
    BY <2>3, <2>4 DEF IInv, TypeOK
  <2>6. TypeOK'
    BY <1>12, <2>2, <2>5 DEF Ring, work, IInv, TypeOK, ClickType
  <2>7. SlotIsOpen' /\ StartedWasAllowed'
    BY <1>12, <2>4, AllowedKept DEF Ring, work, IInv, SlotIsOpen, StartedWasAllowed
  <2>8. AsksAsPolicySays'
    BY <1>12, <2>3, <2>4 DEF Ring, IInv, AsksAsPolicySays, Allowed
  <2>w. WrittenForRequest'
    BY <1>12, <2>1 DEF Ring, IInv, WrittenForRequest, ClickType
  <2> QED
    BY <2>6, <2>7, <2>8, <2>w DEF IInv
<1>13. ASSUME NEW c \in Clicks, NEW says \in Said, Click(c, says) PROVE IInv'
  <2>1. click \in ClickType /\ slot.request \in 0..n /\ n \in Nat
    BY Shape DEF IInv, TypeOK, ClickType, NoSlot
  <2>2. click' \in ClickType
    <3>1. click[c] \in [pc : {"away", "shown", "conflict", "written", "confirmed"},
                        shown : 0..n, for : 0..n, says : Said \cup {"none"}]
      BY <2>1 DEF ClickType
    <3>2. CASE slot.request = 0
      BY <1>13, <2>1, <3>1, <3>2 DEF Click, ClickType
    <3>3. CASE slot.request # 0
      BY <1>13, <2>1, <3>1, <3>3 DEF Click, ClickType
    <3> QED
      BY <3>2, <3>3
  <2>w. WrittenForRequest'
    <3>1. \A d \in Clicks : d # c => click'[d] = click[d]
      BY <1>13, <2>1 DEF Click, ClickType
    <3>2. CASE slot.request = 0
      <4>1. click'[c].pc # "written" /\ answers' = answers
        BY <1>13, <2>1, <3>2 DEF Click, ClickType
      <4> QED
        BY <3>1, <4>1 DEF IInv, WrittenForRequest
    <3>3. CASE slot.request # 0
      <4>1. /\ slot.request = n /\ answers'[n] # <<>> /\ n \in 1..n
            /\ \A r \in 1..n : r # n => answers'[r] = answers[r]
        BY <1>13, <3>3, ClickMeans
      <4>2. click'[c].for = n
        BY <1>13, <2>1, <3>3, <4>1 DEF Click, ClickType
      <4>3. \A d \in Clicks : click[d].for \in 0..n
        BY <2>1 DEF ClickType
      <4> QED
        BY <3>1, <4>1, <4>2, <4>3 DEF IInv, WrittenForRequest
    <3> QED
      BY <3>2, <3>3
  <2>3. CASE slot.request = 0
    <3>1. TypeOK'
      BY <1>13, <2>2, <2>3 DEF Click, work, IInv, TypeOK, ClickType
    <3>2. SlotIsOpen' /\ AsksAsPolicySays' /\ StartedWasAllowed'
      BY <1>13, <2>3, AllowedKept DEF Click, work, IInv, SlotIsOpen, AsksAsPolicySays, Allowed,
         StartedWasAllowed
    <3> QED
      BY <2>w, <3>1, <3>2 DEF IInv
  <2>4. CASE slot.request # 0
    <3>1. /\ pc \in {"waiting", "woken"} /\ n \in 1..n
          /\ slot' = [request |-> n, answer |-> says]
          /\ answers' \in Seq(Seq(Said)) /\ Len(answers') = n
          /\ LastWord(answers'[n]) = says
          /\ \A r \in 1..n : r # n => answers'[r] = answers[r]
      BY <1>13, <2>4, ClickMeans
    <3>2. TypeOK'
      BY <1>13, <2>2, <3>1 DEF Click, work, IInv, TypeOK, ClickType
    <3>3. SlotIsOpen' /\ AsksAsPolicySays'
      BY <1>13, <3>1 DEF Click, IInv, SlotIsOpen, AsksAsPolicySays, Asking, Past
    <3>4. \A r \in started : r \in 1..n /\ r # n
      BY <3>1 DEF IInv, TypeOK, StartedWasAllowed, Asking
    <3>5. StartedWasAllowed'
      BY <1>13, <3>1, <3>4 DEF Click, work, IInv, StartedWasAllowed, Allowed, Asking
    <3> QED
      BY <2>w, <3>2, <3>3, <3>5 DEF IInv
  <2> QED
    BY <2>3, <2>4
<1> QED
  BY <1>0, <1>1, <1>2, <1>3, <1>4, <1>5, <1>6, <1>7, <1>8, <1>9, <1>10, <1>11, <1>12, <1>13
     DEF Next, Proceed

(* The invariant holds throughout. *)
LEMMA Invariance == Spec => []IInv
BY InitIInv, StepIInv, PTL DEF Spec

(* The types, for every set of tools and of HTTP threads (ToolGate, TypeOK). *)
THEOREM TypeCorrect == Spec => []TypeOK
<1>1. IInv => TypeOK
  BY DEF IInv
<1> QED
  BY <1>1, Invariance, PTL

(* No handler starts that policy and human did not allow: what is denied never *)
(* starts, and what is asked for only starts when an answer to that very       *)
(* request was announced before the wait for it gave up and the last one       *)
(* written approved (RunsOnlyIfApproved).                                      *)
THEOREM RunsApproved == Spec => []RunsOnlyIfApproved
<1>1. IInv => RunsOnlyIfApproved
  <2> SUFFICES ASSUME IInv, NEW r \in started
               PROVE  /\ Resolve(tools[r]) # "DENY"
                      /\ Resolve(tools[r]) = "ASK" \/ tools[r].confirm
                           => r \in timely /\ LastWord(answers[r]) = "approved"
    BY DEF RunsOnlyIfApproved
  <2>1. tools[r] \in Tools /\ Allowed(r)
    BY Shape DEF IInv, StartedWasAllowed
  <2> QED
    BY <2>1, ModesOfTools DEF Allowed
<1> QED
  BY <1>1, Invariance, PTL

(* An answer only ever reaches the request that still waits for one: no click *)
(* is kept for a later request (AnswersReachOpenRequests).                    *)
THEOREM AnswersReachOpen == Spec => AnswersReachOpenRequests
<1> DEFINE A == \A r \in 1..n : answers'[r] # answers[r] => r = n /\ pc \in {"waiting", "woken"}
<1>1. IInv /\ [Next]_vars => [A]_vars
  <2> SUFFICES ASSUME IInv, Next PROVE A
    OBVIOUS
  <2>1. ASSUME NEW tool \in Tools, NEW o, Begin(tool, o) PROVE A
    BY <2>1, Shape DEF IInv, TypeOK, Begin
  <2>2. ASSUME NEW c \in Clicks, NEW says \in Said, Click(c, says) PROVE A
    <3>1. CASE slot.request = 0
      BY <2>2, <3>1 DEF Click
    <3>2. CASE slot.request # 0
      BY <2>2, <3>2, ClickMeans
    <3> QED
      BY <3>1, <3>2
  <2>3. CASE UNCHANGED answers
    BY <2>3
  <2> QED
    BY <2>1, <2>2, <2>3
       DEF Next, Proceed, Request, Invalid, Ask, Hear, GiveUpWaiting, Conclude, ReadCancel, FindNoWorkspace, AskNobody, Submit,
           HandlerEnds, HandlerTimesOut, LingererEnds, Stop, Show, Ring, gate
<1> QED
  BY <1>1, Invariance, PTL DEF Spec, AnswersReachOpenRequests

(* After a stop no call begins and none reaches its handler (StopEndsWork). *)
THEOREM StopsWork == Spec => StopEndsWork
<1> DEFINE A == cancel => /\ n' = n
                          /\ pc' \in {"submit", "handler"} => pc \in {"submit", "handler"}
<1>1. [Next]_vars => [A]_vars
  BY DEF Next, Proceed, Request, Invalid, Begin, Ask, Hear, GiveUpWaiting, Conclude, ReadCancel, FindNoWorkspace, AskNobody,
         Submit, HandlerEnds, HandlerTimesOut, LingererEnds, Stop, Show, Ring, Click, Goto, vars
<1> QED
  BY <1>1, PTL DEF Spec, StopEndsWork
=============================================================================
