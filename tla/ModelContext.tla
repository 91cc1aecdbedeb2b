---------------------------- MODULE ModelContext -----------------------------
(***************************************************************************)
(* What the model is shown.  AgentLoop.run grows session.messages; each    *)
(* turn a request is made of them: as they are, by ContextBuilder.build    *)
(* (agent/context.py) under a budget; and GeminiModelProvider              *)
(* (agent/providers.py) turns a request into contents.                     *)
(*                                                                         *)
(* A message is its role, its length and the length a reduction leaves     *)
(* (both in units of a one-line digest), and what it is about.             *)
(***************************************************************************)
EXTENDS Integers, Sequences, SequencesExt, FiniteSets

CONSTANTS Lengths,      \* lengths of a message: <<whole, reduced>>
          Budget,       \* ContextBudget.max_chars
          HeadLength,   \* length of the system prompt with its tools
          MemoryLength, \* length of the memory block, 0 for none
          Verbatim,     \* reduce_message.max_verbatim
          Cut,          \* the last resort for the latest result (800)
          Recent,       \* keep_last_turns
          MaxMessages   \* bound: messages of a session

ASSUME ContextAssumption ==
    /\ Lengths \subseteq (Nat \ {0}) \X (Nat \ {0}) /\ \A l \in Lengths : l[2] <= l[1]
    /\ {Budget, HeadLength, MemoryLength, Verbatim, Cut, Recent, MaxMessages} \subseteq Nat

VARIABLES messages, \* session.messages, the system prompt left out
          owed,     \* calls of this turn that have no result yet
          finished  \* run() has returned

contextVars == <<messages, owed, finished>>

Roles == {"user", "assistant", "tool", "system"}
Abouts == {"goal", "answer", "correction", "calls", "result", "listing", "advice",
           "prompt", "memory"}
Message == [role : Roles, about : Abouts, size : Nat, short : Nat, calls : 0..2]
Msg(role, about, length, calls) ==
    [role |-> role, about |-> about, size |-> length[1], short |-> length[2], calls |-> calls]

ContextInit == /\ \E l \in Lengths : messages = <<Msg("user", "goal", l, 0)>>
               /\ owed = 0 /\ finished = FALSE

Say(m) == messages' = Append(messages, m)
Room == Len(messages) < MaxMessages /\ ~finished

(* An answer the verifier rejects: the answer and the correction. *)
Rejected == /\ Room /\ owed = 0
            /\ \E l \in Lengths :
                 messages' = messages \o <<Msg("assistant", "answer", l, 0),
                                           Msg("user", "correction", l, 0)>>
            /\ UNCHANGED <<owed, finished>>

(* A turn of tool calls; its text may be empty. *)
ToolTurn == /\ Room /\ owed = 0
            /\ \E n \in 1..2 :
                 /\ \E l \in Lengths \cup {<<0, 0>>} : Say(Msg("assistant", "calls", l, n))
                 /\ owed' = n
            /\ UNCHANGED finished

(* The result of the next call, and what the brain and the recovery machine *)
(* add to it; the session may end here instead.                             *)
ToolResult ==
    /\ Room /\ owed > 0
    /\ \E l \in Lengths, about \in {"result", "listing"}, advised \in BOOLEAN :
         messages' = Append(messages, Msg("tool", about, l, 0))
                     \o IF advised THEN <<Msg("system", "advice", <<1, 1>>, 0)>> ELSE <<>>
    /\ owed' = owed - 1 /\ UNCHANGED finished

(* Cancelled, or recovery gives up, between two calls of a turn. *)
GivesUp == ~finished /\ finished' = TRUE /\ UNCHANGED <<messages, owed>>

ContextNext == Rejected \/ ToolTurn \/ ToolResult \/ GivesUp
ContextSpec == ContextInit /\ [][ContextNext]_contextVars

(* A request is made whenever no call is open. *)
Asking == owed = 0 /\ ~finished

-----------------------------------------------------------------------------
(* reduce_message; _digest makes one line of any message, an empty one too. *)
Latest(m) == IF m.size <= Verbatim THEN m.size ELSE m.short
Digest(m) == 1
Smaller(a, b) == IF a < b THEN a ELSE b

Having(role) == {i \in DOMAIN messages : messages[i].role = role}
Goal == messages[CHOOSE i \in Having("user") : \A j \in Having("user") : i <= j]
IsLatest(i) == i \in Having("tool") /\ \A j \in Having("tool") : j <= i

(* The length of the messages s together. *)
Size(s) ==
    LET upTo[i \in 0..Len(s)] == IF i = 0 THEN 0 ELSE upTo[i - 1] + s[i].size
    IN  upTo[Len(s)]

(* A copy of a message, cut to a length; the builder copies no calls. *)
Shortened(m, n) == [m EXCEPT !.size = n, !.calls = 0]

(* The latest result: whole, reduced, or cut; never dropped. *)
LatestForm(m, used) ==
    CASE used + Latest(m) <= Budget -> Latest(m)
      [] used + Latest(m) > Budget /\ used + m.short <= Budget -> m.short
      [] OTHER -> Smaller(m.short, Cut)

(* What a message of the history may keep, by how many came after it. *)
Allowed(i) ==
    IF Cardinality({j \in i+1..Len(messages) : messages[j].role # "system"}) < Recent
    THEN messages[i].short ELSE Digest(messages[i])

(* Fault: the latest result is dropped like any other message. *)
ConsiderAlike(kept, i) ==
    LET n == IF IsLatest(i) THEN Latest(messages[i]) ELSE Allowed(i)
    IN IF messages[i].role # "system" /\ Size(kept) + n <= Budget
       THEN Append(kept, Shortened(messages[i], n)) ELSE kept

(* One message of the history, which has no system messages. *)
Consider(kept, i) ==
    CASE messages[i].role = "system" -> kept
      [] IsLatest(i) -> Append(kept, Shortened(messages[i], LatestForm(messages[i], Size(kept))))
      [] OTHER -> IF Size(kept) + Allowed(i) <= Budget
                  THEN Append(kept, Shortened(messages[i], Allowed(i))) ELSE kept

(* ContextBuilder.build: prompt, goal and memory first, then the history,  *)
(* newest first, as far as the budget goes.                                *)
Fixed == <<Msg("system", "prompt", <<HeadLength, HeadLength>>, 0), Goal>>
         \o IF MemoryLength = 0 THEN <<>>
            ELSE <<Msg("system", "memory", <<MemoryLength, MemoryLength>>, 0)>>

Kept[k \in 0..Len(messages)] ==
    IF k = 0 THEN Fixed ELSE Consider(Kept[k - 1], Len(messages) + 1 - k)

Built == Kept[Len(messages)]

(* GeminiModelProvider._generate_native: the contents of a request; a text  *)
(* part is never empty, and a turn without parts is left out.               *)
Content(m) ==
    IF m.role # "assistant" THEN <<[role |-> "user", results |-> IF m.role = "tool" THEN 1 ELSE 0, calls |-> 0]>>
    ELSE IF m.size = 0 /\ m.calls = 0 THEN <<>>
    ELSE <<[role |-> "model", results |-> 0, calls |-> m.calls]>>

Contents(ms) == FlattenSeq([i \in DOMAIN ms |-> Content(ms[i])])

-----------------------------------------------------------------------------
ContextTypeOK ==
    /\ messages \in Seq(Message) /\ Len(messages) <= MaxMessages + 1
    /\ owed \in 0..2 /\ finished \in BOOLEAN

(* Every request the loop makes of the whole history can be sent: it does   *)
(* not end with a turn of the model, which Gemini refuses (providers.py,    *)
(* the S63 finding), and every call in it is answered once, before the      *)
(* model speaks again (AgentLoop.run).                                      *)
WholeIsSendable ==
    LET sent == Contents(messages)
        after(i) == {j \in i+1..Len(sent) : \A k \in i+1..j : sent[k].role = "user"}
        results(i) == {j \in after(i) : sent[j].results = 1}
    IN Asking => /\ sent[Len(sent)].role = "user"
                 /\ \A i \in DOMAIN sent : sent[i].calls > 0 => Cardinality(results(i)) = sent[i].calls

(* A request that a ContextBuilder makes carries no calls and ends with its *)
(* oldest message: it ends with a turn of the model only if there was no    *)
(* room for the goal once more, in the form it is allowed at that place.    *)
BuiltIsSendable ==
    LET built == Built
    IN built[Len(built)].role = "assistant" => Size(built) + Allowed(1) > Budget

(* The latest result m, kept as x, is shortened only as far as it must be:  *)
(* reduced if it is longer than reduce_message takes verbatim or would not  *)
(* fit beside the rest of the request, cut if it would not fit reduced.     *)
ShortenedForRoom(x, m, built) ==
    LET Fits(n) == Size(built) - x.size + n <= Budget
    IN \/ x.size = m.size
       \/ x.size = m.short /\ (m.size > Verbatim \/ ~Fits(m.size))
       \/ x.size = Smaller(m.short, Cut) /\ ~Fits(m.short)

(* Whatever the budget drops, the model sees the whole goal, and the result *)
(* it is about to reason over, which is never dropped and only shortened    *)
(* where it must be (ContextBuilder.build).  It is not always verbatim, as  *)
(* the module's own rule has it: LatestIsVerbatim.                          *)
ContextKeepsEvidence ==
    LET built == Built
    IN /\ \E i \in DOMAIN built : built[i].about = "goal" /\ built[i].size = messages[1].size
       /\ \A l \in DOMAIN messages : IsLatest(l) =>
             \E i \in DOMAIN built :
                /\ built[i].role = "tool" /\ built[i].about = messages[l].about
                /\ ShortenedForRoom(built[i], messages[l], built)

(* What is sent can be sent, and keeps what matters. *)
RequestsAreSound == WholeIsSendable /\ BuiltIsSendable /\ ContextKeepsEvidence

(* "the LATEST tool result is always verbatim (the model reasons over it    *)
(* next)" (agent/context.py:14-15).  Not one that is longer than            *)
(* max_verbatim, or that does not fit.                                      *)
LatestIsVerbatim ==
    \A l \in DOMAIN messages : IsLatest(l) =>
        \E i \in DOMAIN Built : Built[i].role = "tool" /\ Built[i].size = messages[l].size
=============================================================================
