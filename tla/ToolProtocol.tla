---------------------------- MODULE ToolProtocol -----------------------------
(***************************************************************************)
(* The textual tool protocol: format_tool_call (agent/training.py) writes  *)
(* the calls a model is taught, _parse_textual_tool_calls                  *)
(* (agent/providers.py) reads the calls it makes.                          *)
(*                                                                         *)
(* A text is a sequence of characters; the head of a call, "[TOOL: f(", is *)
(* one of them, and so are a key and a literal (true, null, a number).     *)
(***************************************************************************)
EXTENDS Integers, Sequences, SequencesExt, FiniteSets

CONSTANTS Typed,    \* characters the arguments are made of
          MaxTyped, \* bound: characters of an argument
          Prose     \* texts that may stand before the calls

VARIABLES value,  \* a string argument, as it is typed
          before  \* the text before the calls

protocolVars == <<value, before>>

Opening == "[TOOL: f("
Quote == "\""
Single == "'"
NoQuote == ""
Escape == "\\"

ProtocolInit == value = <<>> /\ before \in Prose
Type == /\ Len(value) < MaxTyped
        /\ \E c \in Typed : value' = Append(value, c)
        /\ UNCHANGED before

-----------------------------------------------------------------------------
(* format_tool_call: four replacements, one after the other. *)
Replaced(s, c, by) == FlattenSeq([i \in DOMAIN s |-> IF s[i] = c THEN by ELSE <<s[i]>>])

Escaped(s) ==
    LET quoted == Replaced(Replaced(s, Escape, <<Escape, Escape>>), Quote, <<Escape, Quote>>)
    IN  Replaced(Replaced(quoted, "\n", <<Escape, "n">>), "\t", <<Escape, "t">>)

Str(s) == [kind |-> "string", text |-> s]
Lit(c) == [kind |-> "literal", text |-> <<c>>]

Rendered(v) == IF v.kind = "string" THEN <<Quote>> \o Escaped(v.text) \o <<Quote>> ELSE v.text

(* A call is its arguments, as a sequence of keys and values. *)
Format(args) ==
    LET pair(i) == (IF i = 1 THEN <<>> ELSE <<",", " ">>) \o <<args[i][1], "=">> \o Rendered(args[i][2])
    IN <<Opening>> \o FlattenSeq([i \in DOMAIN args |-> pair(i)]) \o <<")", "]">>

-----------------------------------------------------------------------------
Keys == {"query", "k"}
Literals == {"true", "7"}
Unescapes == [c \in {Escape, Quote, "n", "t"} |->
                 IF c = "n" THEN "\n" ELSE IF c = "t" THEN "\t" ELSE c]

(* _unescape_value, one character: an escape of the dialect is undone, any  *)
(* other kept.                                                              *)
UnescapeStep(acc, c) ==
    IF acc.open THEN [open |-> FALSE,
                      text |-> acc.text \o IF c \in DOMAIN Unescapes THEN <<Unescapes[c]>>
                                           ELSE <<Escape, c>>]
    ELSE IF c = Escape THEN [acc EXCEPT !.open = TRUE]
    ELSE [acc EXCEPT !.text = Append(@, c)]

Unescaped(s) ==
    LET after[i \in 0..Len(s)] ==
            IF i = 0 THEN [open |-> FALSE, text |-> <<>>] ELSE UnescapeStep(after[i - 1], s[i])
    IN  after[Len(s)].text

(* _scan_tool_call, one character: quotes, escapes inside them, and the     *)
(* depth of parentheses outside; the scan ends where the depth is zero.     *)
ScanStep(st, c) ==
    IF st.depth = 0 THEN st
    ELSE LET next == [st EXCEPT !.at = @ + 1]
         IN IF st.quote # NoQuote THEN
              IF st.escaped THEN [next EXCEPT !.escaped = FALSE]
              ELSE IF c = Escape THEN [next EXCEPT !.escaped = TRUE]
              ELSE IF c = st.quote THEN [next EXCEPT !.quote = NoQuote]
              ELSE next
            ELSE IF c \in {Quote, Single} THEN [next EXCEPT !.quote = c]
            ELSE IF c \in {"(", Opening} THEN [next EXCEPT !.depth = @ + 1]
            ELSE IF c = ")" THEN [next EXCEPT !.depth = @ - 1]
            ELSE next

(* _scan_tool_call: the scan of a text that is begun in a state. *)
Scan(begun, s) ==
    LET after[i \in 0..Len(s)] == IF i = 0 THEN begun ELSE ScanStep(after[i - 1], s[i])
    IN  after[Len(s)]

(* The scan of what follows the head at i, and the place of the parenthesis *)
(* that closes the head, 0 if none does.                                    *)
HeadScan(s, i) ==
    Scan([depth |-> 1, quote |-> NoQuote, escaped |-> FALSE, at |-> i], SubSeq(s, i + 1, Len(s)))

Closing(s, i) ==
    LET st == HeadScan(s, i)
    IN IF st.depth = 0 /\ st.at < Len(s) /\ s[st.at + 1] = "]" THEN st.at ELSE 0

(* _ARG_PAIR_RE: the quote that ends the one at i, the first that no        *)
(* backslash escapes; 0 if none does.                                       *)
EndOfString(s, i) ==
    LET inside == [depth |-> 1, quote |-> Quote, escaped |-> FALSE, at |-> i]
        ends == {j \in i + 1..Len(s) : Scan(inside, SubSeq(s, i + 1, j)).quote = NoQuote}
    IN IF ends = {} THEN 0 ELSE CHOOSE j \in ends : \A k \in ends : j <= k

(* _parse_tool_args, at one place of an argument text: a pair that begins   *)
(* there is read, unless an earlier one goes beyond the place.              *)
PairStep(s, acc, i) ==
    IF i < acc.pos \/ s[i] \notin Keys \/ i + 2 > Len(s) THEN acc
    ELSE IF s[i + 1] # "=" THEN acc
    ELSE IF s[i + 2] \in Literals
         THEN [pos |-> i + 3, args |-> Append(acc.args, <<s[i], Lit(s[i + 2])>>)]
    ELSE IF s[i + 2] # Quote THEN acc
    ELSE LET e == EndOfString(s, i + 2)
         IN IF e = 0 THEN acc
            ELSE [pos |-> e + 1, args |-> Append(acc.args, <<s[i], Str(Unescaped(SubSeq(s, i + 3, e - 1)))>>)]

(* The pairs of an argument text, from left to right. *)
Pairs(s) ==
    LET after[i \in 0..Len(s)] ==
            IF i = 0 THEN [pos |-> 1, args |-> <<>>] ELSE PairStep(s, after[i - 1], i)
    IN  after[Len(s)].args

(* _parse_textual_tool_calls, at one place: a head that is not closed is    *)
(* passed over.                                                             *)
CallStep(s, acc, i) ==
    IF i < acc.pos \/ s[i] # Opening THEN acc
    ELSE LET e == Closing(s, i)
         IN IF e = 0 THEN [acc EXCEPT !.pos = i + 1]
            ELSE [pos |-> e + 2, calls |-> Append(acc.calls, Pairs(SubSeq(s, i + 1, e - 1)))]

Parse(s) ==
    LET after[i \in 0..Len(s)] ==
            IF i = 0 THEN [pos |-> 1, calls |-> <<>>] ELSE CallStep(s, after[i - 1], i)
    IN  after[Len(s)].calls

-----------------------------------------------------------------------------
(* A text before the calls holds none: the parentheses of a head in it stay  *)
(* open, outside quotes, or no "]" follows the one that closes them.         *)
ProtocolAssumption ==
    \A p \in Prose :
        /\ p \in Seq(Range(p))
        /\ \A i \in DOMAIN p : p[i] = Opening =>
               LET st == HeadScan(p, i)
               IN st.quote = NoQuote /\ (st.depth = 0 => st.at < Len(p) /\ p[st.at + 1] # "]")

ProtocolTypeOK == value \in Seq(Typed) /\ Len(value) <= MaxTyped /\ before \in Prose

Taught == { << << <<"query", Str(value)>> >>, << <<"k", Str(value)>> >> >>,
            << << <<"k", Lit("7")>>, <<"query", Str(value)>> >> >>,
            << << <<"query", Str(value)>>, <<"k", Lit("true")>> >> >> }

(* Whatever a string argument holds, quotes, backslashes, line ends, parens  *)
(* or a whole call, the runtime reads the calls the formatter wrote, no more *)
(* and no fewer, with the types they had (format_tool_call is "the exact     *)
(* mirror of the runtime parser", agent/training.py).                        *)
CallsSurviveText ==
    \A calls \in Taught :
        Parse(before \o FlattenSeq([i \in DOMAIN calls |-> Format(calls[i]) \o <<"\n">>])) = calls
=============================================================================
