----------------------------- MODULE Signatures ------------------------------
(***************************************************************************)
(* The key of a failure (signatures.py) and of a wrapped command           *)
(* (skills/flaky.py): words, whitespace, quotes and slashes matter, so a   *)
(* text is a sequence of characters; "::" is one of them.                  *)
(***************************************************************************)
EXTENDS Integers, Sequences, SequencesExt

CONSTANTS Characters, \* what commands and error lines are made of
          MaxLength   \* bound: characters of a text

VARIABLES text, error \* a command, or a composed signature; an error line

signatureVars == <<text, error>>

Space == " "
Slash == "/"
Breaks == {Space, "'"} \* what ends a path-ish token
Separator == <<Space, "::", Space>>

SignatureInit == text = <<>> /\ error = <<>>
TypeText == /\ Len(text) < MaxLength
            /\ \E c \in Characters : text' = Append(text, c)
            /\ UNCHANGED error
TypeError == /\ Len(error) < 2
             /\ \E c \in Characters : error' = Append(error, c)
             /\ UNCHANGED text
SignatureNext == TypeText \/ TypeError
SignatureSpec == SignatureInit /\ [][SignatureNext]_signatureVars

Kept(s, Keep(_)) == FlattenSeq([i \in DOMAIN s |-> IF Keep(i) THEN <<s[i]>> ELSE <<>>])

(* " ".join(text.split()) *)
Collapse(s) ==
    LET wordBefore(i) == \E j \in 1..i : s[j] # Space
        wordAfter(i) == \E j \in i..Len(s) : s[j] # Space
        keep(i) == s[i] # Space \/ (wordBefore(i) /\ wordAfter(i) /\ s[i - 1] # Space)
    IN Kept(s, keep)

(* baseline_paths: of a token with slashes what follows the last one. *)
BaselinePaths(s) ==
    LET inPath(i) == \E j \in i..Len(s) : s[j] = Slash /\ \A k \in i..j : s[k] \notin Breaks
        keep(i) == ~inPath(i)
    IN Kept(s, keep)

(* Letters are small already. *)
Normal(s) == BaselinePaths(Collapse(s))

(* partition(SEPARATOR): what comes before the first one, and after it. *)
Split(s) ==
    LET seps == {i \in 1..Len(s) - 2 : SubSeq(s, i, i + 2) = Separator}
    IN IF seps = {} THEN <<s, <<>>>>
       ELSE LET i == CHOOSE i \in seps : \A j \in seps : i <= j
            IN <<SubSeq(s, 1, i - 1), SubSeq(s, i + 3, Len(s))>>

Canonical(s) == Normal(Split(s)[1]) \o Separator \o Normal(Split(s)[2])

(* parse_failure, command_test_part, match_cases. *)
FailureKey(command, line) == Canonical(command \o Separator \o line)
CommandPart(command) == Split(Canonical(command \o Separator \o <<"p">>))[1]
Matches(signature, command) == Split(signature)[1] = CommandPart(command)

-----------------------------------------------------------------------------
SignatureTypeOK == {text, error} \subseteq Seq(Characters) /\ Len(text) <= MaxLength

(* A pass of a command counts for every failure recorded of it, whatever   *)
(* the command and the error line contain (flaky.match_cases).             *)
PassesFindFailures == Matches(FailureKey(text, error), text)

=============================================================================
