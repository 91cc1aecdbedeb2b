-------------------------------- MODULE Drills --------------------------------
(***************************************************************************)
(* The scripted demonstrations of agent/ep1.py: the shapes of the scripts, *)
(* the fixtures they repair, the quality bar (validate_demonstration), and *)
(* a script played through the real loop and the real tools.  A file is a  *)
(* sequence of lines, an anchor a sequence of whole lines, and the suite   *)
(* passes when the files are what its assertions ask for.  Beside the      *)
(* scripts of the catalog any author may draft one, as the lane allows.    *)
(***************************************************************************)
EXTENDS Integers, Sequences, FiniteSets, Functions, SequencesExt

CONSTANTS Turns,     \* AgentConfig.max_iterations
          VerdictTurns, \* the budget of a verdict (run_verdict)
          MaxDrafted \* bound: the steps of a drafted script before its final

DrillsAssumption == {Turns, VerdictTurns} \subseteq Nat \ {0} /\ MaxDrafted \in Nat

VARIABLES drill,  \* the demonstration: its script, its fixture, what it declares
          phase,  \* "drafted", "running", "rejected", "passed" or "failed"
          turn,   \* the steps played
          files,  \* the workspace: file name -> lines
          trace   \* the steps played, with what came of each

drillVars == <<drill, phase, turn, files, trace>>

-----------------------------------------------------------------------------
(* The steps of a script. *)
List             == [tool |-> "list_directory"]
Tests            == [tool |-> "run_tests"]
Read(f)          == [tool |-> "read_file", path |-> f]
Edit(f, old, new) == [tool |-> "edit_file", path |-> f, old |-> old, new |-> new]
Write(f, lines)  == [tool |-> "write_file", path |-> f, lines |-> lines]
Diagnose         == [tool |-> "code_diagnostics", args |-> {}]
Tempted(t, arg)  == [tool |-> t, args |-> {arg}]  \* with an argument nobody declares
Final(named)     == [tool |-> "final", named |-> named]

Files == {"module", "test", "added", "source", "helpers", "src/module",
          "README", "docs/a", "docs/b"}

(* How often an anchor is found, and the lines with its first place replaced. *)
PlacesOf(lines, old) ==
    {i \in 1..(Len(lines) - Len(old) + 1) : SubSeq(lines, i, i + Len(old) - 1) = old}
Hits(lines, old) == Cardinality(PlacesOf(lines, old))
Replaced(lines, old, new) ==
    LET i == CHOOSE i \in PlacesOf(lines, old) : \A j \in PlacesOf(lines, old) : i <= j
    IN  SubSeq(lines, 1, i - 1) \o new \o SubSeq(lines, i + Len(old), Len(lines))

-----------------------------------------------------------------------------
(* What most demonstrations have: a fixture, what its suite asks for, and a *)
(* script; no miss or clash declared, no mutation proof, no fact gate.      *)
Demo(lane, fixture, right, script) ==
    [lane |-> lane, fixture |-> fixture, right |-> right, script |-> script,
     misses |-> {}, clashes |-> {}, proof |-> FALSE, facts |-> FALSE]

OneBug   == [module |-> <<"def f", "wrong">>, test |-> <<"assert f">>]
Repaired == [module |-> <<"def f", "right">>]
Repair   == Edit("module", <<"wrong">>, <<"right">>)
Named    == Final({"module"})

(* The diagnosis chain: the suite names the test, the test the module. *)
Chain == <<Tests, Read("test"), Read("module"), Repair, Tests>>
Guess == Read("src/module")

(* The scripted strategies of the curriculum's categories (STRATEGIES). *)
Clean(core)      == <<List>> \o core \o <<Named>>
WrongTurn(core)  == <<Guess, List>> \o core \o <<Named>>
TestsFirst(core) == <<Tests, Guess, List>> \o core \o <<Named>>
Premature(core)  == <<List, Tests, Final({})>> \o core \o <<Named>>

BugFix == {Demo("scripted", OneBug, Repaired, s) :
              s \in {Clean(Chain), TestsFirst(Chain), WrongTurn(Chain), Premature(Chain)}}

(* The module holds only the marker of the missing function. *)
Marker == <<"# f is not implemented yet">>
Implement == <<Tests, Read("test"), Read("module"),
               Edit("module", Marker, <<"def f", "right">>), Tests>>
FeatureAdd == {Demo("scripted", [OneBug EXCEPT !.module = Marker], Repaired, s) :
                  s \in {Clean(Implement), WrongTurn(Implement), Premature(Implement)}}

BuildRepair ==
    LET core == <<Diagnose, Tests, Read("module"), Repair, Tests>>
    IN  {Demo("scripted", OneBug, Repaired, s) : s \in {Clean(core), WrongTurn(core)}}

Dependency ==
    {Demo("scripted", [module |-> <<"import helpers">>, test |-> <<"assert bill">>],
          [helpers |-> <<"def format_money">>],
          <<List, Read("module"), Tests, Read("helpers"), Read("test"),
            Write("helpers", <<"def format_money">>), Tests, Named>>)}

(* A module that works and has no tests; the demonstration adds them. *)
Untested == [module |-> <<"def f", "right">>, test |-> <<"# no tests">>]
Testing == {Demo("scripted", Untested, [added |-> <<"assert f">>],
                 <<List, Read("module"), Tests, Write("added", <<"assert f">>), Tests, Named>>)}
Regression == {Demo("scripted", Untested, [added |-> <<"assert f">>],
                    <<List, Read("module"), Write("added", <<"assert f">>), Tests, Named>>)}

StringReverse == {Demo("scripted", OneBug, Repaired, s) : s \in {Clean(Chain), WrongTurn(Chain)}}
NestedLookup  == {Demo("scripted", OneBug, Repaired, s) : s \in {Clean(Chain), WrongTurn(Chain)}}

Scripted == BugFix \cup FeatureAdd \cup BuildRepair \cup Dependency \cup Testing
              \cup Regression \cup StringReverse \cup NestedLookup

-----------------------------------------------------------------------------
(* The drills the agent authored, family by family (agent_authored_demos). *)
Guessed(core) == <<List, Guess>> \o core \o <<Named>>

JsonDrill     == Demo("authored", OneBug, Repaired, Clean(Chain))
SessionDrill  == Demo("authored", OneBug, Repaired, Guessed(Chain))
RetryDrill    == Demo("authored", OneBug, Repaired, Clean(Chain))
StringDrills  == {Demo("authored", OneBug, Repaired, s) : s \in {Clean(Chain), Guessed(Chain)}}

(* Two bugs: the chain runs twice, with a fresh read between. *)
Twice(old1, new1, old2, new2) ==
    <<List, Tests, Read("test"), Read("module"), Edit("module", old1, new1), Tests,
      Read("module"), Edit("module", old2, new2), Tests, Named>>
CalcCascade ==
    Demo("authored",
         [module |-> <<"def add", "a - b", "def multiply", "a + b">>, test |-> <<"assert both">>],
         [module |-> <<"def add", "a + b", "def multiply", "a * b">>],
         Twice(<<"def add", "a - b">>, <<"def add", "a + b">>,
               <<"def multiply", "a + b">>, <<"def multiply", "a * b">>))
TwoBugs == [module |-> <<"def f", "f wrong", "def g", "g wrong">>, test |-> <<"assert both">>]
BothFixed == [module |-> <<"def f", "f right", "def g", "g right">>]
StringCascade ==
    Demo("authored", TwoBugs, BothFixed,
         Twice(<<"def f", "f wrong">>, <<"def f", "f right">>,
               <<"def g", "g wrong">>, <<"def g", "g right">>))
FreshCascades ==
    Demo("authored", TwoBugs, BothFixed,
         Twice(<<"def f", "f wrong">>, <<"def f", "f right">>,
               <<"def g", "g wrong">>, <<"def g", "g right">>))

(* A rewrite of the whole file breaks the sibling, an anchor from memory    *)
(* misses, a fresh read finds the line.  The miss is declared.              *)
StaleMemory ==
    LET was     == <<"def f", "f wrong", "def g", "g right">>
        fumbled == <<"def f", "f right", "def g", "g bare">>
        stale   == <<"def g", "g right">>
    IN  [Demo("authored", [module |-> was, test |-> <<"assert both">>],
              [module |-> <<"def f", "f right", "def g", "g right">>],
              <<List, Tests, Read("test"), Read("module"), Edit("module", was, fumbled), Tests,
                Edit("module", stale, <<"def g", "g bare">>), Read("module"),
                Edit("module", <<"g bare">>, <<"g right">>), Tests, Named>>)
         EXCEPT !.misses = {stale}]

(* The bug is in the module that the tested one imports. *)
TwoModules(line) == [module |-> <<"import source">>, source |-> <<"def rate", line>>,
                     test |-> <<"assert bill">>]
Rated(line) == [source |-> <<"def rate", line>>]

WrongRate ==
    Demo("authored", TwoModules("amount * 1.5"), Rated("amount * 1.2"),
         <<List, Tests, Read("test"), Read("module"), Read("source"),
           Edit("source", <<"amount * 1.5">>, <<"amount * 1.4">>), Tests, Read("test"),
           Edit("source", <<"amount * 1.4">>, <<"amount * 1.2">>), Tests, Final({"source"})>>)

Indirects ==
    LET core == <<Tests, Read("test"), Read("module"), Read("source"),
                  Edit("source", <<"wrong">>, <<"right">>), Tests>>
    IN  {Demo("authored", TwoModules("wrong"), Rated("right"), s) :
            s \in {Clean(core), Guessed(core)}}

(* The first fix makes a second copy of the other defect's line: its anchor *)
(* clashes, and is widened by the def line.                                 *)
Ambiguous == [module |-> <<"def total", "a - b", "def difference", "a + b">>,
              test |-> <<"assert both">>]
Widened(opening, second) ==
    [Demo("authored", Ambiguous,
          [module |-> <<"def total", "a + b", "def difference", "a - b">>],
          opening \o <<Read("test"), Read("module"),
                       Edit("module", <<"a - b">>, <<"a + b">>), Tests>>
                  \o second \o
          <<Edit("module", <<"a + b">>, <<"a - b">>), Read("module"),
            Edit("module", <<"def difference", "a + b">>, <<"def difference", "a - b">>),
            Tests, Named>>)
     EXCEPT !.clashes = {<<"a + b">>}]
BadCall    == Tempted("code_diagnostics", "path")
Reanchored == Widened(<<List, Tests, BadCall>>, <<>>)
Persistent == Widened(<<List, Tests, BadCall>>, <<BadCall, Read("module")>>)

Fabricated ==
    [Demo("authored", TwoModules("amount * 5"), Rated("amount * 1.2"),
          <<List, Tests, Read("test"), Read("module"), Read("source"),
            Edit("source", <<"amount * 3">>, <<"amount * 1.2">>), Read("source"),
            Edit("source", <<"amount * 5">>, <<"amount * 1.2">>), Tests, Final({"source"})>>)
     EXCEPT !.misses = {<<"amount * 3">>}]

(* Questions: the answer is in a document, and no suite is run. *)
Documents == [f \in {"README", "docs/a", "docs/b"} |-> <<f>>]
Answer(steps) ==
    [Demo("authored", Documents, <<>>,
          <<List, Read("README")>> \o steps \o <<Read("docs/b"), Final({"docs/b"})>>)
     EXCEPT !.facts = TRUE]
ServerQuestion == Answer(<<Read("docs/a"), List>>)
ConfigQuestion == Answer(<<List>>)
CoverageQuestion == Answer(<<Tempted("code_references", "symbol"), List, Guess>>)
PlainQuestions == Answer(<<>>)
SeamQuestions == {Answer(<<Tempted(t, "main"), List>>) : t \in {"code_references", "code_symbols"}}

(* A test is authored, and a mutant of the module shows that it bites.  The *)
(* fixture the lane writes holds the test file already.                     *)
ProvenTest ==
    [Demo("authored", [module |-> <<"def f", "f right", "def g", "g right">>,
                       test |-> <<"assert both">>],
          [module |-> <<"def f", "f right", "def g", "g right">>, test |-> <<"assert both">>],
          <<List, Read("module"), Write("test", <<"assert both">>), Tests,
            Edit("module", <<"g right">>, <<"g mutant">>), Tests,
            Edit("module", <<"g mutant">>, <<"g right">>), Tests, Named>>)
     EXCEPT !.proof = TRUE]

Authored == {JsonDrill, SessionDrill, RetryDrill, CalcCascade, StringCascade, FreshCascades,
             StaleMemory, WrongRate, Reanchored, Persistent, Fabricated, ServerQuestion,
             ConfigQuestion, CoverageQuestion, PlainQuestions, ProvenTest}
              \cup StringDrills \cup Indirects \cup SeamQuestions

(* The tasks a model is judged by, played as it was taught: the chain, the  *)
(* chain twice, the import followed, the documents read, and the chain      *)
(* after a premature claim.                                                 *)
OneOfTwo == [module |-> <<"def f", "wrong", "def g", "g right">>, test |-> <<"assert both">>]
OneFix == [module |-> <<"def f", "right", "def g", "g right">>]
EvalCalculator == {Demo("evaluated", OneOfTwo, OneFix, s) :
                      s \in {Clean(Chain), Premature(Chain)}}
EvalStrings == {Demo("evaluated", OneOfTwo, OneFix, s) :
                   s \in {Clean(Chain), WrongTurn(Chain), Premature(Chain)}}
EvalJson == {Demo("evaluated", OneOfTwo, OneFix, s) :
                s \in {Clean(Chain), WrongTurn(Chain)}}
EvalCascade  == {[CalcCascade EXCEPT !.lane = "evaluated"]}
EvalIndirect == {[d EXCEPT !.lane = "evaluated"] : d \in Indirects}
EvalQuestion == {[ServerQuestion EXCEPT !.lane = "evaluated"]}
Evaluated == EvalCalculator \cup EvalStrings \cup EvalJson \cup EvalCascade
               \cup EvalIndirect \cup EvalQuestion

(* Anyone may author: drafts on the fixture of two lines that can clash. *)
Draft(misses, clashes) ==
    [Demo("drafted", Ambiguous, <<>>, <<List, Read("module")>>)
     EXCEPT !.misses = misses, !.clashes = clashes]
Drafts == {Draft(m, c) : m \in {{}, {<<"gone">>}, {<<"a - b">>}}, c \in {{}, {<<"a + b">>}}}
DraftSteps ==
    {Edit("module", <<"a - b">>, <<"a + b">>), Edit("module", <<"a + b">>, <<"a - b">>),
     Edit("module", <<"def difference", "a + b">>, <<"def difference", "a - b">>),
     Edit("module", <<"gone">>, <<"a - b">>), Edit("source", <<"a + b">>, <<"a - b">>),
     Edit("module", <<"a - b">>, <<"a - b">>), Write("source", <<"a + b">>)}

-----------------------------------------------------------------------------
(* The quality bar: every test of validate_demonstration but the one on the *)
(* wording of the goal.                                                     *)
Steps(s)  == SelectSeq(s, LAMBDA e : e.tool # "final")
Finals(s) == SelectSeq(s, LAMBDA e : e.tool = "final")
Touched(s) == {s[i].path : i \in {j \in DOMAIN s :
                  s[j].tool \in {"read_file", "edit_file", "write_file"}}}

DiscoversFirst(s) == /\ Len(s) > 0
                     /\ s[1].tool \in {"list_directory", "run_tests"}
ReadsSomething(s) == \E i \in DOMAIN s : s[i].tool = "read_file"
OneFinal(s)       == Len(Finals(s)) = 1
NamesEvidence(s)  == \A i \in DOMAIN s : s[i].tool = "final" =>
                        Touched(s) = {} \/ Touched(s) \cap s[i].named # {}

(* The anchors are tried on the files as the edits so far leave them.  What *)
(* is declared must miss or clash, once, and be corrected on the same file. *)
Bar(d) == [files |-> d.fixture, misses |-> d.misses, clashes |-> d.clashes,
           awaiting |-> [f \in Files |-> 0], met |-> TRUE]

(* Fault: a declared miss need not be corrected. *)
TryEditUncorrected(b, e) ==
    LET hits == Hits(b.files[e.path], e.old)
    IN  IF e.path \notin DOMAIN b.files THEN [b EXCEPT !.met = FALSE]
        ELSE IF e.old \in b.misses /\ hits = 0 THEN [b EXCEPT !.misses = @ \ {e.old}]
        ELSE IF e.old \in b.clashes /\ hits >= 2 THEN [b EXCEPT !.clashes = @ \ {e.old}]
        ELSE IF hits # 1 THEN [b EXCEPT !.met = FALSE]
        ELSE [b EXCEPT !.files[e.path] = Replaced(@, e.old, e.new)]

TryEdit(b, e) ==
    LET hits == Hits(b.files[e.path], e.old)
    IN  IF e.path \notin DOMAIN b.files THEN [b EXCEPT !.met = FALSE]
        ELSE IF e.old \in b.misses
          THEN IF hits = 0
                 THEN [b EXCEPT !.misses = @ \ {e.old}, !.awaiting[e.path] = @ + 1]
                 ELSE [b EXCEPT !.met = FALSE]
        ELSE IF e.old \in b.clashes
          THEN IF hits >= 2
                 THEN [b EXCEPT !.clashes = @ \ {e.old}, !.awaiting[e.path] = @ + 1]
                 ELSE [b EXCEPT !.met = FALSE]
        ELSE IF hits # 1 THEN [b EXCEPT !.met = FALSE]
        ELSE [b EXCEPT !.files[e.path] = Replaced(@, e.old, e.new),
                       !.awaiting[e.path] = IF @ > 0 THEN @ - 1 ELSE 0]

AnchorsHold(d) ==
    LET edits == SelectSeq(d.script, LAMBDA e : e.tool = "edit_file")
        end   == FoldLeft(TryEdit, Bar(d), edits)
    IN  /\ end.met /\ end.misses = {} /\ end.clashes = {}
        /\ \A f \in Files : end.awaiting[f] = 0

(* A mutation and its restoring, each with the suite run after it.  Whether *)
(* the test is written is asked of the fixture, never of the script.        *)
ProofShaped(d) ==
    LET s == d.script
    IN  /\ "test" \in DOMAIN d.fixture
        /\ \E a, b \in DOMAIN s :
              /\ a < b /\ s[a].tool = "edit_file" /\ s[b].tool = "edit_file"
              /\ s[a].path = "module" /\ s[b].path = "module"
              /\ s[a].new = s[b].old /\ s[a].old = s[b].new
              /\ \E i \in a..b : s[i].tool = "run_tests"
              /\ \E i \in b..Len(s) : s[i].tool = "run_tests"

ClearsBar(d) == /\ DiscoversFirst(Steps(d.script)) /\ ReadsSomething(d.script)
                /\ OneFinal(d.script) /\ NamesEvidence(d.script)
                /\ AnchorsHold(d)
                /\ d.proof => ProofShaped(d)

-----------------------------------------------------------------------------
(* The tools, on the workspace: whether a step is carried out. *)
SuitePasses == \A f \in DOMAIN drill.right :
                  f \in DOMAIN files /\ files[f] = drill.right[f]

Done(e) ==
    CASE e.tool = "read_file"  -> e.path \in DOMAIN files
      [] e.tool = "edit_file"  -> /\ e.path \in DOMAIN files /\ e.old # e.new
                                  /\ Hits(files[e.path], e.old) = 1
      [] e.tool = "write_file" -> e.path \notin DOMAIN files
      [] e.tool \in {"code_diagnostics", "code_references", "code_symbols"} -> e.args = {}
      [] OTHER -> TRUE

Changed(e) ==
    CASE e.tool = "edit_file"  -> [files EXCEPT ![e.path] = Replaced(@, e.old, e.new)]
      [] e.tool = "write_file" -> [f \in DOMAIN files \cup {e.path} |->
                                      IF f = e.path THEN e.lines ELSE files[f]]
      [] OTHER -> files

Record(e, ok) == trace' = Append(trace, [step |-> e, ok |-> ok, green |-> SuitePasses])

(* What the suite said, each time it was run. *)
SuiteRuns == SelectSeq(trace, LAMBDA r : r.step.tool = "run_tests")
MutantCaught == /\ Len(SuiteRuns) >= 3
                /\ SuiteRuns[Len(SuiteRuns)].green
                /\ \E i \in 1..(Len(SuiteRuns) - 1) : ~SuiteRuns[i].green

DrillsInit == /\ drill \in Scripted \cup Authored \cup Evaluated \cup Drafts
              /\ phase = "drafted" /\ turn = 0 /\ files = drill.fixture /\ trace = <<>>

(* A draft grows by a step. *)
Author(e) == /\ phase = "drafted" /\ drill.lane = "drafted"
             /\ Len(drill.script) < MaxDrafted + 2
             /\ drill' = [drill EXCEPT !.script = Append(@, e)]
             /\ UNCHANGED <<phase, turn, files, trace>>

(* A script is taken to the lane.  Only the authored ones have a bar. *)
Submit == /\ phase = "drafted"
          /\ drill' = IF drill.lane = "drafted"
                      THEN [drill EXCEPT !.script = Append(@, Named)] ELSE drill
          /\ phase' = IF drill.lane \in {"scripted", "evaluated"} \/ ClearsBar(drill')
                      THEN "running" ELSE "rejected"
          /\ UNCHANGED <<turn, files, trace>>

Limit == IF drill.lane = "evaluated" THEN VerdictTurns ELSE Turns

Act == /\ phase = "running" /\ turn < Limit /\ turn < Len(drill.script)
       /\ LET e == drill.script[turn + 1]
          IN  /\ e.tool # "final"
              /\ files' = IF Done(e) THEN Changed(e) ELSE files
              /\ Record(e, Done(e))
       /\ turn' = turn + 1
       /\ UNCHANGED <<drill, phase>>

(* The gate judges an answer: the planted facts, or the suite.  A rejected  *)
(* answer is handed back, and the script goes on.                           *)
Finish ==
    /\ phase = "running" /\ turn < Limit /\ turn < Len(drill.script)
    /\ LET e    == drill.script[turn + 1]
           holds == IF drill.facts THEN "docs/b" \in e.named ELSE SuitePasses
       IN  /\ e.tool = "final"
           /\ Record(e, holds)
           /\ phase' = IF ~holds THEN "running"
                       ELSE IF drill.proof /\ ~MutantCaught THEN "failed" ELSE "passed"
    /\ turn' = turn + 1
    /\ UNCHANGED <<drill, files>>

(* The turns are used up, or the script is. *)
GiveUp == /\ phase = "running" /\ (turn = Limit \/ turn = Len(drill.script))
          /\ phase' = "failed"
          /\ UNCHANGED <<drill, turn, files, trace>>

DrillsNext == (\E e \in DraftSteps : Author(e)) \/ Submit \/ Act \/ Finish \/ GiveUp

DrillsSpec == DrillsInit /\ [][DrillsNext]_drillVars

-----------------------------------------------------------------------------
(* Every variable has its type. *)
DrillsTypeOK ==
    /\ drill.lane \in {"scripted", "authored", "evaluated", "drafted"}
    /\ phase \in {"drafted", "running", "rejected", "passed", "failed"}
    /\ turn \in 0..Len(drill.script) /\ Len(trace) = turn
    /\ DOMAIN files \subseteq Files
    /\ \A i \in DOMAIN trace : trace[i].ok \in BOOLEAN /\ trace[i].green \in BOOLEAN

(* Every demonstration of the catalog clears the bar and is verified in the *)
(* real loop within its turns, and what was taught solves the tasks of the  *)
(* verdict within the verdict's budget, a premature claim included.         *)
CatalogVerifies == drill.lane # "drafted" => phase \notin {"rejected", "failed"}

(* What the bar simulates is what the tools do: of any script that clears   *)
(* it, the edits that fail at run time are those declared, and each is      *)
(* followed by one that lands on the same file.  A script with an edit that *)
(* changes nothing is the exception: the bar lets it pass for a correction, *)
(* and edit_file refuses it.                                                *)
Failed == {i \in DOMAIN trace : trace[i].step.tool = "edit_file" /\ ~trace[i].ok}
DeclaredIsWhatFails ==
    /\ drill.lane \notin {"scripted", "evaluated"} /\ phase \in {"passed", "failed"}
    /\ \A i \in DOMAIN trace : trace[i].step.tool = "edit_file" =>
                                 trace[i].step.old # trace[i].step.new
    => /\ {trace[i].step.old : i \in Failed} = drill.misses \cup drill.clashes
       /\ Cardinality(Failed) = Cardinality(drill.misses \cup drill.clashes)
       /\ \A i \in Failed : \E j \in (i + 1)..Len(trace) :
             /\ trace[j].step.tool = "edit_file" /\ trace[j].ok
             /\ trace[j].step.path = trace[i].step.path

(* A rejected call is never retried: the demonstration looks again first.   *)
RejectionMeansLook ==
    drill.lane # "drafted" => \A i \in DOMAIN trace :
        ~trace[i].ok => drill.script[i + 1].tool \in
                            {"read_file", "list_directory", "run_tests"}
=============================================================================
