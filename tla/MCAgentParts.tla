---------------------------- MODULE MCAgentParts ----------------------------
(***************************************************************************)
(* Parts of the agent that share no state, in one run of TLC: the loop     *)
(* with everything it can be given, the requests made of its messages, the *)
(* textual tool protocol, the file tools, panels of models, the            *)
(* apprenticeship, the curriculum, the scripted demonstrations and the      *)
(* miners of other agents' sessions.  Which one runs is chosen at the       *)
(* start, so the states are the union of theirs.                            *)
(***************************************************************************)
EXTENDS AgentLoop, ModelContext, FileTools, VerifiedPanel, Apprenticeship, Mastery

(* Two steps of each plan, the participants of a panel. *)
TwoSteps   == [stops : BOOLEAN, steps : [1..2 -> [optional : BOOLEAN, contains : BOOLEAN]]]
ThreeNames == <<"a", "b", "c">>
\* Short, long and longer messages, as <<whole, reduced>>.
SomeLengths == {<<1, 1>>, <<4, 2>>, <<6, 4>>}

VARIABLES part,
          value, before,
          drill, phase, played, desk, trace,
          parts, kept, written, learnt, miner, growth, sweeps

Typed == {"\"", "\\", "\n", "n", "\t", "t", "'", ")", "]", "[TOOL: f(", "query", "="}
User(t) == [kind |-> "user", text |-> t, lines |-> <<>>]
Tool(l) == [kind |-> "tool", text |-> NoText, lines |-> l]
Patch   == [kind |-> "patch", text |-> NoText, lines |-> <<>>]

T == INSTANCE ToolProtocol WITH
        Typed <- Typed, MaxTyped <- 3, Prose <- {<<>>, <<"x", "'">>, <<"[TOOL: f(">>}
D == INSTANCE Drills WITH Turns <- 25, VerdictTurns <- 12, MaxDrafted <- 4, turn <- played, files <- desk
X == INSTANCE TranscriptMine WITH
        Sessions <- {1, 2}, Placeholder <- "continued", Nothing <- NoText,
        Parts <- {User("goal"), Patch, Tool(<<"e">>), Tool(<<"Traceback", "e">>)},
        Transcripts <- {<<User("goal"), Tool(<<"e">>), Patch, Tool(<<"f">>)>>,
                        <<Tool(<<"Traceback", "e">>), Patch, Tool(<<"f">>), Tool(<<"e">>)>>,
                        <<User(NoText), Tool(<<"Traceback">>), Patch>>},
        Substantial <- 3, MaxPairs <- 2, MaxGrowth <- 1, MaxRuns <- 2

ASSUME D!DrillsAssumption /\ X!MineAssumption /\ T!ProtocolAssumption

PartsInit ==
    /\ part \in {"loop", "context", "protocol", "files", "panel", "lab", "mastery", "drills", "mines"}
    /\ Init /\ ContextInit /\ T!ProtocolInit /\ FileInit
    /\ PanelInit /\ LabInit /\ MasteryInit /\ D!DrillsInit /\ X!MineInit
    \* the parts that do not run begin in one way only
    /\ part # "context" => messages[1].size = 1
    /\ part # "protocol" => before = <<>>
    /\ part # "files" => alone
    /\ part # "drills" => drill = D!JsonDrill
    /\ part # "mines" => \A s \in {1, 2} : Len(parts[s]) = 3

protocol == <<value, before>>
drills == <<drill, phase, played, desk, trace>>
mines == <<parts, kept, written, learnt, miner, growth, sweeps>>
PartsVars == <<part, vars, contextVars, protocol, fileVars, panelVars, labVars, masteryVars, drills, mines>>

(* Part p takes a step B, the others keep still. *)
In(p, B) == /\ part = p /\ B
            /\ IF p = "loop" THEN TRUE ELSE UNCHANGED vars
            /\ IF p = "context" THEN TRUE ELSE UNCHANGED contextVars
            /\ IF p = "protocol" THEN TRUE ELSE UNCHANGED protocol
            /\ IF p = "files" THEN TRUE ELSE UNCHANGED fileVars
            /\ IF p = "panel" THEN TRUE ELSE UNCHANGED panelVars
            /\ IF p = "lab" THEN TRUE ELSE UNCHANGED labVars
            /\ IF p = "mastery" THEN TRUE ELSE UNCHANGED masteryVars
            /\ IF p = "drills" THEN TRUE ELSE UNCHANGED drills
            /\ IF p = "mines" THEN TRUE ELSE UNCHANGED mines
            /\ UNCHANGED part

PartsNext == \/ In("loop", Next)
             \/ In("context", ContextNext)
             \/ In("protocol", T!Type)
             \/ In("files", FileNext)
             \/ In("panel", PanelNext)
             \/ In("lab", LabNext)
             \/ In("mastery", MasteryNext)
             \/ In("drills", D!DrillsNext)
             \/ In("mines", X!MineNext)

PartsSpec == PartsInit /\ [][PartsNext]_PartsVars /\ WF_PartsVars(In("loop", Step))

(* The variables of every part have their types (see the modules). *)
TypesOK == /\ TypeOK /\ ContextTypeOK /\ T!ProtocolTypeOK /\ FileTypeOK
           /\ PanelTypeOK /\ LabTypeOK /\ MasteryTypeOK
           /\ D!DrillsTypeOK /\ X!MineTypeOK

(* A session that starts comes to an end (AgentLoop). *)
LoopTerminates == part = "loop" => Terminates

(* A plan passes only with every mandatory step (VerifiedPanel); the level  *)
(* is the one the whole history gives, and a curriculum that falls short    *)
(* says so (Mastery); the catalog of demonstrations verifies within its     *)
(* turns, what the bar lets through fails where it says, and nobody repeats *)
(* a rejected call (Drills); what is mined from another agent's session is  *)
(* what happened in it (TranscriptMine); what a call is written with is     *)
(* what is read from it (ToolProtocol).                                     *)
PracticeIsSound ==
    /\ part = "panel" => PlansAreHonest
    /\ part = "mastery" => LevelIsOfHistory /\ ShortfallIsTold
    /\ part = "drills" => D!CatalogVerifies /\ D!DeclaredIsWhatFails /\ D!RejectionMeansLook
    /\ part = "protocol" => T!CallsSurviveText
    /\ part = "mines" => X!PairsAreCycles /\ X!FixesFollowFailures /\ X!CountsAddUp
=============================================================================
