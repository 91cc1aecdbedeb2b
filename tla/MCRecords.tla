------------------------------ MODULE MCRecords ------------------------------
(***************************************************************************)
(* The files the tool keeps, and what overlapping commands do to them, in  *)
(* one run of TLC: the rule review, the case base and its teachers, the    *)
(* tasks, the passes of wrapped commands, the keys of failures, the cases  *)
(* mined from archives, the questions asked of the case base and the       *)
(* passages beside it, the experience store with the corpus made of it,    *)
(* the lanes that fill it with demonstrations, and the jobs that measure   *)
(* models.  They share no state, and which one runs is chosen at the start. *)
(***************************************************************************)
EXTENDS RuleReview, TeacherLoop, TrainingCorpus, TaskLedger, CommandCapture, CorpusLane, TLC

CONSTANTS d1, d2, s1, s2, unknown, human, x1, x2, g1, a1, a2, hello

Same == Permutations({d1, d2}) \cup Permutations({s1, s2})

CaseOf(n, s) == [id |-> n, signature |-> s, times_seen |-> 1, by |-> unknown]
SomeFiles == {<<>>, <<CaseOf(1, x2)>>, <<CaseOf(1, x2), CaseOf(3, x1)>>,
              <<CaseOf(1, x1), CaseOf(2, x1)>>}

SomeCommands == <<"c", "c", "d">>

SomeGoals == {g1, a1, a2, hello}
TaskNames == [g \in SomeGoals |-> CASE g = g1 -> "g" [] g \in {a1, a2} -> "a" [] OTHER -> "hello"]
Ended(state, attempts, style) == [state |-> state, attempts |-> attempts, style |-> style]
SomeSessions == {Ended("COMPLETED", <<TRUE>>, "real")}

(* A demonstration, a real success, and a failure that counts as noise. *)
Trajectory(outcome, style, proved) ==
    [outcome |-> outcome, proof |-> proved, style |-> style,
     steps |-> IF proved THEN "proved" ELSE "unproved"]
Filled == [g \in SomeGoals |->
              CASE g = g1 -> Trajectory("recovered", "demo", TRUE)
                [] g = a1 -> Trajectory("success", "real", TRUE)
                [] g = hello -> Trajectory("failed", "real", FALSE)
                [] OTHER -> NoRow]
SomeStarts == {Filled}

Demo(g, guessing, leading) == [goal |-> g, guessing |-> guessing, leading |-> leading]
SomeDrills == <<Demo("reads", FALSE, FALSE), Demo("guesses", TRUE, FALSE)>>
SomeScripts == <<Demo("leads", FALSE, TRUE), Demo("leads", FALSE, FALSE)>>

VARIABLES part,
          text, error,
          texts, run, spare, mined, changes, mines,
          results, jobs, others,
          cases, digest, digester, asked, open, closed, unshared

S == INSTANCE Signatures WITH Characters <- {"a", " ", "/", "::", "'"}, MaxLength <- 4
X == INSTANCE MineExamples WITH Nothing <- NoRow
G == INSTANCE ArchiveMine WITH
        Archive <- X!SmallArchive, Tests <- {"test", "other"}, Errors <- X!SomeErrors,
        Unnamed <- "unknown_test", Nothing <- NoRow, Near <- 2, MaxChanges <- 1, MaxMines <- 2
Session(outcome, steps) == [outcome |-> outcome, steps |-> steps]
J == INSTANCE Verdict WITH
        Jobs <- Detectors, Asked <- {<<"m">>}, Drip <- "n", Tasks <- <<"t">>, Reps <- 2,
        Outcomes <- {Session("success", <<"list", "fail", "read", "pass">>),
                  Session("recovered", <<"guess", "fail", "error", "error", "read">>)},
        Foreign <- {[model |-> "m", demo |-> TRUE, session |-> Session("recovered", <<"guess">>)],
                    [model |-> "n", demo |-> FALSE, session |-> Session("success", <<"list">>)]},
        MaxOthers <- 1, rows <- results

Said(i, d) == [id |-> i, signature |-> "s", times_seen |-> 1, by |-> d]
K == INSTANCE AskLoop WITH
        Failures <- {"s", "t", "u"}, Diagnoses <- {"fix", "unclear"}, Doubtful <- {"unclear", "doubts"},
        Queries <- {"q"}, Mentions <- [q \in {"q"} |-> {"s", "t", "fix", "p", "(empty document)"}],
        Documents <- <<<<"p", NoRow>>, <<NoRow>>, <<"p">>>>,
        NoBody <- NoRow, Digesters <- Detectors, NoCopy <- NoRow,
        Files <- {<<>>, <<Said(1, "fix"), Said(2, "unclear")>>},
        MaxCases <- 2, MaxCalls <- 1, MaxSeen <- 3, serial <- unshared

ASSUME G!ArchiveAssumption /\ J!VerdictAssumption /\ K!AskAssumption

PartsInit ==
    /\ part \in {"review", "teachers", "tasks", "capture", "keys", "corpus", "lane", "mine", "jobs", "ask", "digest"}
    /\ Init /\ TeacherInit /\ TaskInit /\ CaptureInit /\ S!SignatureInit /\ CorpusInit
    /\ LaneInit /\ G!ArchiveInit /\ J!VerdictInit /\ K!AskInit
    \* the parts that do not run begin in one way only
    /\ part # "review" => alone
    /\ part # "teachers" => solo
    /\ part # "tasks" => serial
    /\ part # "capture" => single
    /\ part # "corpus" => apart
    /\ part # "lane" => calm
    /\ part # "ask" => cases = <<>> /\ digest = <<>>
    /\ part # "mine" => \A f \in DOMAIN texts : texts[f].text = CHOOSE t \in X!SmallArchive[f].texts : TRUE

keys == <<text, error>>
archive == <<texts, run, spare, mined, changes, mines>>
measured == <<results, jobs, others>>
questions == <<cases, digest, digester, asked, open, closed, unshared>>
PartsVars == <<part, vars, teacherVars, taskVars, captureVars, keys, learningVars, laneVars, archive,
               measured, questions>>

(* Part p takes a step A, the others keep still. *)
In(p, A) == /\ part = p /\ A
            /\ IF p = "review" THEN TRUE ELSE UNCHANGED vars
            /\ IF p = "teachers" THEN TRUE ELSE UNCHANGED teacherVars
            /\ IF p = "tasks" THEN TRUE ELSE UNCHANGED taskVars
            /\ IF p = "capture" THEN TRUE ELSE UNCHANGED captureVars
            /\ IF p = "keys" THEN TRUE ELSE UNCHANGED keys
            /\ IF p = "corpus" THEN TRUE ELSE UNCHANGED learningVars
            /\ IF p = "lane" THEN TRUE ELSE UNCHANGED laneVars
            /\ IF p = "mine" THEN TRUE ELSE UNCHANGED archive
            /\ IF p = "jobs" THEN TRUE ELSE UNCHANGED measured
            /\ IF p \in {"ask", "digest"} THEN TRUE ELSE UNCHANGED questions
            /\ UNCHANGED part

PartsNext == \/ In("review", Next)
             \/ In("teachers", TeacherNext)
             \/ In("tasks", TaskNext)
             \/ In("capture", CaptureNext)
             \/ In("keys", S!SignatureNext)
             \/ In("corpus", CorpusNext)
             \/ In("lane", LaneNext)
             \/ In("mine", G!ArchiveNext)
             \/ In("jobs", J!VerdictNext)
             \/ In("ask", K!AskNext)
             \/ In("digest", K!DigestNext)

PartsSpec == PartsInit /\ [][PartsNext]_PartsVars

(* The variables of every part have their types (see the modules). *)
TypesOK == CASE part = "review"   -> TypeOK
             [] part = "teachers" -> TeacherTypeOK
             [] part = "tasks"    -> TaskTypeOK
             [] part = "capture"  -> CaptureTypeOK
             [] part = "keys"     -> S!SignatureTypeOK
             [] part = "corpus"   -> CorpusTypeOK
             [] part = "lane"     -> LaneTypeOK
             [] part = "mine"     -> G!ArchiveTypeOK
             [] part = "jobs"     -> J!VerdictTypeOK
             [] OTHER             -> K!AskTypeOK

(* What is made of the files agrees with them.  A pass is counted for every *)
(* failure of its command (Signatures), what qa mine read is in its file,   *)
(* diagnoses first (ArchiveMine), what is on file answers the next          *)
(* question, honestly, and a passage is digested once (AskLoop).            *)
AnswersAgree ==
    /\ part = "keys" => S!PassesFindFailures
    /\ part = "mine" => G!DiagnosesWin /\ G!ReportsKept
    /\ part = "ask" => K!HonestyIsHandedOn /\ K!LoopCloses
    /\ part = "digest" => K!DigestedOnce

(* The figures of a verdict are those of its own runs (Verdict). *)
FiguresAgree == part = "jobs" => J!MetricsAreOfVerdict /\ J!RatesAreRates /\ J!JobsAreHonest

(* Both of the above. *)
DerivedIsSound == AnswersAgree /\ FiguresAgree
=============================================================================
