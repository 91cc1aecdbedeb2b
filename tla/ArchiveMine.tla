----------------------------- MODULE ArchiveMine -----------------------------
(***************************************************************************)
(* qa mine: the decisions, git logs and transcripts below a directory,     *)
(* digested into a file of cases (skills/archive_mine.py), while others    *)
(* write there, and what qa import and qa lookup make of that file         *)
(* (store.load).                                                           *)
(***************************************************************************)
EXTENDS Integers, Sequences, SequencesExt

CONSTANTS Archive,  \* the sources: a name -> [kind, texts it may hold]
          Tests, Errors, \* what names a failure in a text
          Unnamed,  \* unknown_test
          Nothing,  \* no excerpt, no diagnosis, no file
          Near,     \* lines that 500 characters hold
          MaxChanges, MaxMines \* bounds: changes of a source, runs

Kinds == <<"decisions", "git", "transcripts">>

ArchiveAssumption == /\ \A s \in DOMAIN Archive : Archive[s].kind \in Range(Kinds)
                     /\ {Near, MaxChanges, MaxMines} \subseteq Nat

VARIABLES texts, \* source -> [fate, text]
          run,   \* the run of qa mine
          spare, \* the temporary file it writes
          mined, \* the file of --out, or Nothing
          changes, mines

archiveVars == <<texts, run, spare, mined, changes, mines>>

Sources == DOMAIN Archive
Pending == "Pending teacher review (mined from transcript)."
Case(test, error, diagnosis) ==
    [signature |-> [test |-> test, error |-> error], diagnosis |-> diagnosis]

-----------------------------------------------------------------------------
(* The sections about a failure that say something of it. *)
ParseDecisions(text) ==
    LET told == SelectSeq(text, LAMBDA d : d.failure /\ d.diagnosis # Nothing)
    IN  [i \in DOMAIN told |->
            Case(told[i].title, IF told[i].excerpt # Nothing THEN told[i].excerpt
                                                             ELSE told[i].title,
                 told[i].diagnosis)]

(* The commits whose subject starts with a fix. *)
ParseGitLog(text) ==
    LET fixes == SelectSeq(text, LAMBDA c : c.fix /\ c.subject # Nothing)
    IN  [i \in DOMAIN fixes |-> Case(fixes[i].subject, fixes[i].hash, fixes[i].hash)]

(* The first name of a test, or count of tests, in the context of line i;  *)
(* a count gives no name.                                                   *)
TestOf(text, i) ==
    LET names == {j \in DOMAIN text : j \in (i - Near)..(i - 1) /\ text[j].kind \in {"test", "ran"}}
    IN  IF names = {} THEN Unnamed
        ELSE LET j == CHOOSE j \in names : \A k \in names : j <= k
             IN  IF text[j].kind = "test" THEN text[j].name ELSE Unnamed

ParseTranscript(text) ==
    LET fails == SetToSortSeq({i \in DOMAIN text : text[i].kind = "fail"}, <)
    IN  [n \in DOMAIN fails |-> Case(TestOf(text, fails[n]), text[fails[n]].name, Pending)]

Parsed(s, text) == CASE Archive[s].kind = "decisions"   -> ParseDecisions(text)
                     [] Archive[s].kind = "git"         -> ParseGitLog(text)
                     [] Archive[s].kind = "transcripts" -> ParseTranscript(text)

(* _dedup_cases: the first occurrence of a signature wins. *)
Deduped(cases) ==
    LET kept == {i \in DOMAIN cases :
                    \A j \in DOMAIN cases : j < i => cases[j].signature # cases[i].signature}
        order == SetToSortSeq(kept, <)
    IN  [n \in DOMAIN order |-> cases[order[n]]]

(* export_mined: every row has the placeholder 0 for an id. *)
Rows(cases) == [i \in DOMAIN cases |->
                   [id |-> 0, signature |-> cases[i].signature, times_seen |-> 1,
                    by |-> cases[i].diagnosis]]

-----------------------------------------------------------------------------
NoRun == [phase |-> "idle", kinds |-> <<>>, left |-> {}, cases |-> <<>>, scanned |-> 0,
          errors |-> {}, refused |-> {}, read |-> <<>>]

ArchiveInit == /\ texts \in {t \in [Sources -> [fate : {"ok"}, text : UNION {Archive[s].texts : s \in Sources}]] :
                              \A s \in Sources : t[s].text \in Archive[s].texts}
               /\ run = NoRun /\ spare = Nothing /\ mined = Nothing
               /\ changes = 0 /\ mines = 0

(* Somebody writes a file, removes it, locks it, or writes what is not      *)
(* UTF-8; git may refuse a repository, for one without a commit.            *)
Fates(s) == {"ok", "absent", "unreadable", "garbled"}
            \cup IF Archive[s].kind = "git" THEN {"refused"} ELSE {}

Change(s) == /\ changes < MaxChanges
             /\ \E fate \in Fates(s), text \in Archive[s].texts :
                   texts' = [texts EXCEPT ![s] = [fate |-> fate, text |-> text]]
             /\ changes' = changes + 1
             /\ UNCHANGED <<run, spare, mined, mines>>

OfKind(kinds) == IF kinds = <<>> THEN {} ELSE {s \in Sources : Archive[s].kind = kinds[1]}

(* mine_directory: the sources asked for, kind after kind. *)
Start(asked) == /\ run.phase \in {"idle", "done", "dead"} /\ mines < MaxMines
                /\ LET kinds == SelectSeq(Kinds, LAMBDA k : k \in asked)
                   IN  run' = [NoRun EXCEPT !.phase = "scan", !.kinds = kinds, !.left = OfKind(kinds)]
                /\ mines' = mines + 1
                /\ UNCHANGED <<texts, spare, mined, changes>>

Scanning(s) == run.phase = "scan" /\ s \in run.left
After(s) == [run EXCEPT !.left = @ \ {s}]

(* A source is read once, when its turn comes; one that is gone is not found. *)
ReadSource(s) ==
    /\ Scanning(s) /\ texts[s].fate = "ok"
    /\ run' = [After(s) EXCEPT !.scanned = @ + 1, !.cases = @ \o Parsed(s, texts[s].text),
                               !.read = Append(@, [of |-> s, text |-> texts[s].text])]
    /\ UNCHANGED <<texts, spare, mined, changes, mines>>

MissSource(s) ==
    /\ Scanning(s) /\ texts[s].fate = "absent"
    /\ run' = After(s)
    /\ UNCHANGED <<texts, spare, mined, changes, mines>>

(* OSError: a warning, and the run goes on. *)
WarnOfSource(s) ==
    /\ Scanning(s) /\ texts[s].fate \in {"absent", "unreadable"}
    /\ run' = [After(s) EXCEPT !.scanned = @ + 1, !.errors = @ \cup {s}]
    /\ UNCHANGED <<texts, spare, mined, changes, mines>>

(* git log ends with an error: nothing is read and nothing is said of it. *)
PassOver(s) ==
    /\ Scanning(s) /\ texts[s].fate = "refused"
    /\ run' = [After(s) EXCEPT !.scanned = @ + 1, !.refused = @ \cup {s}]
    /\ UNCHANGED <<texts, spare, mined, changes, mines>>

(* UnicodeDecodeError is none: it ends the command, and nothing is written. *)
DieOfSource(s) ==
    /\ Scanning(s) /\ texts[s].fate = "garbled"
    /\ run' = [run EXCEPT !.phase = "dead"]
    /\ UNCHANGED <<texts, spare, mined, changes, mines>>

NextKind == /\ run.phase = "scan" /\ run.left = {} /\ run.kinds # <<>>
            /\ run' = [run EXCEPT !.kinds = Tail(@), !.left = OfKind(Tail(run.kinds))]
            /\ UNCHANGED <<texts, spare, mined, changes, mines>>

(* export_mined: a temporary file, then os.replace. *)
WriteSpare == /\ run.phase = "scan" /\ run.kinds = <<>>
              /\ spare' = Rows(Deduped(run.cases))
              /\ run' = [run EXCEPT !.phase = "write"]
              /\ UNCHANGED <<texts, mined, changes, mines>>

Replace == /\ run.phase = "write"
           /\ mined' = spare /\ spare' = Nothing
           /\ run' = [run EXCEPT !.phase = "done"]
           /\ UNCHANGED <<texts, changes, mines>>

(* Whatever stops the write removes the temporary file. *)
FailToWrite == /\ run.phase = "write"
               /\ spare' = Nothing /\ run' = [run EXCEPT !.phase = "dead"]
               /\ UNCHANGED <<texts, mined, changes, mines>>

ArchiveNext ==
    \/ \E s \in Sources : \/ Change(s) \/ ReadSource(s) \/ MissSource(s)
                          \/ WarnOfSource(s) \/ PassOver(s) \/ DieOfSource(s)
    \/ \E asked \in {Range(Kinds), {"git", "transcripts"}} : Start(asked)
    \/ NextKind \/ WriteSpare \/ Replace \/ FailToWrite

ArchiveSpec == ArchiveInit /\ [][ArchiveNext]_archiveVars

-----------------------------------------------------------------------------
Signature == [test : Tests \cup {Unnamed}, error : Errors]

ArchiveTypeOK ==
    /\ \A s \in Sources : texts[s].text \in Archive[s].texts
    /\ run.phase \in {"idle", "scan", "write", "done", "dead"} /\ run.left \subseteq Sources
    /\ \A i \in DOMAIN run.cases : run.cases[i].signature \in Signature
    /\ run.scanned = Len(run.read) + Cardinality(run.errors) + Cardinality(run.refused)
    /\ mines \in 0..MaxMines /\ changes \in 0..MaxChanges

(* A transcript that waits for its teacher never takes the place of a       *)
(* diagnosis that a decision or a commit of the same run has paid for, and   *)
(* a failure is one row, which import insists on (_dedup_cases).             *)
DiagnosesWin ==
    run.phase = "done" => \A i \in DOMAIN mined :
        /\ mined[i].by = Pending =>
              \A c \in Range(run.cases) : c.signature = mined[i].signature => c.diagnosis = Pending
        /\ \A j \in DOMAIN mined : mined[i].signature = mined[j].signature => i = j

(* What was read is in the file: every failure of a decision with a         *)
(* diagnosis and every failing line has its row, whatever else was missing, *)
(* could not be read or was refused by git.                                 *)
ReportsKept ==
    run.phase = "done" => \A r \in Range(run.read) : \A i \in DOMAIN r.text :
        CASE Archive[r.of].kind = "decisions" /\ r.text[i].failure /\ r.text[i].diagnosis # Nothing ->
                 \E n \in DOMAIN mined : mined[n].signature.test = r.text[i].title
          [] Archive[r.of].kind = "transcripts" /\ r.text[i].kind = "fail" ->
                 \E n \in DOMAIN mined : mined[n].signature.error = r.text[i].name
          [] OTHER -> TRUE
===============================================================================
