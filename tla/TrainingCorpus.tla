--------------------------- MODULE TrainingCorpus ---------------------------
(***************************************************************************)
(* From experience to training data: the curator's gate writes every       *)
(* trajectory with its verdict (agent/curation.py), the training pipeline  *)
(* takes from that export what it teaches (agent/training.py).  It reads   *)
(* the export twice; sessions go on recording meanwhile.                   *)
(***************************************************************************)
EXTENDS ExperienceStore, FiniteSets, SequencesExt

CONSTANTS Tasks,
          TaskOf,    \* the task of a stored goal, without the run's suffix
          CapRatio,  \* REAL_CAP_RATIO
          MaxExports \* bound of the model: runs of qa curate

ASSUME CorpusAssumption ==
    /\ TaskOf \in [Goals -> Tasks] /\ IsFiniteSet(Goals)
    /\ CapRatio \in Nat /\ MaxExports \in Nat

VARIABLES export,  \* trajectory.jsonl: [row, verdict] of a goal, or NoRow
          exports, \* how many there have been
          first,   \* what a build has read so far, or NoFile
          corpus   \* training.jsonl: what it teaches and leaves out, or NoFile

corpusVars == <<export, exports, first, corpus>>
learningVars == <<store, temp, hand, lock, told, calls, apart, export, exports, first, corpus>>

CorpusInit == /\ StoreInit
              /\ export = NoFile /\ exports = 0 /\ first = NoFile /\ corpus = NoFile

-----------------------------------------------------------------------------
(* The curation gate. *)

Verdicts == {"ACCEPT", "HELD"} \* HELD: for review, or rejected

(* verdict_for: hard flags reject, a success without a recorded pass is    *)
(* never accepted, and else the score decides, about which the model       *)
(* assumes nothing.                                                        *)
VerdictsFor(row) ==
    IF row.style = "flagged" THEN {"HELD"}
    ELSE IF row.outcome = "success" /\ ~row.proof THEN {"HELD"}
    ELSE Verdicts

Judged(verdictOf) ==
    [g \in Goals |-> IF store[g] = NoRow THEN NoRow
                     ELSE [row |-> store[g], verdict |-> verdictOf[g]]]

(* TrajectoryCurator.curate: loads the store once and exports every        *)
(* trajectory, accepted or not.                                            *)
Curate ==
    /\ exports < MaxExports
    /\ \E verdictOf \in [Goals -> Verdicts] :
          /\ \A g \in Goals : IF store[g] = NoRow THEN verdictOf[g] = "HELD"
                              ELSE verdictOf[g] \in VerdictsFor(store[g])
          /\ export' = Judged(verdictOf)
    /\ exports' = exports + 1
    /\ UNCHANGED <<store, temp, hand, lock, told, calls, apart, first, corpus>>

-----------------------------------------------------------------------------
(* The training pipeline. *)

Deliberate(row) == row.style = "demo"

(* Fault: a success needs no evidence. *)
EligibleByOutcome(t) == /\ t.verdict = "ACCEPT"
                        /\ t.row.outcome \in {"success", "recovered"}
                        /\ t.row.style # "thrash"

(* _eligibility: accepted, a success or a recovery, with a recorded pass,  *)
(* and not a thrash unless it is one by design.                            *)
Eligible(t) == /\ t.verdict = "ACCEPT"
               /\ t.row.outcome \in {"success", "recovered"}
               /\ t.row.proof
               /\ t.row.style # "thrash"

(* _step_trainable: the steps were captured. *)
Trainable(rows) ==
    {g \in Goals : rows[g] # NoRow /\ Eligible(rows[g]) /\ rows[g].row.steps # "none"}

(* A turn of a task: one more of its records, while the budget lasts. *)
Spend(spent, task, sizes) ==
    IF spent.kept[task] < sizes[task] /\ spent.left > 0
    THEN [kept |-> [spent.kept EXCEPT ![task] = @ + 1], left |-> spent.left - 1]
    ELSE spent

(* One round of the budget: a record of every group that has one left. *)
Round(spent, groups, sizes) ==
    LET after[i \in 0..Len(groups)] ==
            IF i = 0 THEN spent ELSE Spend(after[i - 1], groups[i], sizes)
    IN  after[Len(groups)]

(* build_training, the cap on real trajectories: how many of each task. *)
Quota(groups, sizes, budget) ==
    LET after[n \in 0..budget] ==
            IF n = 0 THEN [kept |-> [task \in DOMAIN sizes |-> 0], left |-> budget]
                     ELSE Round(after[n - 1], groups, sizes)
    IN  after[budget].kept

OfTask(goals, task) == {g \in goals : TaskOf[g] = task}

SizesOf(goals) == [task \in Tasks |-> Cardinality(OfTask(goals, task))]

(* What is kept of the real ones: all of them where nothing is deliberate. *)
KeptReal(real, kept, demos) ==
    /\ kept \subseteq real
    /\ IF demos = {} THEN kept = real
       ELSE \E groups \in SetToSeqs({TaskOf[g] : g \in real}) :
               SizesOf(kept) = Quota(groups, SizesOf(real), CapRatio * Cardinality(demos))

(* _srft_lane: failed and unflagged, with captured steps; of each task the *)
(* longest prefix.                                                         *)
PrefixSource(rows) ==
    {g \in Goals : /\ rows[g] # NoRow /\ rows[g].row.outcome = "failed"
                   /\ rows[g].row.style # "flagged" /\ rows[g].row.steps # "none"}

(* Nothing is built from an export that is not there. *)
ReadRecords ==
    /\ export # NoFile /\ first = NoFile
    /\ first' = export
    /\ UNCHANGED <<store, temp, hand, lock, told, calls, apart, export, exports, corpus>>

(* The second read, for the prefixes, and the write of training.jsonl. *)
WriteCorpus ==
    /\ first # NoFile
    /\ LET all == Trainable(first)
           demos == {g \in all : Deliberate(first[g].row)}
       IN \E kept \in SUBSET (all \ demos), prefixes \in SUBSET PrefixSource(export) :
             /\ KeptReal(all \ demos, kept, demos)
             /\ \A g, h \in prefixes : TaskOf[g] = TaskOf[h] => g = h
             /\ corpus' = [taught |-> demos \cup kept, real |-> kept, offered |-> all,
                           steps |-> [g \in demos \cup kept |-> first[g].row.steps],
                           prefixes |-> prefixes, torn |-> first # export]
    /\ first' = NoFile
    /\ UNCHANGED <<store, temp, hand, lock, told, calls, apart, export, exports>>

(* A behaviour of the model ends with the corpus it builds. *)
CorpusNext == /\ corpus = NoFile
              /\ \/ StoreNext /\ UNCHANGED corpusVars
                 \/ Curate
                 \/ ReadRecords
                 \/ WriteCorpus

CorpusSpec == CorpusInit /\ [][CorpusNext]_learningVars

-----------------------------------------------------------------------------
Export == [Goals -> [row : Rows, verdict : Verdicts] \cup {NoRow}]

CorpusTypeOK ==
    /\ StoreTypeOK
    /\ export \in Export \cup {NoFile} /\ first \in Export \cup {NoFile}
    /\ exports \in 0..MaxExports
    /\ corpus # NoFile =>
          /\ corpus.real \subseteq corpus.taught /\ corpus.taught \subseteq corpus.offered /\ corpus.offered \subseteq Goals
          /\ corpus.prefixes \subseteq Goals /\ corpus.torn \in BOOLEAN
          /\ corpus.steps \in [corpus.taught -> {"proved", "unproved", "none"}]

(* The tasks take turns: while a real trajectory of one task is left out,   *)
(* no other task keeps two more than it does (training.build_training, S117). *)
TasksTakeTurns ==
    corpus # NoFile =>
        \A low, high \in Tasks :
            LET cut == OfTask(corpus.offered \ corpus.taught, low)
                kept(task) == Cardinality(OfTask(corpus.real, task))
            IN cut # {} => kept(high) <= kept(low) + 1

(* One trajectory is a demonstration and a failed prefix of the same       *)
(* corpus only if the export changed between the two reads.                *)
OneExport ==
    corpus # NoFile => (corpus.taught \cap corpus.prefixes # {} => corpus.torn)

(* What is taught as a demonstration are the steps of a session whose own  *)
(* verification passed, although a row's outcome comes from later sessions *)
(* and from claims (training._eligibility, ExperienceStore.record).        *)
TaughtIsVerified == corpus # NoFile => \A g \in corpus.taught : corpus.steps[g] = "proved"

(* Together: what is taught is proved, is not taught as a failure besides,  *)
(* and is shared among the tasks.                                          *)
CorpusIsSound == TaughtIsVerified /\ OneExport /\ TasksTakeTurns
=============================================================================
