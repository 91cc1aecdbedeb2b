------------------------------- MODULE Verdict -------------------------------
(***************************************************************************)
(* The jobs of the dashboard (server.start_job): a verdict over models     *)
(* (ep1.run_verdict), an evaluation of them (evaluation.run_evaluation) or *)
(* a single benchmark, on threads of their own that record every run in    *)
(* the one experience store, where others record and clean up; the metrics *)
(* of a verdict are computed from what the store got since it began.       *)
(***************************************************************************)
EXTENDS Integers, Sequences, FiniteSets, SequencesExt

CONSTANTS Jobs,      \* the jobs that may be started
          Asked,     \* the models a verdict may be asked about
          Drip,      \* the model of a single benchmark
          Tasks,     \* the tasks of a verdict, in order
          Reps,      \* repetitions of a task
          Outcomes,  \* how a session may end: [outcome, steps]
          Foreign,   \* rows others may record
          MaxOthers  \* bound: rows others add or remove

VerdictAssumption == Reps \in Nat \ {0} /\ MaxOthers \in Nat

VARIABLES rows,   \* the store: [model, demo, session], oldest first
          jobs,   \* job -> its state
          others  \* rows others have added or removed

verdictVars == <<rows, jobs, others>>

-----------------------------------------------------------------------------
(* protocol_metrics, over the rows of one model.  A step of a session is    *)
(* "list", "read", "guess" (a read of a missing file), "pass" or "fail" (a  *)
(* run of the tests), or "error".  Rates are left as what they are made of. *)
Steps(r) == r.session.steps
Over(rs, P(_)) == Len(SelectSeq(rs, P))
StepsOf(rs, kinds) ==
    FoldLeft(LAMBDA n, r : n + Len(SelectSeq(Steps(r), LAMBDA s : s \in kinds)), 0, rs)

(* After the first failing tests, a read within two steps. *)
ReadsOn(steps, i) == \E j \in (i + 1)..(i + 2) : j \in DOMAIN steps /\ steps[j] = "read"
Fails(steps)    == \E i \in DOMAIN steps : steps[i] = "fail"
Diagnoses(steps) ==
    \E i \in DOMAIN steps : /\ steps[i] = "fail" /\ ReadsOn(steps, i)
                            /\ \A j \in 1..(i - 1) : steps[j] # "fail"

Metrics(rs) ==
    LET own == SelectSeq(rs, LAMBDA r : ~r.demo)
    IN  [runs |-> Len(rs),
         withCalls |-> Over(rs, LAMBDA r : Steps(r) # <<>>),
         discovered |-> Over(rs, LAMBDA r : Steps(r) # <<>> /\ Steps(r)[1] = "list"),
         successes |-> Over(rs, LAMBDA r : r.session.outcome = "success"),
         guessed |-> StepsOf(own, {"guess"}),
         failures |-> StepsOf(own, {"guess", "error"}),
         failing |-> Over(own, LAMBDA r : Fails(Steps(r))),
         chained |-> Over(own, LAMBDA r : Diagnoses(Steps(r)))]

(* compare: the tasks of both reports that were done and are not any more, *)
(* and the other way round.  A result is 1 when the task was done.          *)
Shared(old, new) == {<<m, t>> \in (DOMAIN old \cap DOMAIN new) \X Range(Tasks) : TRUE}
Regressions(old, new)  == {x \in Shared(old, new) : old[x[1]][x[2]] > new[x[1]][x[2]]}
Improvements(old, new) == {x \in Shared(old, new) : old[x[1]][x[2]] < new[x[1]][x[2]]}
(* aggregates: how many tasks of a model were done. *)
Done(results, m) == FoldSet(LAMBDA t, n : n + results[m][t], 0, Range(Tasks))

-----------------------------------------------------------------------------
NotStarted == [status |-> "none", kind |-> "drip", todo |-> <<>>, snapshot |-> 0,
               results |-> <<>>, metrics |-> <<>>, summary |-> FALSE,
               own |-> <<>>, alone |-> TRUE, grown |-> TRUE]

VerdictInit == rows = <<>> /\ jobs = [j \in Jobs |-> NotStarted] /\ others = 0

(* Every model over every task, so many times: a verdict, or an evaluation. *)
Schedule(models, times) == FlattenSeq([m \in DOMAIN models |-> FlattenSeq([t \in DOMAIN Tasks |->
                        [n \in 1..times |-> [model |-> models[m], task |-> Tasks[t]]]])])

StartJob(j, new) == /\ jobs[j].status = "none"
                    /\ jobs' = [jobs EXCEPT ![j] = new]
                    /\ UNCHANGED <<rows, others>>

StartRuns(j, kind, models, times) ==
    StartJob(j, [NotStarted EXCEPT !.status = "running", !.kind = kind,
                    !.todo = Schedule(models, times), !.snapshot = Len(rows),
                    !.results = [m \in Range(models) |-> [t \in Range(Tasks) |-> 0]]])
StartVerdict(j, models) == StartRuns(j, "verdict", models, Reps)
StartEvaluation(j, models) == StartRuns(j, "evaluation", models, 1)
StartDrip(j) ==
    StartJob(j, [NotStarted EXCEPT !.status = "running", !.todo = <<[model |-> Drip, task |-> Tasks[1]]>>])

Models == {Drip} \cup UNION {Range(a) : a \in Asked}

(* The verdicts that a new row of this model, or a row less, disturbs. *)
Disturbed(j, models, grown) ==
    [k \in Jobs |-> IF k = j \/ jobs[k].status # "running" THEN jobs[k]
                    ELSE [jobs[k] EXCEPT !.alone = @ /\ models \cap DOMAIN jobs[k].results = {},
                                         !.grown = @ /\ grown]]
Row(model, session) == [model |-> model, demo |-> FALSE, session |-> session]

(* run_benchmark: a session of the loop, recorded under a goal of its own. *)
Benchmark(j) ==
    /\ jobs[j].status = "running" /\ jobs[j].todo # <<>>
    /\ \E session \in Outcomes :
          LET run == Head(jobs[j].todo)
              won == IF session.outcome \in {"success", "recovered"} THEN 1 ELSE 0
              row == Row(run.model, session)
          IN  /\ rows' = Append(rows, row)
              /\ jobs' = [Disturbed(j, {run.model}, TRUE) EXCEPT ![j].todo = Tail(@), ![j].own = Append(@, row),
                            ![j].results = IF jobs[j].kind = "drip" THEN @
                                           ELSE [@ EXCEPT ![run.model][run.task] = @ + won]]
    /\ UNCHANGED others

(* The runner raises (a busy lock, a bad row): the job says so. *)
FailJob(j) == /\ jobs[j].status = "running"
              /\ jobs' = [jobs EXCEPT ![j].status = "failed", ![j].summary = TRUE]
              /\ UNCHANGED <<rows, others>>

(* The rows behind the snapshot. *)
Since(n) == SubSeq(rows, n + 1, Len(rows))

(* The metrics of each model, and the summary before the status. *)
Summarize(j) ==
    /\ jobs[j].status = "running" /\ jobs[j].todo = <<>> /\ ~jobs[j].summary
    /\ LET fresh == Since(jobs[j].snapshot)
       IN  jobs' = [jobs EXCEPT ![j].summary = TRUE,
              ![j].metrics = IF jobs[j].kind # "verdict" THEN @ ELSE [m \in DOMAIN jobs[j].results |->
                                 Metrics(SelectSeq(fresh, LAMBDA r : r.model = m))]]
    /\ UNCHANGED <<rows, others>>

Finish(j) == /\ jobs[j].status = "running" /\ jobs[j].todo = <<>> /\ jobs[j].summary
             /\ jobs' = [jobs EXCEPT ![j].status = "done"]
             /\ UNCHANGED <<rows, others>>

(* A session beside the jobs, or a demonstration, is recorded. *)
OtherRecords(row) ==
    /\ others < MaxOthers /\ others' = others + 1
    /\ rows' = Append(rows, row)
    /\ jobs' = Disturbed("nobody", {row.model}, TRUE)

(* curate() drops a row of theirs. *)
OtherDrops(i) ==
    /\ others < MaxOthers /\ others' = others + 1
    /\ \A j \in Jobs : rows[i] \notin Range(jobs[j].own)
    /\ rows' = RemoveAt(rows, i)
    /\ jobs' = Disturbed("nobody", Models, FALSE)

VerdictNext ==
    \/ \E j \in Jobs : \/ StartDrip(j) \/ \E models \in Asked : StartVerdict(j, models) \/ StartEvaluation(j, models)
                       \/ Benchmark(j) \/ FailJob(j) \/ Summarize(j) \/ Finish(j)
    \/ \E row \in Foreign : OtherRecords(row)
    \/ \E i \in DOMAIN rows : OtherDrops(i)

VerdictSpec == VerdictInit /\ [][VerdictNext]_verdictVars

-----------------------------------------------------------------------------
VerdictTypeOK ==
    /\ \A j \in Jobs : /\ jobs[j].status \in {"none", "running", "failed", "done"}
                       /\ jobs[j].kind \in {"drip", "verdict", "evaluation"}
    /\ others \in 0..MaxOthers

Ran(j, m) == SelectSeq(jobs[j].own, LAMBDA r : r.model = m)

(* The metrics of a verdict are those of its own runs as long as nobody     *)
(* else records its models or drops a row: "the population is computed from a pre-run store *)
(* snapshot, not a tail count" (run_verdict).  Others that record can only  *)
(* add to it; a row that is dropped takes one of the verdict's away.        *)
MetricsAreOfVerdict ==
    \A j \in Jobs : jobs[j].metrics # <<>> => \A m \in DOMAIN jobs[j].metrics :
        LET own == Ran(j, m)
        IN  /\ jobs[j].alone => jobs[j].metrics[m] = Metrics(own)
            /\ jobs[j].grown => jobs[j].metrics[m].runs >= Len(own)
            /\ Len(own) = Reps * Len(Tasks)

(* A chain of diagnosis needs a failure, and a run counts as a success of   *)
(* the protocol only if its task counts as done: over the whole verdict the *)
(* successes are at most the runs that were.                                *)
RatesAreRates ==
    \A j \in Jobs : jobs[j].metrics # <<>> => \A m \in DOMAIN jobs[j].metrics :
        LET x == jobs[j].metrics[m]
        IN  /\ x.discovered <= x.withCalls /\ x.withCalls <= x.runs
            /\ x.chained <= x.failing /\ x.failing <= x.runs
            /\ jobs[j].alone =>
                  x.successes <= Done(jobs[j].results, m)

(* A job that is done has run all it was asked for and has its summary;     *)
(* between two evaluations one's regressions are the other's improvements,  *)
(* and they make up the difference of what was done (evaluation.compare:    *)
(* "Symmetric comparison of two runs").                                     *)
JobsAreHonest ==
    /\ \A j \in Jobs : jobs[j].status = "done" => jobs[j].todo = <<>> /\ jobs[j].summary
    /\ \A j, k \in Jobs :
          {jobs[j].kind, jobs[k].kind} = {"evaluation"} =>
             LET old == jobs[j].results  new == jobs[k].results
             IN  /\ Regressions(old, new) = Improvements(new, old)
                 /\ \A m \in DOMAIN old \cap DOMAIN new :
                       Done(new, m) - Done(old, m)
                          = Cardinality({x \in Improvements(old, new) : x[1] = m})
                            - Cardinality({x \in Regressions(old, new) : x[1] = m})
===============================================================================
